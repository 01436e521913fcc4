---------------------------- MODULE Workbook_proofs ----------------------------
(***************************************************************************)
(* What the workbook's history and its references promise for every size of  *)
(* sheet, every set of names and every number of actions: an undo brings     *)
(* back what was there, a redo what was taken back, and a reference keeps    *)
(* its cell.                                                                 *)
(*                                                                           *)
(* The library's induction theorems take an operator, which no backend can   *)
(* instantiate; the two principles used here are stated for sets instead.    *)
(***************************************************************************)
EXTENDS Workbook, SequenceTheorems, FiniteSetTheorems, WellFoundedInduction, TLAPS

----------------------------------------------------------------------------
(* Induction over numbers and over sequences.                               *)

(* A set of numbers that has zero, and with a number the next, has them all. *)
LEMMA NumbersInduct ==
    ASSUME NEW G, 0 \in G, \A n \in Nat : n \in G => n + 1 \in G
    PROVE  \A n \in Nat : n \in G
<1> DEFINE R == {ss \in Nat \X Nat : ss[1] < ss[2]}
           T == Nat \ G
<1> SUFFICES ASSUME T # {} PROVE FALSE
  OBVIOUS
<1>1. IsWellFoundedOn(R, Nat)
  BY NatLessThanWellFounded DEF OpToRel
<1>2. \A x, y \in Nat : y < x => <<y, x>> \in R
  OBVIOUS
<1>3. T \subseteq Nat
  OBVIOUS
<1> HIDE DEF R, T
<1>4. PICK x \in T : \A y \in T : ~(<<y, x>> \in R)
  BY <1>1, <1>3, WFMin
<1>5. \A y \in T : ~(y < x)
  BY <1>2, <1>3, <1>4
<1> USE DEF T
<1>6. x # 0 /\ x \in Nat /\ x \notin G
  BY <1>4
<1>7. x - 1 \in Nat /\ x - 1 < x /\ (x - 1) + 1 = x
  BY <1>6
<1>8. x - 1 \in G
  <2> SUFFICES ASSUME x - 1 \notin G PROVE FALSE
    OBVIOUS
  <2>1. x - 1 \in T
    BY <1>7
  <2> HIDE DEF T
  <2> QED
    BY <2>1, <1>5, <1>7
<1> HIDE DEF T
<1> QED
  BY <1>6, <1>7, <1>8

(* A sequence in front of which one element is put.                         *)
LEMMA ConsProperties ==
    ASSUME NEW S, NEW p \in S, NEW e \in Seq(S)
    PROVE  /\ <<p>> \o e \in Seq(S) /\ <<p>> \o e # <<>>
           /\ Len(<<p>> \o e) = Len(e) + 1 /\ Len(e) \in Nat
           /\ (<<p>> \o e)[1] = p
           /\ \A k \in 1..Len(e) : (<<p>> \o e)[k + 1] = e[k]
<1> DEFINE one == <<p>>
<1>1. one \in Seq(S) /\ Len(one) = 1 /\ one[1] = p
  OBVIOUS
<1> HIDE DEF one
<1>2. Len(e) \in Nat
  BY LenProperties
<1>3. /\ one \o e \in Seq(S) /\ Len(one \o e) = Len(one) + Len(e)
      /\ \A k \in 1..(Len(one) + Len(e)) : (one \o e)[k] =
            IF k <= Len(one) THEN one[k] ELSE e[k - Len(one)]
  BY <1>1, ConcatProperties
<1>4. (one \o e)[1] = p
  BY <1>1, <1>2, <1>3
<1>5. \A k \in 1..Len(e) : (one \o e)[k + 1] = e[k]
  <2> TAKE k \in 1..Len(e)
  <2>1. k + 1 \in 1..(1 + Len(e)) /\ ~(k + 1 <= 1) /\ (k + 1) - 1 = k
    BY <1>2
  <2> QED
    BY <1>1, <1>3, <2>1
<1>6. one \o e # <<>>
  BY <1>1, <1>2, <1>3, EmptySeq
<1> QED
  BY <1>1, <1>2, <1>3, <1>4, <1>5, <1>6 DEF one

(* Two elements are one in front of one.                                    *)
LEMMA PairIsCons ==
    ASSUME NEW S, NEW p \in S, NEW q \in S
    PROVE  <<p, q>> = <<p>> \o <<q>>
<1> DEFINE one == <<q>>
           two == <<p, q>>
<1>1. one \in Seq(S) /\ Len(one) = 1 /\ one[1] = q
  OBVIOUS
<1>2. two \in Seq(S) /\ Len(two) = 2 /\ two[1] = p /\ two[2] = q
  OBVIOUS
<1> HIDE DEF one, two
<1>3. /\ <<p>> \o one \in Seq(S) /\ Len(<<p>> \o one) = Len(one) + 1
      /\ (<<p>> \o one)[1] = p
      /\ \A k \in 1..Len(one) : (<<p>> \o one)[k + 1] = one[k]
  <2>1. one \in Seq(S)
    BY <1>1
  <2>2. ASSUME NEW e \in Seq(S)
        PROVE  /\ <<p>> \o e \in Seq(S) /\ Len(<<p>> \o e) = Len(e) + 1
               /\ (<<p>> \o e)[1] = p
               /\ \A k \in 1..Len(e) : (<<p>> \o e)[k + 1] = e[k]
    BY ConsProperties
  <2> QED
    BY <2>1, <2>2
<1>4. (<<p>> \o one)[2] = q
  <2>1. 1 \in 1..Len(one) /\ 1 + 1 = 2
    BY <1>1
  <2>2. (<<p>> \o one)[1 + 1] = one[1]
    BY <1>3, <2>1
  <2> QED
    BY <1>1, <2>1, <2>2
<1>5. \A k \in 1..Len(two) : two[k] = (<<p>> \o one)[k]
  <2> TAKE k \in 1..Len(two)
  <2>1. k = 1 \/ k = 2
    BY <1>2
  <2> QED
    BY <1>2, <1>3, <1>4, <2>1
<1>6. Len(two) = Len(<<p>> \o one)
  BY <1>1, <1>2, <1>3
<1>7. two = <<p>> \o one
  BY <1>2, <1>3, <1>5, <1>6, SeqEqual
<1> QED
  BY <1>7 DEF one, two

(* A sequence is empty or one element in front of another sequence.          *)
LEMMA ConsOrEmpty ==
    ASSUME NEW S, NEW e \in Seq(S), e # <<>>
    PROVE  \E p \in S, f \in Seq(S) : e = <<p>> \o f /\ Len(e) = Len(f) + 1
<1>1. e[1] \in S /\ Tail(e) \in Seq(S) /\ Len(e) \in Nat \ {0}
  BY HeadTailProperties, EmptySeq
<1>2. /\ Len(Tail(e)) = Len(e) - 1
      /\ \A i \in 1..Len(Tail(e)) : Tail(e)[i] = e[i + 1]
  BY HeadTailProperties
<1> DEFINE p == e[1]
           f == Tail(e)
<1> HIDE DEF p, f
<1>3. p \in S /\ f \in Seq(S)
  BY <1>1 DEF p, f
<1>4. /\ <<p>> \o f \in Seq(S) /\ Len(<<p>> \o f) = Len(f) + 1
      /\ (<<p>> \o f)[1] = p
      /\ \A k \in 1..Len(f) : (<<p>> \o f)[k + 1] = f[k]
  BY <1>3, ConsProperties
<1>5. Len(e) = Len(f) + 1 /\ Len(f) \in Nat
  BY <1>1, <1>2 DEF f
<1>6. \A k \in 1..Len(e) : e[k] = (<<p>> \o f)[k]
  <2> TAKE k \in 1..Len(e)
  <2>1. CASE k = 1
    BY <2>1, <1>4 DEF p
  <2>2. CASE k # 1
    <3>1. k - 1 \in 1..Len(f) /\ (k - 1) + 1 = k
      BY <2>2, <1>5
    <3>2. f[k - 1] = e[k]
      BY <3>1, <1>2 DEF f
    <3> QED
      BY <3>1, <3>2, <1>4
  <2> QED
    BY <2>1, <2>2
<1>7. e = <<p>> \o f
  BY <1>4, <1>5, <1>6, SeqEqual
<1> QED
  BY <1>3, <1>5, <1>7

(* A set that has the empty sequence, and with a sequence whatever is one    *)
(* element longer at its front, has all sequences.                           *)
LEMMA SequencesInduct ==
    ASSUME NEW S, NEW G, <<>> \in G,
           \A e \in Seq(S), p \in S : e \in G => <<p>> \o e \in G
    PROVE  \A e \in Seq(S) : e \in G
<1> DEFINE H == {n \in Nat : \A e \in Seq(S) : Len(e) = n => e \in G}
<1>1. 0 \in H
  BY EmptySeq
<1>2. \A n \in Nat : n \in H => n + 1 \in H
  <2> SUFFICES ASSUME NEW n \in Nat, n \in H, NEW e \in Seq(S), Len(e) = n + 1
               PROVE  e \in G
    OBVIOUS
  <2>1. e # <<>>
    BY EmptySeq
  <2>2. PICK p \in S, f \in Seq(S) : e = <<p>> \o f /\ Len(e) = Len(f) + 1
    BY <2>1, ConsOrEmpty
  <2>3. Len(f) = n
    BY <2>2, LenProperties
  <2> QED
    BY <2>2, <2>3
<1> HIDE DEF H
<1>3. \A n \in Nat : n \in H
  BY <1>1, <1>2, NumbersInduct
<1> QED
  BY <1>3, LenProperties DEF H

----------------------------------------------------------------------------
(* Entries, one patch at a time.                                            *)

(* What is restored of an entry, by how many of its patches. *)
IsBack(g, w, e) ==
    g = [k \in 0..Len(e) |-> IF k = 0 THEN Restored(w, <<>>)
                             ELSE RestoreOne(g[k - 1], e[Len(e) + 1 - k])]

(* Restoring an entry is a chain of such steps.                             *)
LEMMA RestoreIsBack ==
    ASSUME NEW w, NEW e, Len(e) \in Nat
    PROVE  \E g : IsBack(g, w, e) /\ Restore(w, e) = g[Len(e)]
<1> DEFINE Rec(g, m) == g = [k \in 0..m |-> IF k = 0 THEN Restored(w, <<>>)
                                            ELSE RestoreOne(g[k - 1], e[Len(e) + 1 - k])]
           Good == {m \in Nat : \E g : Rec(g, m)}
<1>1. 0 \in Good
  <2>1. Rec([k \in 0..0 |-> Restored(w, <<>>)], 0)
    OBVIOUS
  <2> QED
    BY <2>1
<1>2. \A m \in Nat : m \in Good => m + 1 \in Good
  <2> SUFFICES ASSUME NEW m \in Nat, m \in Good PROVE m + 1 \in Good
    OBVIOUS
  <2>1. PICK g : Rec(g, m)
    OBVIOUS
  <2> DEFINE h == [k \in 0..(m + 1) |-> IF k = 0 THEN Restored(w, <<>>)
                                        ELSE RestoreOne(g[k - 1], e[Len(e) + 1 - k])]
  <2>2. \A k \in 0..m : h[k] = g[k]
    BY <2>1
  <2>3. \A k \in 0..(m + 1) : k # 0 => k - 1 \in 0..m
    OBVIOUS
  <2>4. \A k \in 0..(m + 1) : k # 0 => h[k - 1] = g[k - 1]
    <3> HIDE DEF h
    <3> QED
      BY <2>2, <2>3
  <2>5. Rec(h, m + 1)
    BY <2>4
  <2> HIDE DEF h
  <2>6. \E x : Rec(x, m + 1)
    BY <2>5
  <2> QED
    BY <2>6
<1> HIDE DEF Good
<1>3. Len(e) \in Good
  BY <1>1, <1>2, NumbersInduct
<1>4. \E g : Rec(g, Len(e))
  BY <1>3 DEF Good
<1> QED
  BY <1>4 DEF Restore, IsBack

(* Nothing to restore.                                                      *)
LEMMA RestoreNothing ==
    ASSUME NEW w
    PROVE  Restore(w, <<>>) = Restored(w, <<>>)
<1> DEFINE e == <<>>
<1>1. Len(e) = 0
  OBVIOUS
<1> HIDE DEF e
<1>2. PICK g : IsBack(g, w, e) /\ Restore(w, e) = g[Len(e)]
  BY <1>1, RestoreIsBack
<1>3. Restore(w, e) = Restored(w, <<>>)
  BY <1>1, <1>2 DEF IsBack
<1> QED
  BY <1>3 DEF e

(* The first patch of an entry is restored after the others.                *)
LEMMA RestoreFirst ==
    ASSUME NEW S, NEW w, NEW p \in S, NEW e \in Seq(S)
    PROVE  Restore(w, <<p>> \o e) = RestoreOne(Restore(w, e), p)
<1> DEFINE all == <<p>> \o e
           n == Len(e)
<1>1. /\ n \in Nat /\ Len(all) = n + 1 /\ all[1] = p
      /\ \A k \in 1..n : all[k + 1] = e[k]
  BY ConsProperties
<1> HIDE DEF all, n
<1>2. PICK g : IsBack(g, w, e) /\ Restore(w, e) = g[n]
  BY <1>1, RestoreIsBack DEF n
<1>3. PICK h : IsBack(h, w, all) /\ Restore(w, all) = h[n + 1]
  BY <1>1, RestoreIsBack
<1> DEFINE Good == {k \in Nat : k <= n => h[k] = g[k]}
<1>4. 0 \in Good
  BY <1>1, <1>2, <1>3 DEF IsBack, n
<1>5. \A k \in Nat : k \in Good => k + 1 \in Good
  <2> SUFFICES ASSUME NEW k \in Nat, k \in Good, k + 1 <= n PROVE h[k + 1] = g[k + 1]
    OBVIOUS
  <2>1. h[k] = g[k]
    BY <1>1
  <2>2. all[n + 2 - (k + 1)] = e[n + 1 - (k + 1)]
    <3>1. n - k \in 1..n /\ (n - k) + 1 = n + 2 - (k + 1) /\ n - k = n + 1 - (k + 1)
      BY <1>1
    <3> QED
      BY <1>1, <3>1
  <2>3. h[k + 1] = RestoreOne(h[k], all[n + 2 - (k + 1)])
    <3>1. k + 1 \in 0..(n + 1) /\ k + 1 # 0 /\ (k + 1) - 1 = k
      BY <1>1
    <3>2. (n + 1) + 1 - (k + 1) = n + 2 - (k + 1)
      BY <1>1
    <3> QED
      BY <1>1, <1>3, <3>1, <3>2 DEF IsBack
  <2>4. g[k + 1] = RestoreOne(g[k], e[n + 1 - (k + 1)])
    <3>1. k + 1 \in 0..n /\ k + 1 # 0 /\ (k + 1) - 1 = k
      BY <1>1
    <3> QED
      BY <1>2, <3>1 DEF IsBack, n
  <2> QED
    BY <2>1, <2>2, <2>3, <2>4
<1> HIDE DEF Good
<1>6. n \in Good
  BY <1>1, <1>4, <1>5, NumbersInduct
<1>7. h[n] = g[n]
  BY <1>1, <1>6 DEF Good
<1>8. h[n + 1] = RestoreOne(h[n], all[1])
  <2>1. n + 1 \in 0..(n + 1) /\ n + 1 # 0 /\ (n + 1) - 1 = n /\ (n + 1) + 1 - (n + 1) = 1
    BY <1>1
  <2> QED
    BY <1>1, <1>3, <2>1 DEF IsBack
<1> QED
  BY <1>1, <1>2, <1>3, <1>7, <1>8 DEF all

----------------------------------------------------------------------------
(* Types.                                                                   *)

(* The sheets a workbook may have. *)
Sheets == {s \in UNION {[ids -> Sheet] : ids \in SUBSET (1..MaxSheets)} : IsSheets(s)}

(* The workbooks. *)
Book == [sheets : Sheets, names : [Name -> Content]]

(* The patches, by what they restore. *)
CellPatches == [kind : {"cell"}, id : 1..MaxSheets, row : Row, was : Content]
FormatPatches == [kind : {"format"}, id : 1..MaxSheets, row : Row, was : BOOLEAN]
SheetsPatches == [kind : {"sheets"}, was : Sheets]
NamesPatches == [kind : {"names"}, was : [Name -> Content]]
Patch == CellPatches \union FormatPatches \union SheetsPatches \union NamesPatches

(* These sets are what the type invariant speaks of.                        *)
LEMMA SheetsAre == \A s : s \in Sheets <=> IsSheets(s)
<1> SUFFICES ASSUME NEW s, IsSheets(s) PROVE s \in Sheets
  BY DEF Sheets
<1>1. DOMAIN s \in SUBSET (1..MaxSheets) /\ s \in [DOMAIN s -> Sheet]
  BY DEF IsSheets
<1> QED
  BY <1>1 DEF Sheets

LEMMA BookIs == \A w \in Book : IsBook(w)
BY SheetsAre DEF Book, IsBook

LEMMA PatchIs == \A p \in Patch : IsPatch(p)
<1> SUFFICES ASSUME NEW p \in Patch PROVE IsPatch(p)
  OBVIOUS
<1>1. CASE p \in CellPatches
  BY <1>1 DEF CellPatches, IsPatch
<1>2. CASE p \in FormatPatches
  BY <1>2 DEF FormatPatches, IsPatch
<1>3. CASE p \in SheetsPatches
  BY <1>3, SheetsAre DEF SheetsPatches, IsPatch
<1>4. CASE p \in NamesPatches
  BY <1>4 DEF NamesPatches, IsPatch
<1> QED
  BY <1>1, <1>2, <1>3, <1>4 DEF Patch

(* What a patch has.                                                        *)
LEMMA PatchFields ==
    ASSUME NEW p \in Patch
    PROVE  /\ p.kind \in {"cell", "format", "sheets", "names"}
           /\ p.kind = "cell" => p \in CellPatches
           /\ p.kind = "format" => p \in FormatPatches
           /\ p.kind = "sheets" => p \in SheetsPatches
           /\ p.kind = "names" => p \in NamesPatches
BY DEF Patch, CellPatches, FormatPatches, SheetsPatches, NamesPatches

(* What a workbook has.                                                     *)
LEMMA BookFields ==
    ASSUME NEW w \in Book
    PROVE  /\ w = [sheets |-> w.sheets, names |-> w.names]
           /\ w.names \in [Name -> Content]
           /\ w.sheets \in [Ids(w) -> Sheet] /\ Ids(w) \subseteq 1..MaxSheets
           /\ \A i \in Ids(w) :
                 /\ w.sheets[i] \in Sheet /\ w.sheets[i].name \in SheetName
                 /\ w.sheets[i].cells \in [Row -> Content]
                 /\ w.sheets[i].formats \in SUBSET Row
           /\ \A i, j \in Ids(w) : w.sheets[i].name = w.sheets[j].name => i = j
<1>1. w.sheets \in Sheets /\ w.names \in [Name -> Content]
      /\ w = [sheets |-> w.sheets, names |-> w.names]
  BY DEF Book
<1>2. IsSheets(w.sheets)
  BY <1>1, SheetsAre
<1> QED
  BY <1>1, <1>2 DEF IsSheets, Ids, Sheet

(* A workbook with a sheet, a cell or a sheet's formats written. *)
PutSheet(w, i, s) == [w EXCEPT !.sheets[i] = s]
PutCell(w, i, r, c) == [w EXCEPT !.sheets[i].cells[r] = c]
PutFormats(w, i, f) == [w EXCEPT !.sheets[i].formats = f]

(* What changing a sheet, but not its name, changes.                        *)
LEMMA SheetPut ==
    ASSUME NEW w \in Book, NEW i \in Ids(w), NEW s \in Sheet, s.name = w.sheets[i].name
    PROVE  /\ PutSheet(w, i, s) \in Book /\ Ids(PutSheet(w, i, s)) = Ids(w)
           /\ PutSheet(w, i, s).names = w.names /\ PutSheet(w, i, s).sheets[i] = s
           /\ \A j \in Ids(w) : j # i => PutSheet(w, i, s).sheets[j] = w.sheets[j]
<1> DEFINE t == [w.sheets EXCEPT ![i] = s]
           v == PutSheet(w, i, s)
<1>1. v = [sheets |-> t, names |-> w.names]
  BY DEF Book, PutSheet
<1>2. /\ DOMAIN t = Ids(w) /\ t[i] = s /\ t \in [Ids(w) -> Sheet]
      /\ \A j \in Ids(w) : j # i => t[j] = w.sheets[j]
  BY BookFields DEF Ids
<1> HIDE DEF t, v
<1>3. IsSheets(t)
  <2>1. DOMAIN t \subseteq 1..MaxSheets
    BY <1>2, BookFields
  <2>2. \A j, k \in DOMAIN t : t[j].name = t[k].name => j = k
    <3>1. \A j \in Ids(w) : t[j].name = w.sheets[j].name
      BY <1>2
    <3> QED
      BY <1>2, <3>1, BookFields
  <2> QED
    BY <1>2, <2>1, <2>2 DEF IsSheets
<1>4. v \in Book
  BY <1>1, <1>3, SheetsAre, BookFields DEF Book
<1>5. Ids(v) = Ids(w) /\ v.names = w.names /\ v.sheets = t
  BY <1>1, <1>2 DEF Ids
<1> QED
  BY <1>2, <1>4, <1>5 DEF v

(* Sheets that have the same are the same, and workbooks that have them and  *)
(* the same names.                                                          *)
LEMMA SheetsEqual ==
    ASSUME NEW x \in Book, NEW y \in Book, Ids(x) = Ids(y),
           \A i \in Ids(x) : /\ x.sheets[i].name = y.sheets[i].name
                             /\ \A r \in Row : x.sheets[i].cells[r] = y.sheets[i].cells[r]
                             /\ \A r \in Row : r \in x.sheets[i].formats <=> r \in y.sheets[i].formats
    PROVE  x.sheets = y.sheets
<1>1. \A i \in Ids(x) : x.sheets[i] = y.sheets[i]
  <2> SUFFICES ASSUME NEW i \in Ids(x) PROVE x.sheets[i] = y.sheets[i]
    OBVIOUS
  <2> DEFINE s == x.sheets[i]
             t == y.sheets[i]
  <2>1. /\ s \in Sheet /\ t \in Sheet
        /\ s.cells \in [Row -> Content] /\ t.cells \in [Row -> Content]
        /\ s.formats \in SUBSET Row /\ t.formats \in SUBSET Row
    BY BookFields
  <2>2. /\ s.name = t.name
        /\ \A r \in Row : s.cells[r] = t.cells[r]
        /\ \A r \in Row : r \in s.formats <=> r \in t.formats
    OBVIOUS
  <2> HIDE DEF s, t
  <2>3. s.cells = t.cells
    BY <2>1, <2>2
  <2>4. s.formats = t.formats
    BY <2>1, <2>2
  <2>5. s = t
    BY <2>1, <2>2, <2>3, <2>4 DEF Sheet
  <2> QED
    BY <2>5 DEF s, t
<1> QED
  BY <1>1, BookFields

LEMMA BooksEqual ==
    ASSUME NEW x \in Book, NEW y \in Book, x.names = y.names, Ids(x) = Ids(y),
           \A i \in Ids(x) : /\ x.sheets[i].name = y.sheets[i].name
                             /\ \A r \in Row : x.sheets[i].cells[r] = y.sheets[i].cells[r]
                             /\ \A r \in Row : r \in x.sheets[i].formats <=> r \in y.sheets[i].formats
    PROVE  x = y
<1>1. x.sheets = y.sheets
  BY SheetsEqual
<1> QED
  BY <1>1, BookFields

----------------------------------------------------------------------------
(* One patch.                                                               *)

(* What writing a cell changes.                                             *)
LEMMA CellPut ==
    ASSUME NEW w \in Book, NEW i \in Ids(w), NEW r \in Row, NEW c \in Content
    PROVE  LET v == PutCell(w, i, r, c) IN
           /\ v \in Book /\ Ids(v) = Ids(w) /\ v.names = w.names
           /\ \A j \in Ids(w) :
                 /\ v.sheets[j].name = w.sheets[j].name
                 /\ v.sheets[j].formats = w.sheets[j].formats
                 /\ \A q \in Row : v.sheets[j].cells[q] =
                        IF j = i /\ q = r THEN c ELSE w.sheets[j].cells[q]
<1> DEFINE s == w.sheets[i]
           t == [s EXCEPT !.cells[r] = c]
           v == PutCell(w, i, r, c)
<1>1. s \in Sheet /\ s.cells \in [Row -> Content] /\ s = w.sheets[i]
  BY BookFields
<1>2. v = PutSheet(w, i, t)
  BY DEF Book, PutSheet, PutCell
<1> HIDE DEF s
<1>3. /\ t \in Sheet /\ t.name = s.name /\ t.formats = s.formats
      /\ \A q \in Row : t.cells[q] = IF q = r THEN c ELSE s.cells[q]
  BY <1>1 DEF Sheet
<1> HIDE DEF t, v
<1>4. /\ v \in Book /\ Ids(v) = Ids(w) /\ v.names = w.names /\ v.sheets[i] = t
      /\ \A j \in Ids(w) : j # i => v.sheets[j] = w.sheets[j]
  BY <1>1, <1>2, <1>3, SheetPut
<1> QED
  BY <1>1, <1>3, <1>4 DEF v

(* What writing the formats of a sheet changes.                             *)
LEMMA FormatsPut ==
    ASSUME NEW w \in Book, NEW i \in Ids(w), NEW f \in SUBSET Row
    PROVE  LET v == PutFormats(w, i, f) IN
           /\ v \in Book /\ Ids(v) = Ids(w) /\ v.names = w.names
           /\ v.sheets[i].formats = f
           /\ \A j \in Ids(w) :
                 /\ v.sheets[j].name = w.sheets[j].name
                 /\ j # i => v.sheets[j].formats = w.sheets[j].formats
                 /\ v.sheets[j].cells = w.sheets[j].cells
<1> DEFINE s == w.sheets[i]
           t == [s EXCEPT !.formats = f]
           v == PutFormats(w, i, f)
<1>1. s \in Sheet /\ s = w.sheets[i]
  BY BookFields
<1>2. v = PutSheet(w, i, t)
  BY DEF Book, PutSheet, PutFormats
<1> HIDE DEF s
<1>3. t \in Sheet /\ t.name = s.name /\ t.formats = f /\ t.cells = s.cells
  BY <1>1 DEF Sheet
<1> HIDE DEF t, v
<1>4. /\ v \in Book /\ Ids(v) = Ids(w) /\ v.names = w.names /\ v.sheets[i] = t
      /\ \A j \in Ids(w) : j # i => v.sheets[j] = w.sheets[j]
  BY <1>1, <1>2, <1>3, SheetPut
<1> QED
  BY <1>1, <1>3, <1>4 DEF v

(* Two workbooks agree on a patch's place, or everywhere else. *)
On(q, x, y) ==
    /\ q.kind \in {"cell", "format"} => q.id \in Ids(x) /\ q.id \in Ids(y)
    /\ q.kind = "cell" => x.sheets[q.id].cells[q.row] = y.sheets[q.id].cells[q.row]
    /\ q.kind = "format" =>
          (q.row \in x.sheets[q.id].formats <=> q.row \in y.sheets[q.id].formats)
    /\ q.kind = "sheets" => x.sheets = y.sheets
    /\ q.kind = "names" => x.names = y.names

Off(q, x, y) ==
    /\ q.kind # "names" => x.names = y.names
    /\ q.kind = "names" => x.sheets = y.sheets
    /\ q.kind \in {"cell", "format"} =>
          /\ Ids(x) = Ids(y)
          /\ \A i \in Ids(x) :
                /\ x.sheets[i].name = y.sheets[i].name
                /\ \A r \in Row :
                      /\ ~(q.kind = "cell" /\ q.id = i /\ q.row = r) =>
                            x.sheets[i].cells[r] = y.sheets[i].cells[r]
                      /\ ~(q.kind = "format" /\ q.id = i /\ q.row = r) =>
                            (r \in x.sheets[i].formats <=> r \in y.sheets[i].formats)

(* Agreeing off a place is transitive.                                      *)
LEMMA OffTransitive ==
    ASSUME NEW q, NEW x, NEW y, NEW z, Off(q, x, y), Off(q, y, z)
    PROVE  Off(q, x, z)
BY DEF Off

(* Workbooks that agree on a place and off it are the same.                 *)
LEMMA OnAndOff ==
    ASSUME NEW q \in Patch, NEW x \in Book, NEW y \in Book, On(q, x, y), Off(q, x, y)
    PROVE  x = y
<1>1. q.kind \in {"cell", "format", "sheets", "names"}
  BY PatchFields
<1>2. CASE q.kind \in {"sheets", "names"}
  <2>1. x.sheets = y.sheets /\ x.names = y.names
    BY <1>2 DEF On, Off
  <2> QED
    BY <2>1, BookFields
<1>3. CASE q.kind = "cell"
  <2>1. x.names = y.names /\ Ids(x) = Ids(y)
    BY <1>3 DEF Off
  <2>2. ASSUME NEW i \in Ids(x)
        PROVE  /\ x.sheets[i].name = y.sheets[i].name
               /\ \A r \in Row : x.sheets[i].cells[r] = y.sheets[i].cells[r]
               /\ \A r \in Row : r \in x.sheets[i].formats <=> r \in y.sheets[i].formats
    BY <1>3, <2>2 DEF On, Off
  <2> QED
    BY <2>1, <2>2, BooksEqual
<1>4. CASE q.kind = "format"
  <2>1. x.names = y.names /\ Ids(x) = Ids(y)
    BY <1>4 DEF Off
  <2>2. ASSUME NEW i \in Ids(x)
        PROVE  /\ x.sheets[i].name = y.sheets[i].name
               /\ \A r \in Row : x.sheets[i].cells[r] = y.sheets[i].cells[r]
               /\ \A r \in Row : r \in x.sheets[i].formats <=> r \in y.sheets[i].formats
    BY <1>4, <2>2 DEF On, Off
  <2> QED
    BY <2>1, <2>2, BooksEqual
<1> QED
  BY <1>1, <1>2, <1>3, <1>4

(* A patch's place is there, and has what the patch restores. *)
Lands(p, w) == p.kind \in {"cell", "format"} => p.id \in Ids(w)

Has(p, w) ==
    /\ Lands(p, w)
    /\ p.kind = "cell" => w.sheets[p.id].cells[p.row] = p.was
    /\ p.kind = "format" => (p.row \in w.sheets[p.id].formats <=> p.was)
    /\ p.kind = "sheets" => w.sheets = p.was
    /\ p.kind = "names" => w.names = p.was

(* A cell's patch writes its cell, and takes down what was in it.           *)
LEMMA SwapCell ==
    ASSUME NEW w \in Book, NEW p \in CellPatches, p.id \in Ids(w)
    PROVE  LET v == Swap(w, p).wb IN
           /\ Swap(w, p).inverse = <<CellPatch(w, p.id, p.row)>>
           /\ CellPatch(w, p.id, p.row) \in CellPatches
           /\ v \in Book /\ Ids(v) = Ids(w) /\ v.names = w.names
           /\ \A j \in Ids(w) :
                 /\ v.sheets[j].name = w.sheets[j].name
                 /\ v.sheets[j].formats = w.sheets[j].formats
                 /\ \A q \in Row : v.sheets[j].cells[q] =
                        IF j = p.id /\ q = p.row THEN p.was ELSE w.sheets[j].cells[q]
<1>1. p.kind = "cell" /\ p.row \in Row /\ p.was \in Content /\ p.id \in 1..MaxSheets
  BY DEF CellPatches
<1>2. Swap(w, p) = Restored(PutCell(w, p.id, p.row, p.was), <<CellPatch(w, p.id, p.row)>>)
  BY <1>1 DEF Swap, PutCell
<1>3. /\ Swap(w, p).wb = PutCell(w, p.id, p.row, p.was)
      /\ Swap(w, p).inverse = <<CellPatch(w, p.id, p.row)>>
  BY <1>2 DEF Restored
<1>4. CellPatch(w, p.id, p.row) \in CellPatches
  <2>1. w.sheets[p.id].cells[p.row] \in Content
    BY <1>1, BookFields
  <2> QED
    BY <1>1, <2>1 DEF CellPatch, CellPatches
<1> QED
  BY <1>1, <1>3, <1>4, CellPut

(* A format's patch the same.                                               *)
LEMMA SwapFormat ==
    ASSUME NEW w \in Book, NEW p \in FormatPatches, p.id \in Ids(w)
    PROVE  LET v == Swap(w, p).wb IN
           /\ Swap(w, p).inverse = <<FormatPatch(w, p.id, p.row)>>
           /\ FormatPatch(w, p.id, p.row) \in FormatPatches
           /\ v \in Book /\ Ids(v) = Ids(w) /\ v.names = w.names
           /\ \A j \in Ids(w) :
                 /\ v.sheets[j].name = w.sheets[j].name
                 /\ v.sheets[j].cells = w.sheets[j].cells
                 /\ \A q \in Row : q \in v.sheets[j].formats <=>
                        IF j = p.id /\ q = p.row THEN p.was ELSE q \in w.sheets[j].formats
<1>1. p.kind = "format" /\ p.row \in Row /\ p.was \in BOOLEAN /\ p.id \in 1..MaxSheets
  BY DEF FormatPatches
<1> DEFINE old == w.sheets[p.id].formats
           f == IF p.was THEN old \union {p.row} ELSE old \ {p.row}
<1>2. Swap(w, p) = Restored(PutFormats(w, p.id, f), <<FormatPatch(w, p.id, p.row)>>)
  <2>1. Swap(w, p) = Restored([w EXCEPT !.sheets[p.id].formats =
                                 IF p.was THEN @ \union {p.row} ELSE @ \ {p.row}],
                              <<FormatPatch(w, p.id, p.row)>>)
    BY <1>1 DEF Swap
  <2> QED
    BY <2>1 DEF PutFormats
<1>3. /\ Swap(w, p).wb = PutFormats(w, p.id, f)
      /\ Swap(w, p).inverse = <<FormatPatch(w, p.id, p.row)>>
  BY <1>2 DEF Restored
<1>4. old \in SUBSET Row
  BY BookFields
<1>5. f \in SUBSET Row /\ \A q \in Row : q \in f <=> IF q = p.row THEN p.was ELSE q \in old
  BY <1>1, <1>4
<1>6. FormatPatch(w, p.id, p.row) \in FormatPatches
  BY <1>1 DEF FormatPatch, FormatPatches
<1>7. old = w.sheets[p.id].formats
  OBVIOUS
<1> HIDE DEF f, old
<1> DEFINE v == PutFormats(w, p.id, f)
<1>8. /\ v \in Book /\ Ids(v) = Ids(w) /\ v.names = w.names
      /\ v.sheets[p.id].formats = f
      /\ \A j \in Ids(w) :
            /\ v.sheets[j].name = w.sheets[j].name
            /\ j # p.id => v.sheets[j].formats = w.sheets[j].formats
            /\ v.sheets[j].cells = w.sheets[j].cells
  BY <1>5, FormatsPut
<1> HIDE DEF v
<1>9. \A j \in Ids(w), q \in Row : q \in v.sheets[j].formats <=>
            IF j = p.id /\ q = p.row THEN p.was ELSE q \in w.sheets[j].formats
  <2> TAKE j \in Ids(w), q \in Row
  <2>1. CASE j = p.id
    BY <2>1, <1>5, <1>7, <1>8
  <2>2. CASE j # p.id
    BY <2>2, <1>8
  <2> QED
    BY <2>1, <2>2
<1>10. Swap(w, p).wb = v
  BY <1>3 DEF v
<1> QED
  BY <1>3, <1>6, <1>8, <1>9, <1>10

(* A patch of all sheets, or of the name table, replaces them.              *)
LEMMA SwapSheets ==
    ASSUME NEW w \in Book, NEW p \in SheetsPatches
    PROVE  LET v == Swap(w, p).wb IN
           /\ Swap(w, p).inverse = <<SheetsPatch(w)>> /\ SheetsPatch(w) \in SheetsPatches
           /\ v \in Book /\ v.names = w.names /\ v.sheets = p.was
<1>1. p.kind = "sheets" /\ p.was \in Sheets
  BY DEF SheetsPatches
<1>2. Swap(w, p) = Restored([w EXCEPT !.sheets = p.was], <<SheetsPatch(w)>>)
  BY <1>1 DEF Swap
<1>3. [w EXCEPT !.sheets = p.was] = [sheets |-> p.was, names |-> w.names]
  BY DEF Book
<1>4. SheetsPatch(w) \in SheetsPatches
  BY DEF SheetsPatch, SheetsPatches, Book
<1>5. [sheets |-> p.was, names |-> w.names] \in Book
  BY <1>1 DEF Book
<1> QED
  BY <1>2, <1>3, <1>4, <1>5 DEF Restored

LEMMA SwapNames ==
    ASSUME NEW w \in Book, NEW p \in NamesPatches
    PROVE  LET v == Swap(w, p).wb IN
           /\ Swap(w, p).inverse = <<NamesPatch(w)>> /\ NamesPatch(w) \in NamesPatches
           /\ v \in Book /\ v.sheets = w.sheets /\ v.names = p.was
<1>1. p.kind = "names" /\ p.was \in [Name -> Content]
  BY DEF NamesPatches
<1>2. Swap(w, p) = Restored([w EXCEPT !.names = p.was], <<NamesPatch(w)>>)
  BY <1>1 DEF Swap
<1>3. [w EXCEPT !.names = p.was] = [sheets |-> w.sheets, names |-> p.was]
  BY DEF Book
<1>4. NamesPatch(w) \in NamesPatches
  BY DEF NamesPatch, NamesPatches, Book
<1>5. [sheets |-> w.sheets, names |-> p.was] \in Book
  BY <1>1 DEF Book
<1> QED
  BY <1>2, <1>3, <1>4, <1>5 DEF Restored

(* A patch of a sheet that is not there does nothing.                       *)
LEMMA SwapNothing ==
    ASSUME NEW w, NEW p, ~Lands(p, w)
    PROVE  Swap(w, p) = Restored(w, <<>>)
<1>1. p.kind \in {"cell", "format"} /\ p.id \notin Ids(w)
  BY DEF Lands
<1> QED
  BY <1>1 DEF Swap

(* What a patch that lands does: its place has what it restores, all the    *)
(* rest is as it was, and the patch taken down restores that place.         *)
LEMMA SwapLands ==
    ASSUME NEW w \in Book, NEW p \in Patch, Lands(p, w)
    PROVE  /\ Swap(w, p).wb \in Book
           /\ Has(p, Swap(w, p).wb) /\ Off(p, Swap(w, p).wb, w)
           /\ \E q \in Patch :
                 /\ Swap(w, p).inverse = <<q>> /\ Has(q, w)
                 /\ q.kind = p.kind
                 /\ p.kind \in {"cell", "format"} => q.id = p.id /\ q.row = p.row
<1> DEFINE v == Swap(w, p).wb
<1>0. p.kind \in {"cell", "format", "sheets", "names"}
  BY PatchFields
<1>1. CASE p.kind = "cell"
  <2>1. p \in CellPatches /\ p.id \in Ids(w) /\ p.row \in Row
    BY <1>1, PatchFields DEF Lands, CellPatches
  <2> DEFINE q == CellPatch(w, p.id, p.row)
  <2>2. /\ Swap(w, p).inverse = <<q>> /\ q \in CellPatches
        /\ v \in Book /\ Ids(v) = Ids(w) /\ v.names = w.names
        /\ \A j \in Ids(w) :
                 /\ v.sheets[j].name = w.sheets[j].name
                 /\ v.sheets[j].formats = w.sheets[j].formats
                 /\ \A r \in Row : v.sheets[j].cells[r] =
                        IF j = p.id /\ r = p.row THEN p.was ELSE w.sheets[j].cells[r]
    BY <2>1, SwapCell
  <2>3. /\ q.kind = "cell" /\ q.id = p.id /\ q.row = p.row
        /\ q.was = w.sheets[p.id].cells[p.row]
    BY DEF CellPatch
  <2> HIDE DEF q, v
  <2>4. Has(p, v)
    BY <1>1, <2>1, <2>2 DEF Has, Lands
  <2>5. Off(p, v, w)
    BY <1>1, <2>2 DEF Off
  <2>6. Has(q, w)
    BY <2>1, <2>3 DEF Has, Lands
  <2>7. q \in Patch
    BY <2>2 DEF Patch
  <2>8. q.kind = p.kind /\ q.id = p.id /\ q.row = p.row
    BY <1>1, <2>3
  <2>9. \E x \in Patch : /\ Swap(w, p).inverse = <<x>> /\ Has(x, w)
                         /\ x.kind = p.kind
                         /\ p.kind \in {"cell", "format"} => x.id = p.id /\ x.row = p.row
    BY <2>2, <2>6, <2>7, <2>8
  <2> QED
    BY <2>2, <2>4, <2>5, <2>9 DEF v
<1>2. CASE p.kind = "format"
  <2>1. p \in FormatPatches /\ p.id \in Ids(w) /\ p.row \in Row /\ p.was \in BOOLEAN
    BY <1>2, PatchFields DEF Lands, FormatPatches
  <2> DEFINE q == FormatPatch(w, p.id, p.row)
  <2>2. /\ Swap(w, p).inverse = <<q>> /\ q \in FormatPatches
        /\ v \in Book /\ Ids(v) = Ids(w) /\ v.names = w.names
        /\ \A j \in Ids(w) :
                 /\ v.sheets[j].name = w.sheets[j].name
                 /\ v.sheets[j].cells = w.sheets[j].cells
                 /\ \A r \in Row : r \in v.sheets[j].formats <=>
                        IF j = p.id /\ r = p.row THEN p.was ELSE r \in w.sheets[j].formats
    BY <2>1, SwapFormat
  <2>3. /\ q.kind = "format" /\ q.id = p.id /\ q.row = p.row
        /\ q.was = (p.row \in w.sheets[p.id].formats)
    BY DEF FormatPatch
  <2> HIDE DEF q, v
  <2>4. Has(p, v)
    <3>1. p.row \in v.sheets[p.id].formats <=> p.was
      BY <2>1, <2>2
    <3> QED
      BY <1>2, <2>1, <2>2, <3>1 DEF Has, Lands
  <2>5. Off(p, v, w)
    BY <1>2, <2>2 DEF Off
  <2>6. Has(q, w)
    BY <2>1, <2>3 DEF Has, Lands
  <2>7. q \in Patch
    BY <2>2 DEF Patch
  <2>8. q.kind = p.kind /\ q.id = p.id /\ q.row = p.row
    BY <1>2, <2>3
  <2>9. \E x \in Patch : /\ Swap(w, p).inverse = <<x>> /\ Has(x, w)
                         /\ x.kind = p.kind
                         /\ p.kind \in {"cell", "format"} => x.id = p.id /\ x.row = p.row
    BY <2>2, <2>6, <2>7, <2>8
  <2> QED
    BY <2>2, <2>4, <2>5, <2>9 DEF v
<1>3. CASE p.kind = "sheets"
  <2>1. p \in SheetsPatches
    BY <1>3, PatchFields
  <2> DEFINE q == SheetsPatch(w)
  <2>2. /\ Swap(w, p).inverse = <<q>> /\ q \in SheetsPatches
        /\ v \in Book /\ v.names = w.names /\ v.sheets = p.was
    BY <2>1, SwapSheets
  <2>3. q.kind = "sheets" /\ q.was = w.sheets
    BY DEF SheetsPatch
  <2> HIDE DEF q, v
  <2>4. Has(p, v) /\ Off(p, v, w) /\ Has(q, w)
    BY <1>3, <2>2, <2>3 DEF Has, Lands, Off
  <2>5. q \in Patch /\ q.kind = p.kind /\ p.kind \notin {"cell", "format"}
    BY <1>3, <2>2, <2>3 DEF Patch
  <2> QED
    BY <2>2, <2>4, <2>5 DEF v
<1>4. CASE p.kind = "names"
  <2>1. p \in NamesPatches
    BY <1>4, PatchFields
  <2> DEFINE q == NamesPatch(w)
  <2>2. /\ Swap(w, p).inverse = <<q>> /\ q \in NamesPatches
        /\ v \in Book /\ v.sheets = w.sheets /\ v.names = p.was
    BY <2>1, SwapNames
  <2>3. q.kind = "names" /\ q.was = w.names
    BY DEF NamesPatch
  <2> HIDE DEF q, v
  <2>4. Has(p, v) /\ Off(p, v, w) /\ Has(q, w)
    BY <1>4, <2>2, <2>3 DEF Has, Lands, Off
  <2>5. q \in Patch /\ q.kind = p.kind /\ p.kind \notin {"cell", "format"}
    BY <1>4, <2>2, <2>3 DEF Patch
  <2> QED
    BY <2>2, <2>4, <2>5 DEF v
<1> QED
  BY <1>0, <1>1, <1>2, <1>3, <1>4

(* A patch of another place keeps what two workbooks agree on off a place,  *)
LEMMA SwapOff ==
    ASSUME NEW x \in Book, NEW y \in Book, NEW p \in Patch, NEW q \in Patch,
           Off(q, x, y), ~SamePlace(p, q)
    PROVE  Off(q, Swap(x, p).wb, Swap(y, p).wb)
<1> DEFINE v == Swap(x, p).wb
           u == Swap(y, p).wb
<1>0. /\ p.kind \in {"cell", "format", "sheets", "names"}
      /\ q.kind \in {"cell", "format", "sheets", "names"}
  BY PatchFields
<1>1. CASE q.kind = "names"
  <2>1. p.kind # "names" /\ x.sheets = y.sheets /\ Ids(x) = Ids(y)
    BY <1>1 DEF SamePlace, Off, Ids
  <2>2. CASE ~Lands(p, x)
    <3>1. v = x /\ u = y
      BY <2>1, <2>2, SwapNothing DEF Lands, Restored
    <3> QED
      BY <1>1, <2>1, <3>1 DEF Off
  <2>3. CASE p.kind = "cell" /\ Lands(p, x)
    <3>1. p \in CellPatches /\ p.id \in Ids(x) /\ p.id \in Ids(y)
      BY <2>1, <2>3, PatchFields DEF Lands
    <3>2. /\ v \in Book /\ Ids(v) = Ids(x)
          /\ \A j \in Ids(x) :
                 /\ v.sheets[j].name = x.sheets[j].name
                 /\ v.sheets[j].formats = x.sheets[j].formats
                 /\ \A r \in Row : v.sheets[j].cells[r] =
                        IF j = p.id /\ r = p.row THEN p.was ELSE x.sheets[j].cells[r]
      BY <3>1, SwapCell
    <3>3. /\ u \in Book /\ Ids(u) = Ids(y)
          /\ \A j \in Ids(y) :
                 /\ u.sheets[j].name = y.sheets[j].name
                 /\ u.sheets[j].formats = y.sheets[j].formats
                 /\ \A r \in Row : u.sheets[j].cells[r] =
                        IF j = p.id /\ r = p.row THEN p.was ELSE y.sheets[j].cells[r]
      BY <3>1, SwapCell
    <3> HIDE DEF v, u
    <3>4. v.sheets = u.sheets
      BY <2>1, <3>2, <3>3, SheetsEqual
    <3> QED
      BY <1>1, <3>4 DEF Off, v, u
  <2>4. CASE p.kind = "format" /\ Lands(p, x)
    <3>1. p \in FormatPatches /\ p.id \in Ids(x) /\ p.id \in Ids(y)
      BY <2>1, <2>4, PatchFields DEF Lands
    <3>2. /\ v \in Book /\ Ids(v) = Ids(x)
          /\ \A j \in Ids(x) :
                 /\ v.sheets[j].name = x.sheets[j].name
                 /\ v.sheets[j].cells = x.sheets[j].cells
                 /\ \A r \in Row : r \in v.sheets[j].formats <=>
                        IF j = p.id /\ r = p.row THEN p.was ELSE r \in x.sheets[j].formats
      BY <3>1, SwapFormat
    <3>3. /\ u \in Book /\ Ids(u) = Ids(y)
          /\ \A j \in Ids(y) :
                 /\ u.sheets[j].name = y.sheets[j].name
                 /\ u.sheets[j].cells = y.sheets[j].cells
                 /\ \A r \in Row : r \in u.sheets[j].formats <=>
                        IF j = p.id /\ r = p.row THEN p.was ELSE r \in y.sheets[j].formats
      BY <3>1, SwapFormat
    <3> HIDE DEF v, u
    <3>4. v.sheets = u.sheets
      BY <2>1, <3>2, <3>3, SheetsEqual
    <3> QED
      BY <1>1, <3>4 DEF Off, v, u
  <2>5. CASE p.kind = "sheets"
    <3>1. v.sheets = p.was /\ u.sheets = p.was
      BY <2>5, PatchFields, SwapSheets
    <3> QED
      BY <1>1, <3>1 DEF Off
  <2> QED
    BY <1>0, <2>1, <2>2, <2>3, <2>4, <2>5
<1>2. CASE q.kind = "sheets"
  <2>1. p.kind = "names"
    BY <1>0, <1>2 DEF SamePlace
  <2>2. v.names = p.was /\ u.names = p.was
    BY <2>1, PatchFields, SwapNames
  <2> QED
    BY <1>2, <2>2 DEF Off
<1>3. CASE q.kind \in {"cell", "format"}
  <2>0. p.kind # "sheets" /\ Ids(x) = Ids(y) /\ x.names = y.names
    BY <1>3 DEF SamePlace, Off
  <2>1. CASE p.kind = "names"
    <3>1. /\ v.names = p.was /\ v.sheets = x.sheets
          /\ u.names = p.was /\ u.sheets = y.sheets
      BY <2>1, PatchFields, SwapNames
    <3> HIDE DEF v, u
    <3>2. Off(q, v, u)
      BY <1>3, <3>1 DEF Off, Ids
    <3> QED
      BY <3>2 DEF v, u
  <2>2. CASE ~Lands(p, x)
    <3>1. v = x /\ u = y
      BY <2>0, <2>2, SwapNothing DEF Lands, Restored
    <3> QED
      BY <3>1
  <2>3. CASE p.kind = "cell" /\ Lands(p, x)
    <3>1. p \in CellPatches /\ p.id \in Ids(x) /\ p.id \in Ids(y)
      BY <2>0, <2>3, PatchFields DEF Lands
    <3>2. /\ Ids(v) = Ids(x) /\ v.names = x.names
          /\ \A j \in Ids(x) :
                 /\ v.sheets[j].name = x.sheets[j].name
                 /\ v.sheets[j].formats = x.sheets[j].formats
                 /\ \A r \in Row : v.sheets[j].cells[r] =
                        IF j = p.id /\ r = p.row THEN p.was ELSE x.sheets[j].cells[r]
      BY <3>1, SwapCell
    <3>3. /\ Ids(u) = Ids(y) /\ u.names = y.names
          /\ \A j \in Ids(y) :
                 /\ u.sheets[j].name = y.sheets[j].name
                 /\ u.sheets[j].formats = y.sheets[j].formats
                 /\ \A r \in Row : u.sheets[j].cells[r] =
                        IF j = p.id /\ r = p.row THEN p.was ELSE y.sheets[j].cells[r]
      BY <3>1, SwapCell
    <3> HIDE DEF v, u
    <3>4. ASSUME NEW i \in Ids(x), NEW r \in Row
          PROVE  /\ x.sheets[i].name = y.sheets[i].name
                 /\ ~(q.kind = "cell" /\ q.id = i /\ q.row = r) =>
                        x.sheets[i].cells[r] = y.sheets[i].cells[r]
                 /\ ~(q.kind = "format" /\ q.id = i /\ q.row = r) =>
                        (r \in x.sheets[i].formats <=> r \in y.sheets[i].formats)
      BY <1>3 DEF Off
    <3>5. ASSUME NEW i \in Ids(v), NEW r \in Row
          PROVE  /\ v.sheets[i].name = u.sheets[i].name
                 /\ ~(q.kind = "cell" /\ q.id = i /\ q.row = r) =>
                        v.sheets[i].cells[r] = u.sheets[i].cells[r]
                 /\ ~(q.kind = "format" /\ q.id = i /\ q.row = r) =>
                        (r \in v.sheets[i].formats <=> r \in u.sheets[i].formats)
      <4>1. i \in Ids(x) /\ i \in Ids(y)
        BY <2>0, <3>2, <3>5
      <4>2. v.sheets[i].name = u.sheets[i].name
        BY <3>2, <3>3, <3>4, <4>1
      <4>3. ~(q.kind = "cell" /\ q.id = i /\ q.row = r) =>
                v.sheets[i].cells[r] = u.sheets[i].cells[r]
        <5>1. v.sheets[i].cells[r] =
                IF i = p.id /\ r = p.row THEN p.was ELSE x.sheets[i].cells[r]
          BY <3>2, <4>1
        <5>2. u.sheets[i].cells[r] =
                IF i = p.id /\ r = p.row THEN p.was ELSE y.sheets[i].cells[r]
          BY <3>3, <4>1
        <5> QED
          BY <3>4, <4>1, <5>1, <5>2
      <4>4. ~(q.kind = "format" /\ q.id = i /\ q.row = r) =>
                (r \in v.sheets[i].formats <=> r \in u.sheets[i].formats)
        BY <3>2, <3>3, <3>4, <4>1
      <4> QED
        BY <4>2, <4>3, <4>4
    <3>6. \A i \in Ids(v) : v.sheets[i].name = u.sheets[i].name
      BY <1>3, <2>0, <3>2, <3>3 DEF Off
    <3>7. Off(q, v, u)
      BY <1>3, <2>0, <3>2, <3>3, <3>5, <3>6 DEF Off
    <3> QED
      BY <3>7 DEF v, u
  <2>4. CASE p.kind = "format" /\ Lands(p, x)
    <3>1. p \in FormatPatches /\ p.id \in Ids(x) /\ p.id \in Ids(y)
      BY <2>0, <2>4, PatchFields DEF Lands
    <3>2. /\ Ids(v) = Ids(x) /\ v.names = x.names
          /\ \A j \in Ids(x) :
                 /\ v.sheets[j].name = x.sheets[j].name
                 /\ v.sheets[j].cells = x.sheets[j].cells
                 /\ \A r \in Row : r \in v.sheets[j].formats <=>
                        IF j = p.id /\ r = p.row THEN p.was ELSE r \in x.sheets[j].formats
      BY <3>1, SwapFormat
    <3>3. /\ Ids(u) = Ids(y) /\ u.names = y.names
          /\ \A j \in Ids(y) :
                 /\ u.sheets[j].name = y.sheets[j].name
                 /\ u.sheets[j].cells = y.sheets[j].cells
                 /\ \A r \in Row : r \in u.sheets[j].formats <=>
                        IF j = p.id /\ r = p.row THEN p.was ELSE r \in y.sheets[j].formats
      BY <3>1, SwapFormat
    <3> HIDE DEF v, u
    <3>4. ASSUME NEW i \in Ids(x), NEW r \in Row
          PROVE  /\ x.sheets[i].name = y.sheets[i].name
                 /\ ~(q.kind = "cell" /\ q.id = i /\ q.row = r) =>
                        x.sheets[i].cells[r] = y.sheets[i].cells[r]
                 /\ ~(q.kind = "format" /\ q.id = i /\ q.row = r) =>
                        (r \in x.sheets[i].formats <=> r \in y.sheets[i].formats)
      BY <1>3 DEF Off
    <3>5. ASSUME NEW i \in Ids(v), NEW r \in Row
          PROVE  /\ v.sheets[i].name = u.sheets[i].name
                 /\ ~(q.kind = "cell" /\ q.id = i /\ q.row = r) =>
                        v.sheets[i].cells[r] = u.sheets[i].cells[r]
                 /\ ~(q.kind = "format" /\ q.id = i /\ q.row = r) =>
                        (r \in v.sheets[i].formats <=> r \in u.sheets[i].formats)
      <4>1. i \in Ids(x) /\ i \in Ids(y)
        BY <2>0, <3>2, <3>5
      <4>2. v.sheets[i].name = u.sheets[i].name
        BY <3>2, <3>3, <3>4, <4>1
      <4>3. ~(q.kind = "cell" /\ q.id = i /\ q.row = r) =>
                v.sheets[i].cells[r] = u.sheets[i].cells[r]
        <5>1. v.sheets[i].cells = x.sheets[i].cells
          BY <3>2, <4>1
        <5>2. u.sheets[i].cells = y.sheets[i].cells
          BY <3>3, <4>1
        <5> QED
          BY <3>4, <4>1, <5>1, <5>2
      <4>4. ~(q.kind = "format" /\ q.id = i /\ q.row = r) =>
                (r \in v.sheets[i].formats <=> r \in u.sheets[i].formats)
        <5>1. CASE i = p.id /\ r = p.row
          <6>1. r \in v.sheets[i].formats <=> p.was
            BY <3>2, <4>1, <5>1
          <6>2. r \in u.sheets[i].formats <=> p.was
            BY <3>3, <4>1, <5>1
          <6> QED
            BY <6>1, <6>2
        <5>2. CASE ~(i = p.id /\ r = p.row)
          <6>1. r \in v.sheets[i].formats <=> r \in x.sheets[i].formats
            BY <3>2, <4>1, <5>2
          <6>2. r \in u.sheets[i].formats <=> r \in y.sheets[i].formats
            BY <3>3, <4>1, <5>2
          <6> QED
            BY <3>4, <4>1, <6>1, <6>2
        <5> QED
          BY <5>1, <5>2
      <4> QED
        BY <4>2, <4>3, <4>4
    <3>6. \A i \in Ids(v) : v.sheets[i].name = u.sheets[i].name
      BY <1>3, <2>0, <3>2, <3>3 DEF Off
    <3>7. Off(q, v, u)
      BY <1>3, <2>0, <3>2, <3>3, <3>5, <3>6 DEF Off
    <3> QED
      BY <3>7 DEF v, u
  <2> QED
    BY <1>0, <2>0, <2>1, <2>2, <2>3, <2>4
<1> QED
  BY <1>0, <1>1, <1>2, <1>3

(* and leaves the place itself alone.                                       *)
LEMMA SwapOn ==
    ASSUME NEW x \in Book, NEW p \in Patch, NEW q \in Patch, Lands(q, x), ~SamePlace(p, q)
    PROVE  On(q, x, Swap(x, p).wb) /\ Lands(q, Swap(x, p).wb)
<1> DEFINE v == Swap(x, p).wb
<1>0. /\ p.kind \in {"cell", "format", "sheets", "names"}
      /\ q.kind \in {"cell", "format", "sheets", "names"}
      /\ q.kind \in {"cell", "format"} => q.row \in Row
  BY PatchFields DEF CellPatches, FormatPatches
<1>1. CASE ~Lands(p, x)
  <2>1. v = x
    BY <1>1, SwapNothing DEF Restored
  <2> QED
    BY <2>1 DEF On, Lands
<1>2. CASE Lands(p, x)
  <2>1. Off(p, v, x)
    BY <1>2, SwapLands
  <2> SUFFICES On(q, x, v) /\ Lands(q, v)
    OBVIOUS
  <2> HIDE DEF v
  <2>2. CASE q.kind \in {"cell", "format"}
    <3>0. q.id \in Ids(x)
      BY <2>2 DEF Lands
    <3>1. CASE p.kind \in {"cell", "format"}
      BY <1>0, <2>1, <2>2, <3>0, <3>1 DEF On, Off, Lands, SamePlace
    <3>2. CASE p.kind = "names"
      BY <2>1, <2>2, <3>0, <3>2 DEF On, Off, Lands, Ids
    <3>3. CASE p.kind = "sheets"
      BY <2>2, <3>3 DEF SamePlace
    <3> QED
      BY <1>0, <3>1, <3>2, <3>3
  <2>3. CASE q.kind = "sheets"
    BY <1>0, <2>1, <2>3 DEF On, Off, Lands, SamePlace
  <2>4. CASE q.kind = "names"
    BY <1>0, <2>1, <2>4 DEF On, Off, Lands, SamePlace
  <2> QED
    BY <1>0, <2>2, <2>3, <2>4
<1> QED
  BY <1>1, <1>2

(* A patch leaves a workbook, and takes down patches.                       *)
LEMMA SwapTyped ==
    ASSUME NEW w \in Book, NEW p \in Patch
    PROVE  Swap(w, p).wb \in Book /\ Swap(w, p).inverse \in Seq(Patch)
<1>1. CASE Lands(p, w)
  <2>1. PICK q \in Patch : Swap(w, p).inverse = <<q>>
    BY <1>1, SwapLands
  <2> QED
    BY <1>1, <2>1, SwapLands
<1>2. CASE ~Lands(p, w)
  <2>1. Swap(w, p).wb = w /\ Swap(w, p).inverse = <<>>
    BY <1>2, SwapNothing DEF Restored
  <2> QED
    BY <2>1, EmptySeq
<1> QED
  BY <1>1, <1>2

----------------------------------------------------------------------------
(* Entries.                                                                 *)

(* The first patch of an entry, restored last.                              *)
LEMMA RestoredFields == \A w, e : Restored(w, e).wb = w /\ Restored(w, e).inverse = e
BY DEF Restored

LEMMA RestoreCons ==
    ASSUME NEW w \in Book, NEW p \in Patch, NEW e \in Seq(Patch)
    PROVE  /\ Restore(w, <<p>> \o e).wb = Swap(Restore(w, e).wb, p).wb
           /\ Restore(w, <<p>> \o e).inverse =
                Swap(Restore(w, e).wb, p).inverse \o Restore(w, e).inverse
<1> DEFINE a == Restore(w, e)
           s == Swap(a.wb, p)
           all == Restore(w, <<p>> \o e)
<1>1. all = RestoreOne(a, p)
  BY RestoreFirst
<1>2. RestoreOne(a, p) = Restored(s.wb, s.inverse \o a.inverse)
  BY DEF RestoreOne
<1> HIDE DEF all
<1>3. all = Restored(s.wb, s.inverse \o a.inverse)
  BY <1>1, <1>2
<1>4. all.wb = s.wb
  BY <1>3, RestoredFields
<1>5. all.inverse = s.inverse \o a.inverse
  BY <1>3, RestoredFields
<1> QED
  BY <1>4, <1>5 DEF all

(* An entry leaves a workbook, and takes down an entry.                     *)
LEMMA RestoreTyped ==
    ASSUME NEW w \in Book
    PROVE  \A e \in Seq(Patch) :
              Restore(w, e).wb \in Book /\ Restore(w, e).inverse \in Seq(Patch)
<1> DEFINE G == {e \in Seq(Patch) :
                    Restore(w, e).wb \in Book /\ Restore(w, e).inverse \in Seq(Patch)}
<1>1. <<>> \in G
  <2>1. Restore(w, <<>>).wb = w /\ Restore(w, <<>>).inverse = <<>>
    BY RestoreNothing, RestoredFields
  <2> DEFINE e == <<>>
  <2>2. e \in Seq(Patch)
    BY EmptySeq
  <2> HIDE DEF e
  <2>3. Restore(w, e).wb \in Book /\ Restore(w, e).inverse \in Seq(Patch)
    BY <2>1, <2>2 DEF e
  <2>4. e \in G
    BY <2>2, <2>3
  <2> QED
    BY <2>4 DEF e
<1>2. \A e \in Seq(Patch), p \in Patch : e \in G => <<p>> \o e \in G
  <2> SUFFICES ASSUME NEW e \in Seq(Patch), NEW p \in Patch, e \in G
               PROVE  <<p>> \o e \in G
    OBVIOUS
  <2> DEFINE a == Restore(w, e)
             s == Swap(a.wb, p)
  <2>1. a.wb \in Book /\ a.inverse \in Seq(Patch)
    OBVIOUS
  <2> HIDE DEF a
  <2>2. s.wb \in Book /\ s.inverse \in Seq(Patch)
    BY <2>1, SwapTyped
  <2> HIDE DEF s
  <2>3. s.inverse \o a.inverse \in Seq(Patch)
    BY <2>1, <2>2, ConcatProperties
  <2> DEFINE f == <<p>> \o e
  <2>6. Restore(w, f).wb = s.wb /\ Restore(w, f).inverse = s.inverse \o a.inverse
    BY RestoreCons DEF s, a
  <2>7. f \in Seq(Patch)
    BY ConsProperties
  <2> HIDE DEF f
  <2>8. f \in G
    BY <2>2, <2>3, <2>6, <2>7
  <2> QED
    BY <2>8 DEF f
<1> HIDE DEF G
<1>3. \A e \in Seq(Patch) : e \in G
  BY <1>1, <1>2, SequencesInduct
<1> QED
  BY <1>3 DEF G

(* One entry after another restores the later one first.                    *)
LEMMA RestoreConcat ==
    ASSUME NEW w \in Book, NEW b \in Seq(Patch)
    PROVE  \A a \in Seq(Patch) : Restore(w, a \o b).wb = Restore(Restore(w, b).wb, a).wb
<1> DEFINE v == Restore(w, b).wb
           G == {a \in Seq(Patch) : Restore(w, a \o b).wb = Restore(v, a).wb}
<1>0. v \in Book
  BY RestoreTyped
<1>1. <<>> \in G
  <2>1. <<>> \o b = b /\ <<>> \in Seq(Patch)
    BY ConcatEmptySeq, EmptySeq
  <2>2. Restore(v, <<>>).wb = v
    BY RestoreNothing, RestoredFields
  <2> DEFINE a == <<>>
  <2>3. a \in Seq(Patch) /\ a \o b = b /\ Restore(v, a).wb = v
    BY <2>1, <2>2
  <2> HIDE DEF a
  <2>4. a \in G
    BY <2>3
  <2> QED
    BY <2>4 DEF a
<1>2. \A a \in Seq(Patch), p \in Patch : a \in G => <<p>> \o a \in G
  <2> SUFFICES ASSUME NEW a \in Seq(Patch), NEW p \in Patch, a \in G
               PROVE  <<p>> \o a \in G
    OBVIOUS
  <2> DEFINE one == <<p>>
             f == one \o a
  <2>1. one \in Seq(Patch) /\ f \in Seq(Patch)
    BY ConsProperties
  <2>2. f \o b = one \o (a \o b) /\ a \o b \in Seq(Patch)
    <3> HIDE DEF one
    <3> QED
      BY <2>1, ConcatAssociative, ConcatProperties
  <2>3. Restore(w, one \o (a \o b)).wb = Swap(Restore(w, a \o b).wb, p).wb
    BY <2>2, RestoreCons
  <2>4. Restore(v, f).wb = Swap(Restore(v, a).wb, p).wb
    <3> HIDE DEF v
    <3> QED
      BY <1>0, RestoreCons
  <2>5. Restore(w, a \o b).wb = Restore(v, a).wb
    OBVIOUS
  <2> HIDE DEF f, one, v
  <2>6. Restore(w, f \o b).wb = Restore(v, f).wb
    BY <2>2, <2>3, <2>4, <2>5
  <2>7. f \in G
    BY <2>1, <2>6
  <2> QED
    BY <2>7 DEF f, one
<1> HIDE DEF G
<1>3. \A a \in Seq(Patch) : a \in G
  BY <1>1, <1>2, SequencesInduct
<1> QED
  BY <1>3 DEF G

(* What an entry leaves of the sheets depends on the sheets alone.          *)
LEMMA SwapOfSheets ==
    ASSUME NEW x \in Book, NEW y \in Book, x.sheets = y.sheets, NEW p \in Patch
    PROVE  Swap(x, p).wb.sheets = Swap(y, p).wb.sheets
<1>1. CASE p.kind = "names"
  <2>1. p \in NamesPatches
    BY <1>1, PatchFields
  <2> QED
    BY <2>1, SwapNames
<1>2. CASE p.kind # "names"
  <2> DEFINE q == NamesPatch(x)
  <2>1. q \in Patch
    <3>1. q \in NamesPatches
      BY DEF NamesPatch, NamesPatches, Book
    <3> QED
      BY <3>1 DEF Patch
  <2>2. q.kind = "names"
    BY DEF NamesPatch
  <2> HIDE DEF q
  <2>3. Off(q, x, y) /\ ~SamePlace(p, q)
    BY <1>2, <2>2 DEF Off, SamePlace
  <2>4. Off(q, Swap(x, p).wb, Swap(y, p).wb)
    BY <2>1, <2>3, SwapOff
  <2> QED
    BY <2>2, <2>4 DEF Off
<1> QED
  BY <1>1, <1>2

LEMMA RestoreOfSheets ==
    ASSUME NEW x \in Book, NEW y \in Book, x.sheets = y.sheets
    PROVE  \A e \in Seq(Patch) : Restore(x, e).wb.sheets = Restore(y, e).wb.sheets
<1> DEFINE G == {e \in Seq(Patch) : Restore(x, e).wb.sheets = Restore(y, e).wb.sheets}
<1>1. <<>> \in G
  <2>1. Restore(x, <<>>).wb = x /\ Restore(y, <<>>).wb = y /\ <<>> \in Seq(Patch)
    BY RestoreNothing, EmptySeq, RestoredFields
  <2> DEFINE e == <<>>
  <2>2. Restore(x, e).wb = x /\ Restore(y, e).wb = y /\ e \in Seq(Patch)
    BY <2>1
  <2> HIDE DEF e
  <2>3. e \in G
    BY <2>2
  <2> QED
    BY <2>3 DEF e
<1>2. \A e \in Seq(Patch), p \in Patch : e \in G => <<p>> \o e \in G
  <2> SUFFICES ASSUME NEW e \in Seq(Patch), NEW p \in Patch, e \in G
               PROVE  <<p>> \o e \in G
    OBVIOUS
  <2> DEFINE f == <<p>> \o e
             u == Restore(x, e).wb
             v == Restore(y, e).wb
  <2>1. f \in Seq(Patch)
    BY ConsProperties
  <2>2. Restore(x, f).wb = Swap(u, p).wb /\ Restore(y, f).wb = Swap(v, p).wb
    BY RestoreCons
  <2>3. u \in Book /\ v \in Book /\ u.sheets = v.sheets
    BY RestoreTyped
  <2> HIDE DEF f, u, v
  <2>4. Swap(u, p).wb.sheets = Swap(v, p).wb.sheets
    BY <2>3, SwapOfSheets
  <2>5. f \in G
    BY <2>1, <2>2, <2>4
  <2> QED
    BY <2>5 DEF f
<1> HIDE DEF G
<1>3. \A e \in Seq(Patch) : e \in G
  BY <1>1, <1>2, SequencesInduct
<1> QED
  BY <1>3 DEF G

(* No patch of an entry is of the place q is of. *)
Avoids(e, q) == \A k \in 1..Len(e) : ~SamePlace(e[k], q)

LEMMA AvoidsCons ==
    ASSUME NEW p \in Patch, NEW q \in Patch, NEW e \in Seq(Patch)
    PROVE  Avoids(<<p>> \o e, q) <=> ~SamePlace(p, q) /\ Avoids(e, q)
<1> DEFINE f == <<p>> \o e
<1>1. /\ Len(f) = Len(e) + 1 /\ Len(e) \in Nat /\ f[1] = p
      /\ \A k \in 1..Len(e) : f[k + 1] = e[k]
  BY ConsProperties
<1> HIDE DEF f
<1>2. ASSUME Avoids(f, q) PROVE ~SamePlace(p, q) /\ Avoids(e, q)
  <2>1. 1 \in 1..Len(f) /\ \A k \in 1..Len(e) : k + 1 \in 1..Len(f)
    BY <1>1
  <2>2. ~SamePlace(f[1], q) /\ \A k \in 1..Len(e) : ~SamePlace(f[k + 1], q)
    BY <1>2, <2>1 DEF Avoids
  <2> QED
    BY <1>1, <2>2 DEF Avoids
<1>3. ASSUME ~SamePlace(p, q), Avoids(e, q) PROVE Avoids(f, q)
  <2> SUFFICES ASSUME NEW k \in 1..Len(f) PROVE ~SamePlace(f[k], q)
    BY DEF Avoids
  <2>1. CASE k = 1
    BY <1>1, <1>3, <2>1
  <2>2. CASE k # 1
    <3>1. k - 1 \in 1..Len(e) /\ (k - 1) + 1 = k
      BY <1>1, <2>2
    <3>2. f[k] = e[k - 1]
      BY <1>1, <3>1
    <3> QED
      BY <1>3, <3>1, <3>2 DEF Avoids
  <2> QED
    BY <2>1, <2>2
<1> QED
  BY <1>2, <1>3 DEF f

(* An entry that avoids a place keeps what two workbooks agree on off it,   *)
LEMMA RestoreOff ==
    ASSUME NEW x \in Book, NEW y \in Book, NEW q \in Patch, Off(q, x, y)
    PROVE  \A e \in Seq(Patch) : Avoids(e, q) => Off(q, Restore(x, e).wb, Restore(y, e).wb)
<1> DEFINE G == {e \in Seq(Patch) : Avoids(e, q) => Off(q, Restore(x, e).wb, Restore(y, e).wb)}
<1>1. <<>> \in G
  <2> DEFINE e == <<>>
  <2>1. Restore(x, e).wb = x /\ Restore(y, e).wb = y /\ e \in Seq(Patch)
    BY RestoreNothing, EmptySeq, RestoredFields
  <2> HIDE DEF e
  <2>2. e \in G
    BY <2>1
  <2> QED
    BY <2>2 DEF e
<1>2. \A e \in Seq(Patch), p \in Patch : e \in G => <<p>> \o e \in G
  <2> SUFFICES ASSUME NEW e \in Seq(Patch), NEW p \in Patch, e \in G
               PROVE  <<p>> \o e \in G
    OBVIOUS
  <2> DEFINE f == <<p>> \o e
             u == Restore(x, e).wb
             v == Restore(y, e).wb
  <2>1. f \in Seq(Patch) /\ (Avoids(f, q) <=> ~SamePlace(p, q) /\ Avoids(e, q))
    BY ConsProperties, AvoidsCons
  <2>2. Restore(x, f).wb = Swap(u, p).wb /\ Restore(y, f).wb = Swap(v, p).wb
    BY RestoreCons
  <2>3. u \in Book /\ v \in Book /\ (Avoids(e, q) => Off(q, u, v))
    BY RestoreTyped
  <2> HIDE DEF f, u, v
  <2>4. Avoids(f, q) => Off(q, Swap(u, p).wb, Swap(v, p).wb)
    BY <2>1, <2>3, SwapOff
  <2>5. f \in G
    BY <2>1, <2>2, <2>4
  <2> QED
    BY <2>5 DEF f
<1> HIDE DEF G
<1>3. \A e \in Seq(Patch) : e \in G
  BY <1>1, <1>2, SequencesInduct
<1> QED
  BY <1>3 DEF G

(* and leaves the place itself alone.                                       *)
LEMMA RestoreOn ==
    ASSUME NEW x \in Book, NEW q \in Patch, Lands(q, x)
    PROVE  \A e \in Seq(Patch) : Avoids(e, q) =>
                On(q, x, Restore(x, e).wb) /\ Lands(q, Restore(x, e).wb)
<1> DEFINE G == {e \in Seq(Patch) : Avoids(e, q) =>
                    On(q, x, Restore(x, e).wb) /\ Lands(q, Restore(x, e).wb)}
<1>1. <<>> \in G
  <2> DEFINE e == <<>>
  <2>1. Restore(x, e).wb = x /\ e \in Seq(Patch)
    BY RestoreNothing, EmptySeq, RestoredFields
  <2> HIDE DEF e
  <2>2. On(q, x, x)
    BY DEF On, Lands
  <2>3. e \in G
    BY <2>1, <2>2
  <2> QED
    BY <2>3 DEF e
<1>2. \A e \in Seq(Patch), p \in Patch : e \in G => <<p>> \o e \in G
  <2> SUFFICES ASSUME NEW e \in Seq(Patch), NEW p \in Patch, e \in G
               PROVE  <<p>> \o e \in G
    OBVIOUS
  <2> DEFINE f == <<p>> \o e
             u == Restore(x, e).wb
             v == Swap(u, p).wb
  <2>1. f \in Seq(Patch) /\ (Avoids(f, q) <=> ~SamePlace(p, q) /\ Avoids(e, q))
    BY ConsProperties, AvoidsCons
  <2>2. Restore(x, f).wb = v
    BY RestoreCons
  <2>3. u \in Book /\ (Avoids(e, q) => On(q, x, u) /\ Lands(q, u))
    BY RestoreTyped
  <2> HIDE DEF f, u
  <2>4. Avoids(f, q) => On(q, u, v) /\ Lands(q, v)
    BY <2>1, <2>3, SwapOn
  <2> HIDE DEF v
  <2>5. Avoids(f, q) => On(q, x, v) /\ Lands(q, v)
    BY <2>1, <2>3, <2>4 DEF On
  <2>6. f \in G
    BY <2>1, <2>2, <2>5
  <2> QED
    BY <2>6 DEF f
<1> HIDE DEF G
<1>3. \A e \in Seq(Patch) : e \in G
  BY <1>1, <1>2, SequencesInduct
<1> QED
  BY <1>3 DEF G

(* An entry touches a place twice if its first patch's is touched by the    *)
(* rest, or the rest touches one twice.                                     *)
LEMMA TouchesCons ==
    ASSUME NEW p \in Patch, NEW e \in Seq(Patch)
    PROVE  ~TouchesTwice(<<p>> \o e) <=> Avoids(e, p) /\ ~TouchesTwice(e)
<1> DEFINE f == <<p>> \o e
<1>1. /\ Len(f) = Len(e) + 1 /\ Len(e) \in Nat /\ f[1] = p /\ f \in Seq(Patch)
      /\ \A k \in 1..Len(e) : f[k + 1] = e[k]
  BY ConsProperties
<1>2. DOMAIN f = 1..Len(f) /\ DOMAIN e = 1..Len(e)
  BY <1>1, LenProperties
<1> HIDE DEF f
<1>3. ASSUME ~TouchesTwice(f) PROVE Avoids(e, p) /\ ~TouchesTwice(e)
  <2>1. Avoids(e, p)
    <3> SUFFICES ASSUME NEW k \in 1..Len(e) PROVE ~SamePlace(e[k], p)
      BY DEF Avoids
    <3>1. k + 1 \in DOMAIN f /\ 1 \in DOMAIN f /\ k + 1 # 1
      BY <1>1, <1>2
    <3>2. ~SamePlace(f[k + 1], f[1])
      BY <1>3, <3>1 DEF TouchesTwice
    <3> QED
      BY <1>1, <3>2
  <2>2. ~TouchesTwice(e)
    <3> SUFFICES ASSUME NEW k \in 1..Len(e), NEW l \in 1..Len(e), k # l
                 PROVE  ~SamePlace(e[k], e[l])
      BY <1>2 DEF TouchesTwice
    <3>1. k + 1 \in DOMAIN f /\ l + 1 \in DOMAIN f /\ k + 1 # l + 1
      BY <1>1, <1>2
    <3>2. ~SamePlace(f[k + 1], f[l + 1])
      BY <1>3, <3>1 DEF TouchesTwice
    <3> QED
      BY <1>1, <3>2
  <2> QED
    BY <2>1, <2>2
<1>4. ASSUME Avoids(e, p), ~TouchesTwice(e) PROVE ~TouchesTwice(f)
  <2> SUFFICES ASSUME NEW k \in 1..Len(f), NEW l \in 1..Len(f), k # l
               PROVE  ~SamePlace(f[k], f[l])
    BY <1>2 DEF TouchesTwice
  <2>1. \A m \in 1..Len(f) : m = 1 \/ (m - 1 \in 1..Len(e) /\ f[m] = e[m - 1])
    <3> TAKE m \in 1..Len(f)
    <3>1. m # 1 => m - 1 \in 1..Len(e) /\ (m - 1) + 1 = m
      BY <1>1
    <3> QED
      BY <1>1, <3>1
  <2>2. CASE k = 1
    <3>1. l - 1 \in 1..Len(e) /\ f[l] = e[l - 1]
      BY <2>1, <2>2
    <3>2. ~SamePlace(e[l - 1], p)
      BY <1>4, <3>1 DEF Avoids
    <3> QED
      BY <1>1, <2>2, <3>1, <3>2 DEF SamePlace
  <2>3. CASE l = 1
    <3>1. k - 1 \in 1..Len(e) /\ f[k] = e[k - 1]
      BY <2>1, <2>3
    <3>2. ~SamePlace(e[k - 1], p)
      BY <1>4, <3>1 DEF Avoids
    <3> QED
      BY <1>1, <2>3, <3>1, <3>2
  <2>4. CASE k # 1 /\ l # 1
    <3>1. k - 1 \in 1..Len(e) /\ l - 1 \in 1..Len(e) /\ k - 1 # l - 1
      BY <2>1, <2>4
    <3>2. ~SamePlace(e[k - 1], e[l - 1])
      BY <1>2, <1>4, <3>1 DEF TouchesTwice
    <3> QED
      BY <2>1, <2>4, <3>2
  <2> QED
    BY <2>2, <2>3, <2>4
<1> QED
  BY <1>3, <1>4 DEF f

(* What takes an entry back is of places the entry is of.                   *)
LEMMA InverseAvoids ==
    ASSUME NEW w \in Book, NEW q \in Patch
    PROVE  \A e \in Seq(Patch) : Avoids(e, q) => Avoids(Restore(w, e).inverse, q)
<1> DEFINE G == {e \in Seq(Patch) : Avoids(e, q) => Avoids(Restore(w, e).inverse, q)}
<1>1. <<>> \in G
  <2> DEFINE e == <<>>
  <2>1. Restore(w, e).inverse = e /\ e \in Seq(Patch)
    BY RestoreNothing, EmptySeq, RestoredFields
  <2> HIDE DEF e
  <2>2. e \in G
    BY <2>1
  <2> QED
    BY <2>2 DEF e
<1>2. \A e \in Seq(Patch), p \in Patch : e \in G => <<p>> \o e \in G
  <2> SUFFICES ASSUME NEW e \in Seq(Patch), NEW p \in Patch, e \in G
               PROVE  <<p>> \o e \in G
    OBVIOUS
  <2> DEFINE f == <<p>> \o e
             a == Restore(w, e)
             s == Swap(a.wb, p)
  <2>1. f \in Seq(Patch) /\ (Avoids(f, q) <=> ~SamePlace(p, q) /\ Avoids(e, q))
    BY ConsProperties, AvoidsCons
  <2>2. Restore(w, f).inverse = s.inverse \o a.inverse
    BY RestoreCons
  <2>3. a.wb \in Book /\ a.inverse \in Seq(Patch) /\ (Avoids(e, q) => Avoids(a.inverse, q))
    BY RestoreTyped
  <2> HIDE DEF f, a
  <2>4. Avoids(f, q) => Avoids(s.inverse \o a.inverse, q)
    <3>1. CASE Lands(p, a.wb)
      <4>1. PICK o \in Patch :
                /\ s.inverse = <<o>> /\ o.kind = p.kind
                /\ p.kind \in {"cell", "format"} => o.id = p.id /\ o.row = p.row
        BY <2>3, <3>1, SwapLands
      <4>2. ~SamePlace(p, q) => ~SamePlace(o, q)
        BY <4>1 DEF SamePlace
      <4>3. s.inverse \o a.inverse = <<o>> \o a.inverse
        BY <4>1
      <4>4. Avoids(<<o>> \o a.inverse, q) <=> ~SamePlace(o, q) /\ Avoids(a.inverse, q)
        BY <2>3, AvoidsCons
      <4> HIDE DEF s
      <4> QED
        BY <2>1, <2>3, <4>2, <4>3, <4>4
    <3>2. CASE ~Lands(p, a.wb)
      <4>1. s.inverse = <<>>
        BY <3>2, SwapNothing, RestoredFields
      <4>2. <<>> \o a.inverse = a.inverse
        BY <2>3, ConcatEmptySeq
      <4> HIDE DEF s
      <4> QED
        BY <2>1, <2>3, <4>1, <4>2
    <3> QED
      BY <3>1, <3>2
  <2> HIDE DEF s
  <2>5. f \in G
    BY <2>1, <2>2, <2>4
  <2> QED
    BY <2>5 DEF f
<1> HIDE DEF G
<1>3. \A e \in Seq(Patch) : e \in G
  BY <1>1, <1>2, SequencesInduct
<1> QED
  BY <1>3 DEF G

LEMMA InverseTouches ==
    ASSUME NEW w \in Book
    PROVE  \A e \in Seq(Patch) : ~TouchesTwice(e) => ~TouchesTwice(Restore(w, e).inverse)
<1> DEFINE G == {e \in Seq(Patch) : ~TouchesTwice(e) => ~TouchesTwice(Restore(w, e).inverse)}
<1>1. <<>> \in G
  <2> DEFINE e == <<>>
  <2>1. Restore(w, e).inverse = e /\ e \in Seq(Patch)
    BY RestoreNothing, EmptySeq, RestoredFields
  <2> HIDE DEF e
  <2>2. e \in G
    BY <2>1
  <2> QED
    BY <2>2 DEF e
<1>2. \A e \in Seq(Patch), p \in Patch : e \in G => <<p>> \o e \in G
  <2> SUFFICES ASSUME NEW e \in Seq(Patch), NEW p \in Patch, e \in G
               PROVE  <<p>> \o e \in G
    OBVIOUS
  <2> DEFINE f == <<p>> \o e
             a == Restore(w, e)
             s == Swap(a.wb, p)
  <2>1. f \in Seq(Patch) /\ (~TouchesTwice(f) <=> Avoids(e, p) /\ ~TouchesTwice(e))
    BY ConsProperties, TouchesCons
  <2>2. Restore(w, f).inverse = s.inverse \o a.inverse
    BY RestoreCons
  <2>3. /\ a.wb \in Book /\ a.inverse \in Seq(Patch)
        /\ ~TouchesTwice(e) => ~TouchesTwice(a.inverse)
        /\ Avoids(e, p) => Avoids(a.inverse, p)
    BY RestoreTyped, InverseAvoids
  <2> HIDE DEF f, a
  <2>4. ~TouchesTwice(f) => ~TouchesTwice(s.inverse \o a.inverse)
    <3>1. CASE Lands(p, a.wb)
      <4>1. PICK o \in Patch :
                /\ s.inverse = <<o>> /\ o.kind = p.kind
                /\ p.kind \in {"cell", "format"} => o.id = p.id /\ o.row = p.row
        BY <2>3, <3>1, SwapLands
      <4>2. Avoids(a.inverse, p) => Avoids(a.inverse, o)
        BY <4>1 DEF SamePlace, Avoids
      <4>3. s.inverse \o a.inverse = <<o>> \o a.inverse
        BY <4>1
      <4>4. ~TouchesTwice(<<o>> \o a.inverse) <=>
                Avoids(a.inverse, o) /\ ~TouchesTwice(a.inverse)
        BY <2>3, TouchesCons
      <4> HIDE DEF s
      <4> QED
        BY <2>1, <2>3, <4>2, <4>3, <4>4
    <3>2. CASE ~Lands(p, a.wb)
      <4>1. s.inverse = <<>>
        BY <3>2, SwapNothing, RestoredFields
      <4>2. <<>> \o a.inverse = a.inverse
        BY <2>3, ConcatEmptySeq
      <4> HIDE DEF s
      <4> QED
        BY <2>1, <2>3, <4>1, <4>2
    <3> QED
      BY <3>1, <3>2
  <2> HIDE DEF s
  <2>5. f \in G
    BY <2>1, <2>2, <2>4
  <2> QED
    BY <2>5 DEF f
<1> HIDE DEF G
<1>3. \A e \in Seq(Patch) : e \in G
  BY <1>1, <1>2, SequencesInduct
<1> QED
  BY <1>3 DEF G

(* What takes an entry back does take it back, if it touches no place        *)
(* twice: the places do not interfere, whatever order they are restored in. *)
LEMMA InverseTakesBack ==
    ASSUME NEW w \in Book
    PROVE  \A e \in Seq(Patch) : ~TouchesTwice(Restore(w, e).inverse) =>
                Restore(Restore(w, e).wb, Restore(w, e).inverse).wb = w
<1> DEFINE P(e) == ~TouchesTwice(Restore(w, e).inverse) =>
                        Restore(Restore(w, e).wb, Restore(w, e).inverse).wb = w
           G == {e \in Seq(Patch) : P(e)}
<1>1. <<>> \in G
  <2> DEFINE e == <<>>
  <2>1. Restore(w, e).wb = w /\ Restore(w, e).inverse = e /\ e \in Seq(Patch)
    BY RestoreNothing, EmptySeq, RestoredFields
  <2> HIDE DEF e
  <2>2. e \in G
    BY <2>1
  <2> QED
    BY <2>2 DEF e
<1>2. \A e \in Seq(Patch), p \in Patch : e \in G => <<p>> \o e \in G
  <2> SUFFICES ASSUME NEW e \in Seq(Patch), NEW p \in Patch, e \in G
               PROVE  <<p>> \o e \in G
    OBVIOUS
  <2> DEFINE f == <<p>> \o e
             a == Restore(w, e)
             v == a.wb
             inv == a.inverse
             s == Swap(v, p)
  <2>1. f \in Seq(Patch)
    BY ConsProperties
  <2>2. Restore(w, f).wb = s.wb /\ Restore(w, f).inverse = s.inverse \o inv
    BY RestoreCons
  <2>3. /\ v \in Book /\ inv \in Seq(Patch)
        /\ ~TouchesTwice(inv) => Restore(v, inv).wb = w
    BY RestoreTyped
  <2> HIDE DEF f, v, inv
  <2>4. ASSUME ~TouchesTwice(s.inverse \o inv)
        PROVE  Restore(s.wb, s.inverse \o inv).wb = w
    <3>1. CASE ~Lands(p, v)
      <4>1. s.inverse = <<>> /\ s.wb = v
        BY <3>1, SwapNothing, RestoredFields
      <4>2. <<>> \o inv = inv
        BY <2>3, ConcatEmptySeq
      <4> HIDE DEF s
      <4> QED
        BY <2>3, <2>4, <4>1, <4>2
    <3>2. CASE Lands(p, v)
      <4>1. s.wb \in Book /\ Off(p, s.wb, v)
        BY <2>3, <3>2, SwapLands
      <4>2. PICK q \in Patch :
                /\ s.inverse = <<q>> /\ Has(q, v) /\ q.kind = p.kind
                /\ p.kind \in {"cell", "format"} => q.id = p.id /\ q.row = p.row
        BY <2>3, <3>2, SwapLands
      <4>3. Off(q, s.wb, v)
        BY <4>1, <4>2 DEF Off
      <4> DEFINE start == s.wb
                 y == Restore(start, inv).wb
                 z == Swap(y, q).wb
      <4>4. s.inverse \o inv = <<q>> \o inv
        BY <4>2
      <4>5. start \in Book /\ Off(q, start, v)
        BY <4>1, <4>3
      <4>6. ~TouchesTwice(<<q>> \o inv)
        BY <2>4, <4>4
      <4> SUFFICES Restore(start, s.inverse \o inv).wb = w
        OBVIOUS
      <4> HIDE DEF s, start
      <4>7. Avoids(inv, q) /\ ~TouchesTwice(inv)
        BY <2>3, <4>6, TouchesCons
      <4>8. Restore(start, <<q>> \o inv).wb = z /\ y \in Book
        BY <2>3, <4>5, RestoreCons, RestoreTyped
      <4>9. Restore(v, inv).wb = w
        BY <2>3, <4>7
      <4>10. Off(q, y, w)
        BY <2>3, <4>5, <4>7, <4>9, RestoreOff
      <4>11. Lands(q, v)
        BY <4>2 DEF Has
      <4>12. On(q, v, w) /\ Lands(q, w)
        BY <2>3, <4>7, <4>9, <4>11, RestoreOn
      <4> HIDE DEF y
      <4>13. Lands(q, y)
        BY <4>10, <4>12 DEF Off, Lands
      <4>14. z \in Book /\ Has(q, z) /\ Off(q, z, y)
        BY <4>8, <4>13, SwapLands
      <4> HIDE DEF z
      <4>15. Off(q, z, w)
        BY <4>10, <4>14, OffTransitive
      <4>16. On(q, z, w)
        BY <4>2, <4>12, <4>14 DEF On, Has, Lands
      <4>17. z = w
        BY <4>14, <4>15, <4>16, OnAndOff
      <4> QED
        BY <4>4, <4>8, <4>17
    <3> QED
      BY <3>1, <3>2
  <2> HIDE DEF s
  <2>5. P(f)
    BY <2>2, <2>4
  <2> HIDE DEF P
  <2>6. f \in G
    BY <2>1, <2>5
  <2> QED
    BY <2>6 DEF f
<1> HIDE DEF G
<1>3. \A e \in Seq(Patch) : e \in G
  BY <1>1, <1>2, SequencesInduct
<1> QED
  BY <1>3 DEF G

----------------------------------------------------------------------------
(* Stacks of entries.                                                       *)

(* Two workbooks have the same sheets, and the same names if those count. *)
Alike(names, x, y) == x.sheets = y.sheets /\ (names => x.names = y.names)

(* An entry leaves alike what was alike.                                    *)
LEMMA RestoreAlike ==
    ASSUME NEW names \in BOOLEAN, NEW x \in Book, NEW y \in Book, Alike(names, x, y),
           NEW e \in Seq(Patch)
    PROVE  Alike(names, Restore(x, e).wb, Restore(y, e).wb)
<1>1. Restore(x, e).wb.sheets = Restore(y, e).wb.sheets
  BY RestoreOfSheets DEF Alike
<1>2. CASE names
  <2>1. x.sheets = y.sheets /\ x.names = y.names
    BY <1>2 DEF Alike
  <2>2. x = y
    BY <2>1, BookFields
  <2> QED
    BY <2>2 DEF Alike
<1>3. CASE ~names
  BY <1>1, <1>3 DEF Alike
<1> QED
  BY <1>2, <1>3

LEMMA AlikeTransitive ==
    ASSUME NEW names, NEW x, NEW y, NEW z, Alike(names, x, y), Alike(names, y, z)
    PROVE  Alike(names, x, z)
BY DEF Alike

(* A sequence but its last.                                                 *)
LEMMA FrontProperties ==
    ASSUME NEW S, NEW s \in Seq(S), s # <<>>
    PROVE  /\ Front(s) \in Seq(S) /\ Len(Front(s)) = Len(s) - 1
           /\ Len(s) \in Nat \ {0}
           /\ \A i \in 1..(Len(s) - 1) : Front(s)[i] = s[i]
           /\ Last(s) = s[Len(s)] /\ Last(s) \in S
<1>1. Len(s) \in Nat \ {0}
  BY EmptySeq
<1>2. \A i \in 1..(Len(s) - 1) : s[i] \in S
  BY <1>1, ElementOfSeq
<1> DEFINE n == Len(s) - 1
<1>3. n \in Int /\ 1 \in Int /\ n - 1 + 1 = n
  BY <1>1
<1> HIDE DEF n
<1>4. /\ SubSeq(s, 1, n) \in Seq(S)
      /\ Len(SubSeq(s, 1, n)) = IF 1 <= n THEN n - 1 + 1 ELSE 0
      /\ \A i \in 1..(n - 1 + 1) : SubSeq(s, 1, n)[i] = s[1 + i - 1]
  BY <1>2, <1>3, SubSeqProperties DEF n
<1>5. Len(SubSeq(s, 1, n)) = n
  BY <1>1, <1>3, <1>4 DEF n
<1>6. \A i \in 1..n : SubSeq(s, 1, n)[i] = s[i]
  <2> TAKE i \in 1..n
  <2>1. 1 + i - 1 = i /\ i \in 1..(n - 1 + 1)
    BY <1>3
  <2> QED
    BY <1>4, <2>1
<1>7. Last(s) = s[Len(s)] /\ Last(s) \in S
  BY <1>1, ElementOfSeq DEF Last
<1> QED
  BY <1>1, <1>4, <1>5, <1>6, <1>7 DEF Front, n

(* The workbook that entry k of a stack was recorded in; that after the last *)
(* is the one there is. *)
BookAt(books, w, k) == IF k <= Len(books) THEN books[k] ELSE w

(* Each entry of a stack leads from the next one's workbook to its own; of a *)
(* stack where not every entry does, those do that touch no place twice. *)
Leads(stack, books, w, names, every) ==
    \A k \in 1..Len(stack) :
        every \/ ~TouchesTwice(stack[k]) =>
            Alike(names, Restore(BookAt(books, w, k + 1), stack[k]).wb, books[k])

(* What is needed of the stacks below.                                      *)
Stacks(stack, books) ==
    stack \in Seq(Seq(Patch)) /\ books \in Seq(Book) /\ Len(books) = Len(stack)

(* One more entry, which leads back to the workbook there was.              *)
LEMMA LeadsAppend ==
    ASSUME NEW stack, NEW books, Stacks(stack, books), NEW w \in Book, NEW v \in Book,
           NEW e \in Seq(Patch), NEW names \in BOOLEAN, NEW now \in BOOLEAN, now => names,
           NEW every \in BOOLEAN,
           Leads(stack, books, w, names, every),
           every \/ ~TouchesTwice(e) => Alike(now, Restore(v, e).wb, w)
    PROVE  /\ Leads(Append(stack, e), Append(books, w), v, now, every)
           /\ Stacks(Append(stack, e), Append(books, w))
<1> DEFINE s == Append(stack, e)
           b == Append(books, w)
           n == Len(stack)
<1>1. /\ s \in Seq(Seq(Patch)) /\ Len(s) = n + 1 /\ s[n + 1] = e
      /\ \A i \in 1..n : s[i] = stack[i]
  BY AppendProperties DEF Stacks
<1>2. /\ b \in Seq(Book) /\ Len(b) = n + 1 /\ b[n + 1] = w
      /\ \A i \in 1..n : b[i] = books[i]
  BY AppendProperties DEF Stacks
<1>3. n \in Nat /\ Len(books) = n
  BY LenProperties DEF Stacks
<1> HIDE DEF s, b, n
<1>4. ASSUME NEW k \in 1..(n + 1), every \/ ~TouchesTwice(s[k])
      PROVE  Alike(now, Restore(BookAt(b, v, k + 1), s[k]).wb, b[k])
  <2>1. CASE k = n + 1
    <3>1. BookAt(b, v, k + 1) = v
      BY <1>2, <1>3, <2>1 DEF BookAt
    <3> QED
      BY <1>1, <1>2, <1>4, <2>1, <3>1
  <2>2. CASE k # n + 1
    <3>1. k \in 1..n
      BY <1>3, <2>2
    <3>2. BookAt(b, v, k + 1) = BookAt(books, w, k + 1)
      <4>1. CASE k + 1 <= n
        BY <1>2, <1>3, <3>1, <4>1 DEF BookAt
      <4>2. CASE ~(k + 1 <= n)
        <5>1. k + 1 = n + 1
          BY <1>3, <3>1, <4>2
        <5> QED
          BY <1>2, <1>3, <5>1 DEF BookAt
      <4> QED
        BY <4>1, <4>2
    <3>3. s[k] = stack[k] /\ b[k] = books[k]
      BY <1>1, <1>2, <3>1
    <3>4. Alike(names, Restore(BookAt(books, w, k + 1), stack[k]).wb, books[k])
      BY <1>4, <3>1, <3>3 DEF Leads, n
    <3> QED
      BY <3>2, <3>3, <3>4 DEF Alike
  <2> QED
    BY <2>1, <2>2
<1>5. Leads(s, b, v, now, every)
  BY <1>1, <1>4 DEF Leads
<1>6. Stacks(s, b)
  BY <1>1, <1>2 DEF Stacks
<1> QED
  BY <1>5, <1>6 DEF s, b

(* The last entry taken off: its workbook, or one alike, is the one there is. *)
LEMMA LeadsFront ==
    ASSUME NEW stack, NEW books, Stacks(stack, books), NEW w \in Book, NEW v \in Book,
           NEW names \in BOOLEAN, NEW every \in BOOLEAN, stack # <<>>,
           Leads(stack, books, w, names, every), Alike(names, v, Last(books))
    PROVE  /\ Leads(Front(stack), Front(books), v, names, every)
           /\ Stacks(Front(stack), Front(books))
<1> DEFINE s == Front(stack)
           b == Front(books)
           n == Len(stack)
<1>1. /\ s \in Seq(Seq(Patch)) /\ Len(s) = n - 1 /\ n \in Nat \ {0}
      /\ \A i \in 1..(n - 1) : s[i] = stack[i]
  BY FrontProperties DEF Stacks
<1>2. Len(books) = n /\ books # <<>>
  BY <1>1, EmptySeq DEF Stacks
<1>3. /\ b \in Seq(Book) /\ Len(b) = n - 1 /\ Last(books) = books[n]
      /\ \A i \in 1..(n - 1) : b[i] = books[i]
  BY <1>2, FrontProperties DEF Stacks
<1>4. \A i \in 1..n : books[i] \in Book /\ stack[i] \in Seq(Patch)
  BY <1>2, ElementOfSeq DEF Stacks
<1> HIDE DEF s, b, n
<1>5. ASSUME NEW k \in 1..(n - 1), every \/ ~TouchesTwice(s[k])
      PROVE  Alike(names, Restore(BookAt(b, v, k + 1), s[k]).wb, b[k])
  <2>1. k \in 1..n /\ k + 1 \in 1..n
    BY <1>1
  <2>2. s[k] = stack[k] /\ b[k] = books[k] /\ BookAt(books, w, k + 1) = books[k + 1]
    BY <1>1, <1>2, <1>3, <2>1 DEF BookAt
  <2>3. Alike(names, Restore(books[k + 1], stack[k]).wb, books[k])
    BY <1>5, <2>1, <2>2 DEF Leads, n
  <2>4. Alike(names, BookAt(b, v, k + 1), books[k + 1]) /\ BookAt(b, v, k + 1) \in Book
    <3>1. CASE k + 1 <= n - 1
      <4>1. BookAt(b, v, k + 1) = books[k + 1]
        BY <1>1, <1>3, <3>1 DEF BookAt
      <4> QED
        BY <1>4, <2>1, <4>1 DEF Alike
    <3>2. CASE ~(k + 1 <= n - 1)
      <4>1. k + 1 = n /\ BookAt(b, v, k + 1) = v
        BY <1>1, <1>3, <3>2 DEF BookAt
      <4> QED
        BY <1>3, <4>1
    <3> QED
      BY <3>1, <3>2
  <2>5. stack[k] \in Seq(Patch) /\ books[k + 1] \in Book
    BY <1>4, <2>1
  <2>6. Alike(names, Restore(BookAt(b, v, k + 1), stack[k]).wb, Restore(books[k + 1], stack[k]).wb)
    BY <2>4, <2>5, RestoreAlike
  <2> QED
    BY <2>2, <2>3, <2>6, AlikeTransitive
<1>6. Leads(s, b, v, names, every)
  BY <1>1, <1>5 DEF Leads
<1>7. Stacks(s, b)
  BY <1>1, <1>3 DEF Stacks
<1> QED
  BY <1>6, <1>7 DEF s, b

(* The parts of a batch put together, one after the other. *)
IsFlat(g, parts) ==
    g = [i \in 1..Len(parts) |-> IF i = 1 THEN parts[i] ELSE g[i - 1] \o parts[i]]

LEMMA CoalesceIsFlat ==
    ASSUME NEW parts, Len(parts) \in Nat \ {0}
    PROVE  \E g : IsFlat(g, parts) /\ Coalesce(parts) = g[Len(parts)]
<1> DEFINE Join(x, y) == x \o y
           Rec(g, m) == g = [i \in 1..m |-> IF i = 1 THEN parts[i] ELSE Join(g[i - 1], parts[i])]
           Good == {m \in Nat : \E g : Rec(g, m)}
<1> HIDE DEF Join
<1>1. 0 \in Good
  <2> DEFINE h == [i \in 1..0 |-> parts[1]]
  <2>1. Rec(h, 0)
    OBVIOUS
  <2> HIDE DEF h
  <2>2. \E g : Rec(g, 0)
    BY <2>1
  <2> QED
    BY <2>2
<1>2. \A m \in Nat : m \in Good => m + 1 \in Good
  <2> SUFFICES ASSUME NEW m \in Nat, m \in Good PROVE m + 1 \in Good
    OBVIOUS
  <2>1. PICK g : Rec(g, m)
    OBVIOUS
  <2> DEFINE h == [i \in 1..(m + 1) |-> IF i = 1 THEN parts[i] ELSE Join(g[i - 1], parts[i])]
  <2>2. \A k \in 1..m : h[k] = g[k]
    BY <2>1
  <2>3. \A k \in 1..(m + 1) : k # 1 => k - 1 \in 1..m
    OBVIOUS
  <2>4. \A k \in 1..(m + 1) : k # 1 => h[k - 1] = g[k - 1]
    <3> HIDE DEF h
    <3> QED
      BY <2>2, <2>3
  <2>5. Rec(h, m + 1)
    BY <2>4
  <2> HIDE DEF h
  <2>6. \E x : Rec(x, m + 1)
    BY <2>5
  <2> QED
    BY <2>6
<1> HIDE DEF Good
<1>3. Len(parts) \in Good
  BY <1>1, <1>2, NumbersInduct
<1>4. \E g : Rec(g, Len(parts))
  BY <1>3 DEF Good
<1>5. Len(parts) # 0
  OBVIOUS
<1> QED
  BY <1>4, <1>5 DEF Coalesce, FlattenSeq, IsFlat, Join

(* Together they restore what they restore one by one, from the last to the  *)
(* first.                                                                   *)
LEMMA CoalesceRestores ==
    ASSUME NEW parts \in Seq(Seq(Patch)), parts # <<>>, NEW names \in BOOLEAN,
           NEW books, \A k \in 1..(Len(parts) + 1) : books[k] \in Book,
           \A k \in 1..Len(parts) : Alike(names, Restore(books[k + 1], parts[k]).wb, books[k])
    PROVE  /\ Coalesce(parts) \in Seq(Patch)
           /\ Alike(names, Restore(books[Len(parts) + 1], Coalesce(parts)).wb, books[1])
<1> DEFINE n == Len(parts)
<1>1. n \in Nat \ {0}
  BY EmptySeq
<1>2. PICK g : IsFlat(g, parts) /\ Coalesce(parts) = g[n]
  BY <1>1, CoalesceIsFlat
<1>3. \A k \in 1..n : parts[k] \in Seq(Patch)
  BY ElementOfSeq
<1> DEFINE Good == {m \in Nat : m + 1 \in 1..n =>
                        /\ g[m + 1] \in Seq(Patch)
                        /\ Alike(names, Restore(books[m + 2], g[m + 1]).wb, books[1])}
<1>4. 0 \in Good
  <2>1. g[1] = parts[1]
    BY <1>1, <1>2 DEF IsFlat
  <2>2. 1 \in 1..n /\ 1 + 1 = 2 /\ 0 + 1 = 1 /\ 0 + 2 = 2
    BY <1>1
  <2>3. Alike(names, Restore(books[2], parts[1]).wb, books[1])
    BY <2>2
  <2> QED
    BY <1>3, <2>1, <2>2, <2>3
<1>5. \A m \in Nat : m \in Good => m + 1 \in Good
  <2> SUFFICES ASSUME NEW m \in Nat, m \in Good, (m + 1) + 1 \in 1..n
               PROVE  /\ g[(m + 1) + 1] \in Seq(Patch)
                      /\ Alike(names, Restore(books[(m + 1) + 2], g[(m + 1) + 1]).wb, books[1])
    OBVIOUS
  <2> DEFINE a == g[m + 1]
             b == parts[m + 2]
             v == Restore(books[m + 3], b).wb
  <2>1. /\ m + 1 \in 1..n /\ m + 2 \in 1..n /\ (m + 1) + 1 = m + 2 /\ (m + 1) + 2 = m + 3
        /\ (m + 2) + 1 = m + 3 /\ m + 3 \in 1..(n + 1) /\ m + 2 \in 1..(n + 1)
        /\ m + 2 # 1 /\ (m + 2) - 1 = m + 1
    BY <1>1
  <2>2. a \in Seq(Patch) /\ Alike(names, Restore(books[m + 2], a).wb, books[1])
    BY <2>1
  <2>3. g[m + 2] = a \o b
    BY <1>2, <2>1 DEF IsFlat
  <2>4. b \in Seq(Patch) /\ books[m + 3] \in Book /\ books[m + 2] \in Book
    BY <1>3, <2>1
  <2>5. Alike(names, v, books[m + 2])
    <3>1. Alike(names, Restore(books[(m + 2) + 1], parts[m + 2]).wb, books[m + 2])
      BY <2>1
    <3> QED
      BY <2>1, <3>1
  <2> HIDE DEF a, b
  <2>6. v \in Book
    BY <2>4, RestoreTyped
  <2>7. Restore(books[m + 3], a \o b).wb = Restore(v, a).wb
    BY <2>2, <2>4, RestoreConcat
  <2> HIDE DEF v
  <2>8. Alike(names, Restore(v, a).wb, Restore(books[m + 2], a).wb)
    BY <2>2, <2>4, <2>5, <2>6, RestoreAlike
  <2>9. Alike(names, Restore(v, a).wb, books[1])
    BY <2>2, <2>8, AlikeTransitive
  <2>10. a \o b \in Seq(Patch)
    BY <2>2, <2>4, ConcatProperties
  <2> QED
    BY <2>1, <2>3, <2>7, <2>9, <2>10
<1> HIDE DEF Good
<1>6. n - 1 \in Nat /\ (n - 1) + 1 = n /\ (n - 1) + 2 = n + 1 /\ n \in 1..n
  BY <1>1
<1>7. n - 1 \in Good
  BY <1>4, <1>5, <1>6, NumbersInduct
<1>8. /\ g[(n - 1) + 1] \in Seq(Patch)
      /\ Alike(names, Restore(books[(n - 1) + 2], g[(n - 1) + 1]).wb, books[1])
  BY <1>6, <1>7 DEF Good
<1> QED
  BY <1>2, <1>6, <1>8

(* A batch that ends: what it pushed becomes one entry, which leads to the   *)
(* workbook its first one was recorded in.                                   *)
LEMMA LeadsCoalesce ==
    ASSUME NEW stack, NEW books, Stacks(stack, books), NEW w \in Book,
           NEW names \in BOOLEAN, NEW b \in Nat, Len(stack) > b + 1,
           Leads(stack, books, w, names, TRUE),
           NEW s, s = Append(SubSeq(stack, 1, b), Coalesce(SubSeq(stack, b + 1, Len(stack)))),
           NEW bs, bs = SubSeq(books, 1, b + 1)
    PROVE  Leads(s, bs, w, names, TRUE) /\ Stacks(s, bs)
<1> DEFINE n == Len(stack)
           parts == SubSeq(stack, b + 1, n)
           low == SubSeq(stack, 1, b)
           c == [k \in 1..(n - b + 1) |-> BookAt(books, w, b + k)]
<1>1. n \in Nat /\ Len(books) = n /\ n > b + 1
  BY LenProperties DEF Stacks
<1>2. \A i \in 1..n : books[i] \in Book /\ stack[i] \in Seq(Patch)
  BY <1>1, ElementOfSeq DEF Stacks
<1> HIDE DEF n
<1>3. /\ parts \in Seq(Seq(Patch)) /\ Len(parts) = n - b
      /\ \A k \in 1..(n - b) : parts[k] = stack[b + k]
  <2>1. \A i \in (b + 1)..n : stack[i] \in Seq(Patch)
    BY <1>1, <1>2
  <2>2. b + 1 \in Int /\ n \in Int /\ b + 1 <= n /\ n - (b + 1) + 1 = n - b
    BY <1>1
  <2>3. /\ parts \in Seq(Seq(Patch))
        /\ Len(parts) = IF b + 1 <= n THEN n - (b + 1) + 1 ELSE 0
        /\ \A i \in 1..(n - (b + 1) + 1) : parts[i] = stack[(b + 1) + i - 1]
    BY <2>1, <2>2, SubSeqProperties
  <2> HIDE DEF parts
  <2>4. \A k \in 1..(n - b) : parts[k] = stack[b + k]
    <3> TAKE k \in 1..(n - b)
    <3>1. (b + 1) + k - 1 = b + k /\ k \in 1..(n - (b + 1) + 1)
      BY <1>1
    <3> QED
      BY <2>3, <3>1
  <2> QED
    BY <2>2, <2>3, <2>4
<1>4. low \in Seq(Seq(Patch)) /\ Len(low) = b /\ \A k \in 1..b : low[k] = stack[k]
  <2>1. \A i \in 1..b : stack[i] \in Seq(Patch)
    BY <1>1, <1>2
  <2>2. /\ low \in Seq(Seq(Patch)) /\ Len(low) = IF 1 <= b THEN b - 1 + 1 ELSE 0
        /\ \A i \in 1..(b - 1 + 1) : low[i] = stack[1 + i - 1]
    BY <2>1, SubSeqProperties
  <2> HIDE DEF low
  <2>3. Len(low) = b
    BY <2>2
  <2>4. \A k \in 1..b : low[k] = stack[k]
    <3> TAKE k \in 1..b
    <3>1. 1 + k - 1 = k /\ k \in 1..(b - 1 + 1)
      OBVIOUS
    <3> QED
      BY <2>2, <3>1
  <2> QED
    BY <2>2, <2>3, <2>4
<1>5. bs \in Seq(Book) /\ Len(bs) = b + 1 /\ \A k \in 1..(b + 1) : bs[k] = books[k]
  <2> DEFINE m == b + 1
  <2>0. m \in Nat /\ m < n
    BY <1>1
  <2> HIDE DEF m
  <2>1. \A i \in 1..m : books[i] \in Book
    BY <1>1, <1>2, <2>0
  <2>2. /\ SubSeq(books, 1, m) \in Seq(Book)
        /\ Len(SubSeq(books, 1, m)) = IF 1 <= m THEN m - 1 + 1 ELSE 0
        /\ \A i \in 1..(m - 1 + 1) : SubSeq(books, 1, m)[i] = books[1 + i - 1]
    BY <2>0, <2>1, SubSeqProperties
  <2>3. bs = SubSeq(books, 1, m)
    BY DEF m
  <2>4. bs \in Seq(Book) /\ Len(bs) = m
    BY <2>0, <2>2, <2>3
  <2>5. \A k \in 1..m : bs[k] = books[k]
    <3> TAKE k \in 1..m
    <3>1. 1 + k - 1 = k /\ k \in 1..(m - 1 + 1)
      BY <2>0
    <3> QED
      BY <2>2, <2>3, <3>1
  <2> QED
    BY <2>4, <2>5 DEF m
<1> HIDE DEF parts, low
<1>6. /\ \A k \in 1..(Len(parts) + 1) : c[k] \in Book
      /\ c[1] = books[b + 1] /\ c[Len(parts) + 1] = w
      /\ \A k \in 1..Len(parts) : c[k] = books[b + k] /\ c[k + 1] = BookAt(books, w, b + k + 1)
  <2>1. ASSUME NEW k \in 1..(Len(parts) + 1) PROVE c[k] \in Book
    <3>1. k \in 1..(n - b + 1) /\ (b + k <= n => b + k \in 1..n)
      BY <1>1, <1>3
    <3>2. BookAt(books, w, b + k) \in Book
      BY <1>1, <1>2, <3>1 DEF BookAt
    <3> QED
      BY <3>1, <3>2
  <2>2. c[1] = books[b + 1]
    BY <1>1 DEF BookAt
  <2>3. c[Len(parts) + 1] = w
    BY <1>1, <1>3 DEF BookAt
  <2>4. ASSUME NEW k \in 1..Len(parts)
        PROVE  c[k] = books[b + k] /\ c[k + 1] = BookAt(books, w, b + k + 1)
    <3>1. /\ k \in 1..(n - b + 1) /\ k + 1 \in 1..(n - b + 1) /\ b + k <= n
          /\ b + (k + 1) = b + k + 1
      BY <1>1, <1>3
    <3> QED
      BY <1>1, <3>1 DEF BookAt
  <2> QED
    BY <2>1, <2>2, <2>3, <2>4
<1>7. \A k \in 1..Len(parts) : Alike(names, Restore(c[k + 1], parts[k]).wb, c[k])
  <2> TAKE k \in 1..Len(parts)
  <2>1. b + k \in 1..n /\ k \in 1..(n - b)
    BY <1>1, <1>3
  <2>2. Alike(names, Restore(BookAt(books, w, b + k + 1), stack[b + k]).wb, books[b + k])
    BY <2>1 DEF Leads, n
  <2> HIDE DEF c
  <2> QED
    BY <1>3, <1>6, <2>1, <2>2
<1> HIDE DEF c
<1>8. parts # <<>>
  BY <1>1, <1>3, EmptySeq
<1> DEFINE all == Coalesce(parts)
<1>9. all \in Seq(Patch) /\ Alike(names, Restore(w, all).wb, books[b + 1])
  <2>1. /\ all \in Seq(Patch)
        /\ Alike(names, Restore(c[Len(parts) + 1], all).wb, c[1])
    <3>1. parts \in Seq(Seq(Patch)) /\ \A k \in 1..(Len(parts) + 1) : c[k] \in Book
      BY <1>3, <1>6
    <3> QED
      BY <3>1, <1>7, <1>8, CoalesceRestores
  <2> QED
    BY <1>6, <2>1
<1>10. s = Append(low, all)
  BY DEF low, parts, n
<1> HIDE DEF all
<1>11. /\ s \in Seq(Seq(Patch)) /\ Len(s) = b + 1 /\ s[b + 1] = all
       /\ \A k \in 1..b : s[k] = stack[k]
  BY <1>4, <1>9, <1>10, AppendProperties
<1>12. ASSUME NEW k \in 1..(b + 1)
       PROVE  Alike(names, Restore(BookAt(bs, w, k + 1), s[k]).wb, bs[k])
  <2>1. CASE k = b + 1
    <3>1. BookAt(bs, w, k + 1) = w
      BY <1>5, <2>1 DEF BookAt
    <3> QED
      BY <1>5, <1>9, <1>11, <2>1, <3>1
  <2>2. CASE k # b + 1
    <3>1. k \in 1..b /\ k \in 1..n /\ k + 1 \in 1..(b + 1) /\ k + 1 <= n
      BY <1>1, <2>2
    <3>2. BookAt(bs, w, k + 1) = BookAt(books, w, k + 1)
      BY <1>1, <1>5, <3>1 DEF BookAt
    <3>3. Alike(names, Restore(BookAt(books, w, k + 1), stack[k]).wb, books[k])
      BY <3>1 DEF Leads, n
    <3> QED
      BY <1>5, <1>11, <3>1, <3>2, <3>3
  <2> QED
    BY <2>1, <2>2
<1>13. Leads(s, bs, w, names, TRUE)
  BY <1>11, <1>12 DEF Leads
<1> QED
  BY <1>5, <1>11, <1>13 DEF Stacks

----------------------------------------------------------------------------
(* What an operation writes, and what its entry brings back.                 *)

(* Two workbooks with the same sheets and names, whatever is on the sheets;  *)
(* with the same cells; with the same formats. *)
Frame(x, y) ==
    /\ Ids(x) = Ids(y) /\ x.names = y.names
    /\ \A j \in Ids(x) : x.sheets[j].name = y.sheets[j].name

SameCells(x, y) == \A j \in Ids(x), q \in Row : x.sheets[j].cells[q] = y.sheets[j].cells[q]

SameFormats(x, y) ==
    \A j \in Ids(x), q \in Row : q \in x.sheets[j].formats <=> q \in y.sheets[j].formats

LEMMA FrameTransitive ==
    ASSUME NEW x, NEW y, NEW z, Frame(x, y), Frame(y, z)
    PROVE  Frame(x, z)
BY DEF Frame

LEMMA SameFormatsTransitive ==
    ASSUME NEW x, NEW y, NEW z, Ids(x) = Ids(y), SameFormats(x, y), SameFormats(y, z)
    PROVE  SameFormats(x, z)
<1>1. \A j \in Ids(x), q \in Row : q \in x.sheets[j].formats <=> q \in y.sheets[j].formats
  BY DEF SameFormats
<1>2. \A j \in Ids(x), q \in Row : q \in y.sheets[j].formats <=> q \in z.sheets[j].formats
  BY DEF SameFormats
<1> QED
  BY <1>1, <1>2 DEF SameFormats

(* With all three they are the same.                                        *)
LEMMA AllSame ==
    ASSUME NEW x \in Book, NEW y \in Book, Frame(x, y), SameCells(x, y), SameFormats(x, y)
    PROVE  x = y
<1>1. x.names = y.names /\ Ids(x) = Ids(y)
  BY DEF Frame
<1>2. ASSUME NEW i \in Ids(x)
      PROVE  /\ x.sheets[i].name = y.sheets[i].name
             /\ \A r \in Row : x.sheets[i].cells[r] = y.sheets[i].cells[r]
             /\ \A r \in Row : r \in x.sheets[i].formats <=> r \in y.sheets[i].formats
  BY <1>2 DEF Frame, SameCells, SameFormats
<1> QED
  BY <1>1, <1>2, BooksEqual

(* What is recorded of a cell, and of a format, is a patch.                  *)
LEMMA PatchesTyped ==
    ASSUME NEW y \in Book, NEW i \in Ids(y), NEW r \in Row
    PROVE  /\ CellPatch(y, i, r) \in CellPatches /\ CellPatch(y, i, r) \in Patch
           /\ FormatPatch(y, i, r) \in FormatPatches /\ FormatPatch(y, i, r) \in Patch
<1>1. y.sheets[i].cells[r] \in Content /\ i \in 1..MaxSheets
  BY BookFields
<1>2. CellPatch(y, i, r) \in CellPatches
  BY <1>1 DEF CellPatch, CellPatches
<1>3. FormatPatch(y, i, r) \in FormatPatches
  BY <1>1 DEF FormatPatch, FormatPatches
<1> QED
  BY <1>2, <1>3 DEF Patch

(* Restoring a cell gives the cells they were recorded with, if nothing else *)
(* differs in them; it leaves the rest.                                      *)
LEMMA CellBack ==
    ASSUME NEW v \in Book, NEW y \in Book, Frame(v, y), NEW i \in Ids(y), NEW r \in Row,
           \A j \in Ids(y), q \in Row :
                ~(j = i /\ q = r) => v.sheets[j].cells[q] = y.sheets[j].cells[q]
    PROVE  LET z == Swap(v, CellPatch(y, i, r)).wb IN
           z \in Book /\ Frame(z, y) /\ SameFormats(z, v) /\ SameCells(z, y)
<1> DEFINE p == CellPatch(y, i, r)
           z == Swap(v, p).wb
<1>1. p \in CellPatches /\ p.id = i /\ p.row = r /\ p.was = y.sheets[i].cells[r]
  BY PatchesTyped DEF CellPatch
<1>2. i \in Ids(v)
  BY DEF Frame
<1> HIDE DEF p
<1>3. /\ z \in Book /\ Ids(z) = Ids(v) /\ z.names = v.names
      /\ \A j \in Ids(v) :
            /\ z.sheets[j].name = v.sheets[j].name
            /\ z.sheets[j].formats = v.sheets[j].formats
            /\ \A q \in Row : z.sheets[j].cells[q] =
                   IF j = i /\ q = r THEN p.was ELSE v.sheets[j].cells[q]
  BY <1>1, <1>2, SwapCell
<1> HIDE DEF z
<1>4. Frame(z, y)
  BY <1>3 DEF Frame
<1>5. SameFormats(z, v)
  BY <1>3 DEF SameFormats
<1>6. SameCells(z, y)
  BY <1>1, <1>3 DEF SameCells, Frame
<1> QED
  BY <1>3, <1>4, <1>5, <1>6 DEF z, p

(* The same of a format.                                                    *)
LEMMA FormatBack ==
    ASSUME NEW v \in Book, NEW y \in Book, Frame(v, y), NEW i \in Ids(y), NEW r \in Row,
           \A j \in Ids(y), q \in Row :
                ~(j = i /\ q = r) => (q \in v.sheets[j].formats <=> q \in y.sheets[j].formats)
    PROVE  LET z == Swap(v, FormatPatch(y, i, r)).wb IN
           z \in Book /\ Frame(z, y) /\ SameCells(z, v) /\ SameFormats(z, y)
<1> DEFINE p == FormatPatch(y, i, r)
           z == Swap(v, p).wb
<1>1. p \in FormatPatches /\ p.id = i /\ p.row = r /\ p.was = (r \in y.sheets[i].formats)
  BY PatchesTyped DEF FormatPatch
<1>2. i \in Ids(v)
  BY DEF Frame
<1> HIDE DEF p
<1>3. /\ z \in Book /\ Ids(z) = Ids(v) /\ z.names = v.names
      /\ \A j \in Ids(v) :
            /\ z.sheets[j].name = v.sheets[j].name
            /\ z.sheets[j].cells = v.sheets[j].cells
            /\ \A q \in Row : q \in z.sheets[j].formats <=>
                   IF j = i /\ q = r THEN p.was ELSE q \in v.sheets[j].formats
  BY <1>1, <1>2, SwapFormat
<1> HIDE DEF z
<1>4. Frame(z, y)
  BY <1>3 DEF Frame
<1>5. SameCells(z, v)
  BY <1>3 DEF SameCells
<1>6. ASSUME NEW j \in Ids(z), NEW q \in Row
      PROVE  q \in z.sheets[j].formats <=> q \in y.sheets[j].formats
  <2>1. j \in Ids(v) /\ j \in Ids(y)
    BY <1>3 DEF Frame
  <2>2. CASE j = i /\ q = r
    <3>1. q \in z.sheets[j].formats <=> p.was
      BY <1>3, <2>1, <2>2
    <3> QED
      BY <1>1, <2>2, <3>1
  <2>3. CASE ~(j = i /\ q = r)
    <3>1. q \in z.sheets[j].formats <=> q \in v.sheets[j].formats
      BY <1>3, <2>1, <2>3
    <3> QED
      BY <2>1, <2>3, <3>1
  <2> QED
    BY <2>2, <2>3
<1>7. SameFormats(z, y)
  BY <1>6 DEF SameFormats
<1> QED
  BY <1>3, <1>4, <1>5, <1>7 DEF z, p

(* One patch as an entry.                                                   *)
LEMMA RestoreSingle ==
    ASSUME NEW v \in Book, NEW p \in Patch
    PROVE  <<p>> \in Seq(Patch) /\ Restore(v, <<p>>).wb = Swap(v, p).wb
<1> DEFINE none == <<>>
           one == <<p>>
<1>1. none \in Seq(Patch) /\ one \in Seq(Patch) /\ Restore(v, none).wb = v
  BY EmptySeq, RestoreNothing, RestoredFields
<1> HIDE DEF none
<1>2. Restore(v, one \o none).wb = Swap(Restore(v, none).wb, p).wb
  BY <1>1, RestoreCons
<1>3. one \o none = one
  <2> HIDE DEF one
  <2> QED
    BY <1>1, ConcatEmptySeq DEF none
<1> QED
  BY <1>1, <1>2, <1>3

(* What writing a row changes.                                              *)
LEMMA RowPut ==
    ASSUME NEW w \in Book, NEW i \in Ids(w), NEW r \in Row, NEW c \in Content,
           NEW bold \in BOOLEAN
    PROVE  LET v == PutRow(w, i, r, c, bold) IN
           /\ v \in Book /\ Frame(v, w)
           /\ \A j \in Ids(w), q \in Row :
                 /\ v.sheets[j].cells[q] =
                        IF j = i /\ q = r THEN c ELSE w.sheets[j].cells[q]
                 /\ ~(j = i /\ q = r) =>
                        (q \in v.sheets[j].formats <=> q \in w.sheets[j].formats)
           /\ r \in v.sheets[i].formats <=> bold
<1> DEFINE u == PutCell(w, i, r, c)
           f == IF bold THEN u.sheets[i].formats \union {r} ELSE u.sheets[i].formats \ {r}
           v == PutFormats(u, i, f)
<1>1. /\ u \in Book /\ Ids(u) = Ids(w) /\ u.names = w.names
      /\ \A j \in Ids(w) :
            /\ u.sheets[j].name = w.sheets[j].name
            /\ u.sheets[j].formats = w.sheets[j].formats
            /\ \A q \in Row : u.sheets[j].cells[q] =
                   IF j = i /\ q = r THEN c ELSE w.sheets[j].cells[q]
  BY CellPut
<1>2. PutRow(w, i, r, c, bold) = v
  BY DEF PutRow, PutCell, PutFormats
<1> HIDE DEF u
<1>3. /\ f \in SUBSET Row /\ (r \in f <=> bold)
      /\ \A q \in Row : q # r => (q \in f <=> q \in w.sheets[i].formats)
  <2>1. u.sheets[i].formats = w.sheets[i].formats /\ w.sheets[i].formats \in SUBSET Row
    BY <1>1, BookFields
  <2> QED
    BY <2>1
<1> HIDE DEF f
<1>4. /\ v \in Book /\ Ids(v) = Ids(u) /\ v.names = u.names
      /\ v.sheets[i].formats = f
      /\ \A j \in Ids(u) :
            /\ v.sheets[j].name = u.sheets[j].name
            /\ j # i => v.sheets[j].formats = u.sheets[j].formats
            /\ v.sheets[j].cells = u.sheets[j].cells
  <2>1. u \in Book /\ i \in Ids(u)
    BY <1>1
  <2>2. f \in SUBSET Row
    BY <1>3
  <2> QED
    BY <2>1, <2>2, FormatsPut
<1> HIDE DEF v
<1>5. Frame(v, w)
  BY <1>1, <1>4 DEF Frame
<1>6. \A j \in Ids(w), q \in Row : ~(j = i /\ q = r) =>
            (q \in v.sheets[j].formats <=> q \in w.sheets[j].formats)
  BY <1>1, <1>3, <1>4
<1>7. \A j \in Ids(w), q \in Row :
            v.sheets[j].cells[q] = IF j = i /\ q = r THEN c ELSE w.sheets[j].cells[q]
  BY <1>1, <1>4
<1>8. r \in v.sheets[i].formats <=> bold
  <2>1. v.sheets[i].formats = f
    BY <1>4
  <2>2. r \in f <=> bold
    BY <1>3
  <2> QED
    BY <2>1, <2>2, Zenon
<1> QED
  BY <1>2, <1>4, <1>5, <1>6, <1>7, <1>8

(* What is recorded of a row's format brings the formats back.               *)
LEMMA FormatEntryBack ==
    ASSUME NEW v \in Book, NEW y \in Book, Frame(v, y), NEW i \in Ids(y), NEW r \in Row,
           NEW bold \in BOOLEAN, r \in v.sheets[i].formats <=> bold,
           \A j \in Ids(y), q \in Row :
                ~(j = i /\ q = r) => (q \in v.sheets[j].formats <=> q \in y.sheets[j].formats)
    PROVE  LET z == Restore(v, FormatEntry(y, i, r, bold)).wb IN
           /\ FormatEntry(y, i, r, bold) \in Seq(Patch)
           /\ z \in Book /\ Frame(z, y) /\ SameCells(z, v) /\ SameFormats(z, y)
<1> DEFINE e == FormatEntry(y, i, r, bold)
<1>1. CASE bold = (r \in y.sheets[i].formats)
  <2>1. e = <<>>
    BY <1>1 DEF FormatEntry
  <2>2. e \in Seq(Patch) /\ Restore(v, e).wb = v
    BY <2>1, EmptySeq, RestoreNothing, RestoredFields
  <2>3. SameCells(v, v)
    BY DEF SameCells
  <2>4. SameFormats(v, y)
    BY <1>1 DEF SameFormats, Frame
  <2> HIDE DEF e
  <2>5. LET z == Restore(v, e).wb IN
        /\ e \in Seq(Patch)
        /\ z \in Book /\ Frame(z, y) /\ SameCells(z, v) /\ SameFormats(z, y)
    BY <2>2, <2>3, <2>4
  <2> QED
    BY <2>5 DEF e
<1>2. CASE ~(bold = (r \in y.sheets[i].formats))
  <2> DEFINE p == FormatPatch(y, i, r)
  <2>1. e = <<p>>
    BY <1>2 DEF FormatEntry
  <2>2. p \in Patch
    BY PatchesTyped
  <2>3. e \in Seq(Patch) /\ Restore(v, e).wb = Swap(v, p).wb
    BY <2>1, <2>2, RestoreSingle
  <2>4. LET z == Swap(v, p).wb IN
        z \in Book /\ Frame(z, y) /\ SameCells(z, v) /\ SameFormats(z, y)
    BY FormatBack
  <2> HIDE DEF e, p
  <2>5. LET z == Restore(v, e).wb IN
        /\ e \in Seq(Patch)
        /\ z \in Book /\ Frame(z, y) /\ SameCells(z, v) /\ SameFormats(z, y)
    BY <2>3, <2>4
  <2> QED
    BY <2>5 DEF e
<1> QED
  BY <1>1, <1>2

(* Some cells, recorded in some order: their patches, each of them one.      *)
LEMMA CellEntryIs ==
    ASSUME NEW y \in Book, NEW places \in SUBSET (Ids(y) \X Row)
    PROVE  LET e == CellEntry(y, places) IN
           /\ e \in Seq(Patch)
           /\ \A k \in 1..Len(e) : \E j \in Ids(y), q \in Row : e[k] = CellPatch(y, j, q)
           /\ \A j \in Ids(y), q \in Row :
                 <<j, q>> \in places => \E k \in 1..Len(e) : e[k] = CellPatch(y, j, q)
<1> DEFINE n == Cardinality(places)
           s == SetToSeq(places)
           e == CellEntry(y, places)
<1>1. IsFiniteSet(places)
  <2>1. IsFiniteSet(1..MaxSheets) /\ IsFiniteSet(1..Rows)
    BY WorkbookAssumption, FS_Interval
  <2>2. IsFiniteSet(Ids(y))
    BY <2>1, BookFields, FS_Subset
  <2>3. IsFiniteSet(Ids(y) \X Row)
    BY <2>1, <2>2, FS_Product DEF Row
  <2> QED
    BY <2>3, FS_Subset
<1>2. n \in Nat /\ ExistsBijection(1..n, places)
  BY <1>1, FS_CardinalityType
<1>3. s \in [1..n -> places] /\ IsInjective(s)
  <2>1. PICK f : f \in [1..n -> places] /\ IsInjective(f)
    BY <1>2 DEF ExistsBijection, Bijection, Injection
  <2> QED
    BY <2>1 DEF SetToSeq
<1> HIDE DEF s
<1>4. Cardinality(1..n) = n /\ IsFiniteSet(1..n)
  BY <1>2, FS_Interval
<1>5. s \in Injection(1..n, places)
  BY <1>3 DEF Injection
<1>6. s \in Surjection(1..n, places)
  BY <1>1, <1>4, <1>5, FS_Injection
<1>7. e = [k \in 1..n |-> CellPatch(y, s[k][1], s[k][2])]
  BY DEF CellEntry, s
<1> HIDE DEF n, e
<1>8. \A k \in 1..n : s[k] \in places /\ s[k][1] \in Ids(y) /\ s[k][2] \in Row
  BY <1>3
<1>9. e \in [1..n -> Patch]
  BY <1>7, <1>8, PatchesTyped
<1>10. e \in Seq(Patch) /\ Len(e) = n
  BY <1>2, <1>9, LenProperties, SeqDef
<1>11. ASSUME NEW k \in 1..n PROVE \E j \in Ids(y), q \in Row : e[k] = CellPatch(y, j, q)
  BY <1>7, <1>8
<1>12. ASSUME NEW j \in Ids(y), NEW q \in Row, <<j, q>> \in places
       PROVE  \E k \in 1..n : e[k] = CellPatch(y, j, q)
  <2>1. PICK k \in 1..n : s[k] = <<j, q>>
    BY <1>6, <1>12 DEF Surjection
  <2>2. e[k] = CellPatch(y, j, q)
    BY <1>7, <2>1
  <2> QED
    BY <2>2
<1> QED
  BY <1>10, <1>11, <1>12 DEF e

(* Restoring cells of a workbook gives each that is named as it was there,   *)
(* and leaves the others.                                                    *)
LEMMA CellsBack ==
    ASSUME NEW v \in Book, NEW y \in Book, Frame(v, y)
    PROVE  \A e \in Seq(Patch) :
              (\A k \in 1..Len(e) : \E j \in Ids(y), q \in Row : e[k] = CellPatch(y, j, q)) =>
                LET z == Restore(v, e).wb IN
                /\ Frame(z, y) /\ SameFormats(z, v)
                /\ \A j \in Ids(y), q \in Row :
                      \/ z.sheets[j].cells[q] = y.sheets[j].cells[q]
                      \/ /\ z.sheets[j].cells[q] = v.sheets[j].cells[q]
                         /\ \A k \in 1..Len(e) : e[k] # CellPatch(y, j, q)
<1> DEFINE Cells1(e) == \A k \in 1..Len(e) :
                            \E j \in Ids(y), q \in Row : e[k] = CellPatch(y, j, q)
           Kept(z, e) == \A j \in Ids(y), q \in Row :
                      \/ z.sheets[j].cells[q] = y.sheets[j].cells[q]
                      \/ /\ z.sheets[j].cells[q] = v.sheets[j].cells[q]
                         /\ \A k \in 1..Len(e) : e[k] # CellPatch(y, j, q)
           Good(z, e) == Frame(z, y) /\ SameFormats(z, v) /\ Kept(z, e)
           G == {e \in Seq(Patch) : Cells1(e) => Good(Restore(v, e).wb, e)}
<1>1. <<>> \in G
  <2> DEFINE e == <<>>
  <2>1. e \in Seq(Patch) /\ Restore(v, e).wb = v /\ Len(e) = 0
    BY RestoreNothing, RestoredFields, EmptySeq
  <2> HIDE DEF e
  <2>2. Good(v, e)
    BY <2>1 DEF SameFormats
  <2>3. e \in G
    BY <2>1, <2>2
  <2> QED
    BY <2>3 DEF e
<1>2. \A e \in Seq(Patch), p \in Patch : e \in G => <<p>> \o e \in G
  <2> SUFFICES ASSUME NEW e \in Seq(Patch), NEW p \in Patch, e \in G
               PROVE  <<p>> \o e \in G
    OBVIOUS
  <2> DEFINE f == <<p>> \o e
             u == Restore(v, e).wb
             z == Swap(u, p).wb
  <2>1. /\ f \in Seq(Patch) /\ Len(f) = Len(e) + 1 /\ Len(e) \in Nat /\ f[1] = p
        /\ \A k \in 1..Len(e) : f[k + 1] = e[k]
    BY ConsProperties
  <2>2. Restore(v, f).wb = z /\ u \in Book
    BY RestoreCons, RestoreTyped
  <2> HIDE DEF f
  <2>3. ASSUME Cells1(f) PROVE Good(z, f)
    <3>1. Cells1(e)
      <4> SUFFICES ASSUME NEW k \in 1..Len(e)
                   PROVE  \E j \in Ids(y), q \in Row : e[k] = CellPatch(y, j, q)
        OBVIOUS
      <4>1. k + 1 \in 1..Len(f) /\ f[k + 1] = e[k]
        BY <2>1
      <4> QED
        BY <2>3, <4>1
    <3>2. Good(u, e)
      BY <3>1
    <3>3. PICK i \in Ids(y), r \in Row : p = CellPatch(y, i, r)
      <4>1. 1 \in 1..Len(f)
        BY <2>1
      <4> QED
        BY <2>1, <2>3, <4>1
    <3>4. /\ p \in CellPatches /\ p.id = i /\ p.row = r
          /\ p.was = y.sheets[i].cells[r]
      BY <3>3, PatchesTyped DEF CellPatch
    <3>5. Frame(u, y) /\ SameFormats(u, v) /\ Kept(u, e)
      BY <3>2
    <3> HIDE DEF u, Kept
    <3>6. i \in Ids(u) /\ Ids(u) = Ids(y)
      BY <3>5 DEF Frame
    <3>7. /\ z \in Book /\ Ids(z) = Ids(u) /\ z.names = u.names
          /\ \A j \in Ids(u) :
                /\ z.sheets[j].name = u.sheets[j].name
                /\ z.sheets[j].formats = u.sheets[j].formats
                /\ \A q \in Row : z.sheets[j].cells[q] =
                       IF j = i /\ q = r THEN p.was ELSE u.sheets[j].cells[q]
      BY <2>2, <3>4, <3>6, SwapCell
    <3> HIDE DEF z
    <3>8. Frame(z, y)
      BY <3>5, <3>7 DEF Frame
    <3>9. SameFormats(z, v)
      BY <3>5, <3>7 DEF SameFormats
    <3>10. ASSUME NEW j \in Ids(y), NEW q \in Row
           PROVE  \/ z.sheets[j].cells[q] = y.sheets[j].cells[q]
                  \/ /\ z.sheets[j].cells[q] = v.sheets[j].cells[q]
                     /\ \A k \in 1..Len(f) : f[k] # CellPatch(y, j, q)
      <4>1. CASE j = i /\ q = r
        BY <3>4, <3>6, <3>7, <4>1
      <4>2. CASE ~(j = i /\ q = r)
        <5>1. z.sheets[j].cells[q] = u.sheets[j].cells[q]
          BY <3>6, <3>7, <4>2
        <5>2. p # CellPatch(y, j, q)
          BY <3>4, <4>2 DEF CellPatch
        <5>3. (\A k \in 1..Len(e) : e[k] # CellPatch(y, j, q)) =>
                 \A k \in 1..Len(f) : f[k] # CellPatch(y, j, q)
          <6> SUFFICES ASSUME \A k \in 1..Len(e) : e[k] # CellPatch(y, j, q),
                              NEW k \in 1..Len(f)
                       PROVE  f[k] # CellPatch(y, j, q)
            OBVIOUS
          <6>1. k # 1 => k - 1 \in 1..Len(e) /\ (k - 1) + 1 = k
            BY <2>1
          <6>2. k # 1 => f[k] = e[k - 1]
            BY <2>1, <6>1
          <6> QED
            BY <2>1, <5>2, <6>1, <6>2
        <5>4. \/ u.sheets[j].cells[q] = y.sheets[j].cells[q]
              \/ /\ u.sheets[j].cells[q] = v.sheets[j].cells[q]
                 /\ \A k \in 1..Len(e) : e[k] # CellPatch(y, j, q)
          BY <3>5 DEF Kept
        <5> QED
          BY <5>1, <5>3, <5>4
      <4> QED
        BY <4>1, <4>2
    <3>11. Kept(z, f)
      BY <3>10 DEF Kept
    <3> QED
      BY <3>8, <3>9, <3>11
  <2> HIDE DEF z, Good, Cells1
  <2>4. f \in G
    BY <2>1, <2>2, <2>3
  <2> QED
    BY <2>4 DEF f
<1> HIDE DEF G
<1>3. \A e \in Seq(Patch) : e \in G
  BY <1>1, <1>2, SequencesInduct
<1> QED
  BY <1>3 DEF G

(* The cells that a rewriting touches, recorded before it, take it back.      *)
LEMMA TouchedBack ==
    ASSUME NEW y \in Book, NEW v \in Book, Frame(v, y)
    PROVE  LET e == CellEntry(y, Touched(y, v))
               z == Restore(v, e).wb
           IN e \in Seq(Patch) /\ z \in Book /\ Frame(z, y)
              /\ SameFormats(z, v) /\ SameCells(z, y)
<1> DEFINE places == Touched(y, v)
           e == CellEntry(y, places)
           z == Restore(v, e).wb
<1>1. places \in SUBSET (Ids(y) \X Row)
  BY DEF Touched
<1>2. \A j \in Ids(y), q \in Row :
          <<j, q>> \notin places => v.sheets[j].cells[q] = y.sheets[j].cells[q]
  BY DEF Touched
<1> HIDE DEF places
<1>3. /\ e \in Seq(Patch)
      /\ \A k \in 1..Len(e) : \E j \in Ids(y), q \in Row : e[k] = CellPatch(y, j, q)
      /\ \A j \in Ids(y), q \in Row :
            <<j, q>> \in places => \E k \in 1..Len(e) : e[k] = CellPatch(y, j, q)
  BY <1>1, CellEntryIs
<1> HIDE DEF e
<1>4. /\ Frame(z, y) /\ SameFormats(z, v)
      /\ \A j \in Ids(y), q \in Row :
            \/ z.sheets[j].cells[q] = y.sheets[j].cells[q]
            \/ /\ z.sheets[j].cells[q] = v.sheets[j].cells[q]
               /\ \A k \in 1..Len(e) : e[k] # CellPatch(y, j, q)
  BY <1>3, CellsBack
<1>5. z \in Book
  BY <1>3, RestoreTyped
<1> HIDE DEF z
<1>6. ASSUME NEW j \in Ids(y), NEW q \in Row
      PROVE  z.sheets[j].cells[q] = y.sheets[j].cells[q]
  <2>1. CASE <<j, q>> \in places
    <3>1. \E k \in 1..Len(e) : e[k] = CellPatch(y, j, q)
      BY <1>3, <2>1
    <3> QED
      BY <1>4, <3>1
  <2>2. CASE <<j, q>> \notin places
    <3>1. v.sheets[j].cells[q] = y.sheets[j].cells[q]
      BY <1>2, <2>2
    <3> QED
      BY <1>4, <3>1
  <2> QED
    BY <2>1, <2>2
<1>7. SameCells(z, y)
  BY <1>4, <1>6 DEF SameCells, Frame
<1> QED
  BY <1>3, <1>4, <1>5, <1>7 DEF z, e, places

----------------------------------------------------------------------------
(* What the rewritings do.                                                  *)

(* A workbook with other cells on its sheets, or another name table. *)
PutCells(w, g) ==
    [w EXCEPT !.sheets = [i \in Ids(w) |-> [w.sheets[i] EXCEPT !.cells = g[i]]]]
PutNames(w, x) == [w EXCEPT !.names = x]

(* What writing all cells changes.                                          *)
LEMMA CellsPut ==
    ASSUME NEW w \in Book, NEW g \in [Ids(w) -> [Row -> Content]]
    PROVE  LET v == PutCells(w, g) IN
           /\ v \in Book /\ Frame(v, w) /\ SameFormats(v, w)
           /\ \A j \in Ids(w) : v.sheets[j].cells = g[j]
           /\ \A j \in Ids(w) : v.sheets[j].formats = w.sheets[j].formats
<1> DEFINE t == [i \in Ids(w) |-> [w.sheets[i] EXCEPT !.cells = g[i]]]
           v == PutCells(w, g)
<1>1. v = [sheets |-> t, names |-> w.names]
  BY DEF Book, PutCells
<1>2. \A j \in Ids(w) : /\ t[j] \in Sheet /\ t[j].name = w.sheets[j].name
                        /\ t[j].formats = w.sheets[j].formats /\ t[j].cells = g[j]
  <2> TAKE j \in Ids(w)
  <2> DEFINE s == w.sheets[j]
             u == [s EXCEPT !.cells = g[j]]
  <2>1. s \in Sheet /\ g[j] \in [Row -> Content]
    BY BookFields
  <2>2. t[j] = u
    OBVIOUS
  <2> HIDE DEF s, t
  <2>3. u \in Sheet /\ u.name = s.name /\ u.formats = s.formats /\ u.cells = g[j]
    BY <2>1 DEF Sheet
  <2> QED
    BY <2>2, <2>3 DEF s
<1>3. DOMAIN t = Ids(w) /\ t \in [Ids(w) -> Sheet]
  <2>1. DOMAIN t = Ids(w) /\ t = [i \in Ids(w) |-> t[i]]
    OBVIOUS
  <2> HIDE DEF t
  <2> QED
    BY <1>2, <2>1
<1> HIDE DEF t, v
<1>4. IsSheets(t)
  <2>1. \A j, k \in DOMAIN t : t[j].name = t[k].name => j = k
    BY <1>2, <1>3, BookFields
  <2>2. DOMAIN t \subseteq 1..MaxSheets
    BY <1>3, BookFields
  <2> QED
    BY <1>3, <2>1, <2>2 DEF IsSheets
<1>5. v \in Book
  BY <1>1, <1>4, SheetsAre, BookFields DEF Book
<1>6. Ids(v) = Ids(w) /\ v.names = w.names /\ v.sheets = t
  BY <1>1, <1>3 DEF Ids
<1>7. Frame(v, w)
  BY <1>2, <1>6 DEF Frame
<1>8. SameFormats(v, w)
  BY <1>2, <1>6 DEF SameFormats
<1> QED
  BY <1>2, <1>5, <1>6, <1>7, <1>8 DEF v

(* Writing the name table.                                                   *)
LEMMA NamesPut ==
    ASSUME NEW w \in Book, NEW x \in [Name -> Content]
    PROVE  LET v == PutNames(w, x) IN v \in Book /\ v.sheets = w.sheets /\ v.names = x
<1>1. PutNames(w, x) = [sheets |-> w.sheets, names |-> x]
  BY DEF Book, PutNames
<1> QED
  BY <1>1 DEF Book

(* The fields of a content.                                                 *)
LEMMA ContentFields ==
    /\ \A c \in Content : c.sheet \in SheetName \union {Here} /\ c.row \in Nat
    /\ \A c \in Content, k \in Nat :
          /\ [c EXCEPT !.row = k] \in Content /\ [c EXCEPT !.row = k].row = k
          /\ [c EXCEPT !.row = k].kind = c.kind /\ [c EXCEPT !.row = k].sheet = c.sheet
    /\ \A c \in Content, n \in SheetName \union {Here} :
          /\ [c EXCEPT !.sheet = n] \in Content /\ [c EXCEPT !.sheet = n].sheet = n
          /\ [c EXCEPT !.sheet = n].kind = c.kind /\ [c EXCEPT !.sheet = n].row = c.row
    /\ Blank \in Content /\ Blank.kind = "blank"
    /\ Broken \in Content /\ Broken.kind = "broken"
    /\ \A n \in SheetName \union {Here}, k \in Nat : Ref(n, k) \in Content
BY DEF Content, Blank, Broken, Ref

(* What one formula becomes when what it points at is cut and pasted, when a  *)
(* row is inserted or deleted, and when a name is replaced. *)
MovedContent(w, i, c, sheet, row, d) ==
    IF c.kind = "ref" /\ RefSheet(w, i, c) = sheet /\ c.row = row
    THEN [c EXCEPT !.row = c.row + d] ELSE c

ShiftedContent(w, i, c, sheet, at, insert) ==
    IF c.kind # "ref" \/ RefSheet(w, i, c) # sheet THEN c
    ELSE IF MapIndex(c.row, at, insert) = 0 THEN Broken
    ELSE [c EXCEPT !.row = MapIndex(c.row, at, insert)]

(* Cut and paste moves the references to the cell that was cut.              *)
LEMMA MovedIs ==
    ASSUME NEW w \in Book, NEW sheet, NEW row \in Row, NEW d \in Int, row + d \in Nat
    PROVE  LET v == Moved(w, sheet, row, d) IN
           /\ v \in Book /\ Frame(v, w) /\ SameFormats(v, w)
           /\ \A j \in Ids(w), q \in Row : v.sheets[j].cells[q] =
                 MovedContent(w, j, w.sheets[j].cells[q], sheet, row, d)
<1> DEFINE F(i, c) == MovedContent(w, i, c, sheet, row, d)
           g == [i \in Ids(w) |-> [r \in Row |-> F(i, w.sheets[i].cells[r])]]
<1>1. \A i \in Ids(w), c \in Content : F(i, c) \in Content
  <2> SUFFICES ASSUME NEW i \in Ids(w), NEW c \in Content PROVE F(i, c) \in Content
    OBVIOUS
  <2>1. c.row = row => c.row + d \in Nat
    OBVIOUS
  <2>2. c.row + d \in Nat => [c EXCEPT !.row = c.row + d] \in Content
    BY ContentFields
  <2> QED
    BY <2>1, <2>2 DEF MovedContent
<1>2. \A i \in Ids(w), r \in Row : w.sheets[i].cells[r] \in Content
  BY BookFields
<1>3. Moved(w, sheet, row, d) = PutCells(w, g)
  <2>1. \A i \in Ids(w) : g[i] =
            [r \in Row |-> LET c == w.sheets[i].cells[r] IN
                           IF c.kind = "ref"
                           THEN IF RefSheet(w, i, c) = sheet /\ c.row = row
                                THEN [c EXCEPT !.row = @ + d] ELSE c
                           ELSE c]
    BY DEF MovedContent
  <2> HIDE DEF g
  <2> QED
    BY <2>1 DEF Moved, Rewrite, PutCells
<1> HIDE DEF F
<1>4. /\ g \in [Ids(w) -> [Row -> Content]]
      /\ \A j \in Ids(w), q \in Row : g[j][q] = F(j, w.sheets[j].cells[q])
  BY <1>1, <1>2
<1> HIDE DEF g
<1>5. LET v == PutCells(w, g) IN
      /\ v \in Book /\ Frame(v, w) /\ SameFormats(v, w)
      /\ \A j \in Ids(w) : v.sheets[j].cells = g[j]
  BY <1>4, CellsPut
<1> QED
  BY <1>3, <1>4, <1>5 DEF F

(* A row's insertion or deletion moves the references at and below it.       *)
LEMMA StructuralIs ==
    ASSUME NEW w \in Book, NEW sheet, NEW at \in Row, NEW insert \in BOOLEAN
    PROVE  LET v == Structural(w, sheet, at, insert) IN
           /\ v \in Book /\ Frame(v, w) /\ SameFormats(v, w)
           /\ \A j \in Ids(w), q \in Row : v.sheets[j].cells[q] =
                 ShiftedContent(w, j, w.sheets[j].cells[q], sheet, at, insert)
<1> DEFINE F(i, c) == ShiftedContent(w, i, c, sheet, at, insert)
           g == [i \in Ids(w) |-> [r \in Row |-> F(i, w.sheets[i].cells[r])]]
<1>1. \A i \in Ids(w), c \in Content : F(i, c) \in Content
  <2> SUFFICES ASSUME NEW i \in Ids(w), NEW c \in Content PROVE F(i, c) \in Content
    OBVIOUS
  <2>1. c.row \in Nat
    BY ContentFields
  <2>2. MapIndex(c.row, at, insert) \in Nat
    BY <2>1 DEF MapIndex, Row
  <2>3. [c EXCEPT !.row = MapIndex(c.row, at, insert)] \in Content /\ Broken \in Content
    BY <2>2, ContentFields
  <2> QED
    BY <2>3 DEF ShiftedContent
<1>2. \A i \in Ids(w), r \in Row : w.sheets[i].cells[r] \in Content
  BY BookFields
<1>3. Structural(w, sheet, at, insert) = PutCells(w, g)
  <2>1. \A i \in Ids(w) : g[i] =
            [r \in Row |-> LET c == w.sheets[i].cells[r] IN
                           IF c.kind = "ref"
                           THEN IF RefSheet(w, i, c) # sheet THEN c
                                ELSE IF MapIndex(c.row, at, insert) = 0 THEN Broken
                                ELSE [c EXCEPT !.row = MapIndex(c.row, at, insert)]
                           ELSE c]
    BY DEF ShiftedContent
  <2> HIDE DEF g
  <2> QED
    BY <2>1 DEF Structural, Rewrite, PutCells
<1> HIDE DEF F
<1>4. /\ g \in [Ids(w) -> [Row -> Content]]
      /\ \A j \in Ids(w), q \in Row : g[j][q] = F(j, w.sheets[j].cells[q])
  BY <1>1, <1>2
<1> HIDE DEF g
<1>5. LET v == PutCells(w, g) IN
      /\ v \in Book /\ Frame(v, w) /\ SameFormats(v, w)
      /\ \A j \in Ids(w) : v.sheets[j].cells = g[j]
  BY <1>4, CellsPut
<1> QED
  BY <1>3, <1>4, <1>5 DEF F

(* A sheet's name is replaced in all formulas and in the name table.         *)
LEMMA SheetRefTyped ==
    ASSUME NEW c \in Content, NEW from, NEW to \in SheetName \union {NoSheet}
    PROVE  SheetRef(c, from, to) \in Content
<1>1. to # NoSheet => to \in SheetName \union {Here}
  OBVIOUS
<1> QED
  BY <1>1, ContentFields DEF SheetRef

LEMMA RewriteSheetRefsIs ==
    ASSUME NEW w \in Book, NEW from, NEW to \in SheetName \union {NoSheet}
    PROVE  LET v == RewriteSheetRefs(w, from, to) IN
           /\ v \in Book /\ Ids(v) = Ids(w)
           /\ \A j \in Ids(w) :
                 /\ v.sheets[j].name = w.sheets[j].name
                 /\ \A q \in Row :
                       v.sheets[j].cells[q] = SheetRef(w.sheets[j].cells[q], from, to)
           /\ \A x \in Name : v.names[x] = SheetRef(w.names[x], from, to)
<1> DEFINE g == [i \in Ids(w) |-> [r \in Row |-> SheetRef(w.sheets[i].cells[r], from, to)]]
           x == [n \in Name |-> SheetRef(w.names[n], from, to)]
           u == PutCells(w, g)
<1>1. \A i \in Ids(w), r \in Row : w.sheets[i].cells[r] \in Content
  BY BookFields
<1>2. RewriteSheetRefs(w, from, to) = PutNames(u, x)
  <2>1. \A i \in Ids(w) : g[i] =
            [r \in Row |-> LET c == w.sheets[i].cells[r] IN
                           IF c.kind = "ref" THEN SheetRef(c, from, to) ELSE c]
    BY DEF SheetRef
  <2> HIDE DEF g, x
  <2>2. Rewrite(w, LAMBDA i, c : SheetRef(c, from, to)) = u
    BY <2>1 DEF Rewrite, PutCells
  <2> QED
    BY <2>2 DEF RewriteSheetRefs, PutNames, x
<1>3. /\ g \in [Ids(w) -> [Row -> Content]]
      /\ \A j \in Ids(w), q \in Row : g[j][q] = SheetRef(w.sheets[j].cells[q], from, to)
  BY <1>1, SheetRefTyped
<1>4. x \in [Name -> Content] /\ \A n \in Name : x[n] = SheetRef(w.names[n], from, to)
  BY BookFields, SheetRefTyped
<1> HIDE DEF g, x
<1>5. /\ u \in Book /\ Frame(u, w) /\ \A j \in Ids(w) : u.sheets[j].cells = g[j]
  BY <1>3, CellsPut
<1> HIDE DEF u
<1>6. LET v == PutNames(u, x) IN v \in Book /\ v.sheets = u.sheets /\ v.names = x
  BY <1>4, <1>5, NamesPut
<1> QED
  BY <1>2, <1>3, <1>4, <1>5, <1>6 DEF Frame, Ids

(* What a reference points at depends on the sheets' names alone.            *)
LEMMA RefSheetFrame ==
    ASSUME NEW v \in Book, NEW w \in Book, Ids(v) = Ids(w),
           \A j \in Ids(w) : v.sheets[j].name = w.sheets[j].name
    PROVE  \A i, c : RefSheet(v, i, c) = RefSheet(w, i, c)
<1>1. \A n : HasSheet(v, n) <=> HasSheet(w, n)
  BY DEF HasSheet
<1>2. \A n : SheetByName(v, n) = SheetByName(w, n)
  <2> TAKE n
  <2>1. \A j \in Ids(w) : v.sheets[j].name = n <=> w.sheets[j].name = n
    OBVIOUS
  <2> QED
    BY <2>1 DEF SheetByName
<1> QED
  BY <1>1, <1>2 DEF RefSheet

(* A sheet renamed, and the references to it with it. *)
Renamed(w, i, n) == [RewriteSheetRefs(w, w.sheets[i].name, n) EXCEPT !.sheets[i].name = n]

LEMMA RenamedIs ==
    ASSUME NEW w \in Book, NEW i \in Ids(w), NEW n \in SheetName,
           n # w.sheets[i].name => ~HasSheet(w, n)
    PROVE  LET v == Renamed(w, i, n)
               from == w.sheets[i].name
           IN
           /\ v \in Book /\ Ids(v) = Ids(w)
           /\ \A j \in Ids(w) :
                 /\ v.sheets[j].name = IF j = i THEN n ELSE w.sheets[j].name
                 /\ \A q \in Row :
                       v.sheets[j].cells[q] = SheetRef(w.sheets[j].cells[q], from, n)
           /\ v.names = RewriteSheetRefs(w, from, n).names
           /\ \A x \in Name : v.names[x] = SheetRef(w.names[x], from, n)
<1> DEFINE from == w.sheets[i].name
           u == RewriteSheetRefs(w, from, n)
           s == [u.sheets[i] EXCEPT !.name = n]
           t == [u.sheets EXCEPT ![i] = s]
           v == Renamed(w, i, n)
<1>1. /\ u \in Book /\ Ids(u) = Ids(w)
      /\ \A j \in Ids(w) :
            /\ u.sheets[j].name = w.sheets[j].name
            /\ \A q \in Row : u.sheets[j].cells[q] = SheetRef(w.sheets[j].cells[q], from, n)
      /\ \A x \in Name : u.names[x] = SheetRef(w.names[x], from, n)
  BY RewriteSheetRefsIs
<1> HIDE DEF u
<1>2. v = [sheets |-> t, names |-> u.names]
  BY <1>1 DEF Book, Renamed, u
<1>3. s \in Sheet /\ s.name = n /\ s.cells = u.sheets[i].cells
  <2>1. u.sheets[i] \in Sheet
    BY <1>1, BookFields
  <2> QED
    BY <2>1 DEF Sheet
<1> HIDE DEF s
<1>4. /\ DOMAIN t = Ids(w) /\ t[i] = s /\ t \in [Ids(w) -> Sheet]
      /\ \A j \in Ids(w) : j # i => t[j] = u.sheets[j]
  BY <1>1, <1>3, BookFields
<1> HIDE DEF t, v
<1>5. \A j \in Ids(w) : t[j].name = IF j = i THEN n ELSE w.sheets[j].name
  BY <1>1, <1>3, <1>4
<1>6. \A j \in Ids(w) : j # i => n # w.sheets[j].name
  <2> SUFFICES ASSUME NEW j \in Ids(w), j # i, n = w.sheets[j].name PROVE FALSE
    OBVIOUS
  <2>1. HasSheet(w, n)
    BY DEF HasSheet
  <2>2. n = w.sheets[i].name
    BY <2>1
  <2> QED
    BY <2>2, BookFields
<1>7. IsSheets(t)
  <2>1. ASSUME NEW j \in DOMAIN t, NEW k \in DOMAIN t, t[j].name = t[k].name PROVE j = k
    <3>1. j \in Ids(w) /\ k \in Ids(w)
      BY <1>4
    <3> QED
      BY <1>5, <1>6, <2>1, <3>1, BookFields
  <2>2. DOMAIN t \subseteq 1..MaxSheets
    BY <1>4, BookFields
  <2> QED
    BY <1>4, <2>1, <2>2 DEF IsSheets
<1>8. v \in Book
  BY <1>1, <1>2, <1>7, SheetsAre, BookFields DEF Book
<1>9. v.sheets = t /\ v.names = u.names /\ Ids(v) = Ids(w)
  BY <1>2, <1>4 DEF Ids
<1>10. \A j \in Ids(w), q \in Row :
           v.sheets[j].cells[q] = SheetRef(w.sheets[j].cells[q], from, n)
  BY <1>1, <1>3, <1>4, <1>9
<1> QED
  BY <1>1, <1>5, <1>8, <1>9, <1>10 DEF v, u

(* A sheet deleted, and the references to it with it. *)
Dropped(w, i) ==
    LET u == RewriteSheetRefs(w, w.sheets[i].name, NoSheet) IN
    [u EXCEPT !.sheets = [k \in Ids(u) \ {i} |-> u.sheets[k]]]

LEMMA DroppedIs ==
    ASSUME NEW w \in Book, NEW i \in Ids(w)
    PROVE  LET v == Dropped(w, i)
               from == w.sheets[i].name
           IN
           /\ v \in Book /\ Ids(v) = Ids(w) \ {i}
           /\ \A j \in Ids(w) \ {i} :
                 /\ v.sheets[j].name = w.sheets[j].name
                 /\ \A q \in Row :
                       v.sheets[j].cells[q] = SheetRef(w.sheets[j].cells[q], from, NoSheet)
           /\ v.names = RewriteSheetRefs(w, from, NoSheet).names
           /\ \A x \in Name : v.names[x] = SheetRef(w.names[x], from, NoSheet)
<1> DEFINE from == w.sheets[i].name
           u == RewriteSheetRefs(w, from, NoSheet)
           t == [k \in Ids(u) \ {i} |-> u.sheets[k]]
           v == Dropped(w, i)
<1>1. /\ u \in Book /\ Ids(u) = Ids(w)
      /\ \A j \in Ids(w) :
            /\ u.sheets[j].name = w.sheets[j].name
            /\ \A q \in Row :
                  u.sheets[j].cells[q] = SheetRef(w.sheets[j].cells[q], from, NoSheet)
      /\ \A x \in Name : u.names[x] = SheetRef(w.names[x], from, NoSheet)
  BY RewriteSheetRefsIs
<1> HIDE DEF u
<1>2. v = [sheets |-> t, names |-> u.names]
  <2>1. v = [u EXCEPT !.sheets = t]
    BY DEF Dropped, u
  <2> HIDE DEF v, t
  <2> QED
    BY <1>1, <2>1 DEF Book
<1>3. DOMAIN t = Ids(w) \ {i} /\ \A j \in Ids(w) \ {i} : t[j] = u.sheets[j]
  BY <1>1
<1>4. t \in [Ids(w) \ {i} -> Sheet]
  BY <1>1, BookFields
<1> HIDE DEF t, v
<1>5. IsSheets(t)
  <2>1. ASSUME NEW j \in DOMAIN t, NEW k \in DOMAIN t, t[j].name = t[k].name PROVE j = k
    <3>1. j \in Ids(u) /\ k \in Ids(u) /\ u.sheets[j].name = u.sheets[k].name
      BY <1>1, <1>3, <2>1
    <3> QED
      BY <1>1, <3>1, BookFields
  <2>2. DOMAIN t \subseteq 1..MaxSheets
    BY <1>3, BookFields
  <2> QED
    BY <1>3, <1>4, <2>1, <2>2 DEF IsSheets
<1>6. v \in Book
  BY <1>1, <1>2, <1>5, SheetsAre, BookFields DEF Book
<1>7. v.sheets = t /\ v.names = u.names /\ Ids(v) = Ids(w) \ {i}
  BY <1>2, <1>3 DEF Ids
<1> QED
  BY <1>1, <1>3, <1>6, <1>7 DEF v, u

(* A sheet added. *)
Added(w, id, n) ==
    [w EXCEPT !.sheets = [i \in Ids(w) \union {id} |->
                            IF i = id THEN EmptySheet(n) ELSE w.sheets[i]]]

LEMMA AddedIs ==
    ASSUME NEW w \in Book, NEW id \in 1..MaxSheets, NEW n \in SheetName, ~HasSheet(w, n)
    PROVE  Added(w, id, n) \in Book /\ Added(w, id, n).names = w.names
<1> DEFINE s == EmptySheet(n)
           t == [k \in Ids(w) \union {id} |-> IF k = id THEN s ELSE w.sheets[k]]
           v == Added(w, id, n)
<1>1. s \in Sheet /\ s.name = n
  BY ContentFields DEF EmptySheet, Sheet
<1>2. v = [sheets |-> t, names |-> w.names]
  BY DEF Added, Book
<1> HIDE DEF s
<1>3. t = [k \in Ids(w) \union {id} |-> IF k = id THEN s ELSE w.sheets[k]]
  OBVIOUS
<1> HIDE DEF t, v
<1>4. DOMAIN t = Ids(w) \union {id} /\ t \in [Ids(w) \union {id} -> Sheet]
  BY <1>1, <1>3, BookFields
<1>5. t[id] = s /\ \A k \in Ids(w) : k # id => t[k] = w.sheets[k]
  BY <1>3
<1>6. \A k \in Ids(w) : w.sheets[k].name # n
  BY DEF HasSheet
<1>7. IsSheets(t)
  <2>1. ASSUME NEW j \in DOMAIN t, NEW k \in DOMAIN t, t[j].name = t[k].name PROVE j = k
    BY <1>1, <1>4, <1>5, <1>6, <2>1, BookFields
  <2>2. DOMAIN t \subseteq 1..MaxSheets
    BY <1>4, BookFields
  <2> QED
    BY <1>4, <2>1, <2>2 DEF IsSheets
<1>8. v \in Book
  BY <1>2, <1>7, SheetsAre, BookFields DEF Book
<1> QED
  BY <1>2, <1>8 DEF v

(* A row inserted or deleted: where its rows come from, and the sheet after. *)
Origins(r, at, insert) == {o \in Row : MapIndex(o, at, insert) = r}

ShiftedSheet(s, at, insert) ==
    [s EXCEPT
        !.cells = [r \in Row |-> IF Origins(r, at, insert) = {} THEN Blank
                                 ELSE s.cells[CHOOSE o \in Origins(r, at, insert) : TRUE]],
        !.formats = {r \in Row : Origins(r, at, insert) \intersect s.formats # {}}]

(* No two rows go to one row of the sheet.                                   *)
LEMMA MapIndexInjective ==
    ASSUME NEW at \in Row, NEW insert \in BOOLEAN, NEW o \in Nat, NEW p \in Nat,
           MapIndex(o, at, insert) = MapIndex(p, at, insert),
           MapIndex(o, at, insert) # 0
    PROVE  o = p
<1>1. at \in Nat
  BY DEF Row
<1> QED
  BY <1>1 DEF MapIndex

LEMMA ShiftedIs ==
    ASSUME NEW w \in Book, NEW i \in Ids(w), NEW at \in Row, NEW insert \in BOOLEAN
    PROVE  LET v == Structural(PutSheet(w, i, ShiftedSheet(w.sheets[i], at, insert)),
                               i, at, insert)
           IN
           /\ v \in Book /\ Frame(v, w)
           /\ \A j \in Ids(w) \ {i}, q \in Row : v.sheets[j].cells[q] =
                 ShiftedContent(w, j, w.sheets[j].cells[q], i, at, insert)
           /\ \A o \in Row : MapIndex(o, at, insert) \in Row =>
                 v.sheets[i].cells[MapIndex(o, at, insert)] =
                    ShiftedContent(w, i, w.sheets[i].cells[o], i, at, insert)
<1> DEFINE s == w.sheets[i]
           t == ShiftedSheet(s, at, insert)
           u == PutSheet(w, i, t)
           v == Structural(u, i, at, insert)
           From(r) == Origins(r, at, insert)
           From1(r) == CHOOSE o \in From(r) : TRUE
           cells == [r \in Row |-> IF From(r) = {} THEN Blank ELSE s.cells[From1(r)]]
           formats == {r \in Row : From(r) \intersect s.formats # {}}
<1>1. s \in Sheet /\ s.cells \in [Row -> Content] /\ s = w.sheets[i]
  BY BookFields
<1>2. \A r \in Row : From(r) \subseteq Row /\ (From(r) # {} => From1(r) \in From(r))
  BY DEF Origins
<1> HIDE DEF s, From1
<1>3. cells \in [Row -> Content]
  <2>1. \A r \in Row : (IF From(r) = {} THEN Blank ELSE s.cells[From1(r)]) \in Content
    <3> TAKE r \in Row
    <3>1. CASE From(r) = {}
      BY <3>1, ContentFields
    <3>2. CASE From(r) # {}
      <4>1. From1(r) \in Row
        BY <1>2, <3>2
      <4> QED
        BY <1>1, <3>2, <4>1
    <3> QED
      BY <3>1, <3>2
  <2> QED
    BY <2>1
<1>4. t = [s EXCEPT !.cells = cells, !.formats = formats]
  BY DEF ShiftedSheet, From1
<1>5. \A o \in Row : MapIndex(o, at, insert) \in Row =>
          cells[MapIndex(o, at, insert)] = s.cells[o]
  <2> SUFFICES ASSUME NEW o \in Row, MapIndex(o, at, insert) \in Row
               PROVE  cells[MapIndex(o, at, insert)] = s.cells[o]
    OBVIOUS
  <2> DEFINE r == MapIndex(o, at, insert)
  <2>1. o \in From(r) /\ r \in Row
    BY DEF Origins
  <2>2. r # 0
    BY <2>1 DEF Row
  <2>3. From1(r) \in From(r)
    BY <1>2, <2>1
  <2>4. From1(r) \in Row /\ MapIndex(From1(r), at, insert) = r
    BY <2>3 DEF Origins
  <2>5. From1(r) = o
    <3>1. From1(r) \in Nat /\ o \in Nat
      BY <2>4 DEF Row
    <3>2. MapIndex(From1(r), at, insert) = MapIndex(o, at, insert)
      BY <2>4
    <3>3. MapIndex(From1(r), at, insert) # 0
      BY <2>2, <2>4
    <3> HIDE DEF r
    <3> QED
      BY <3>1, <3>2, <3>3, MapIndexInjective
  <2> HIDE DEF r
  <2>6. cells[r] = s.cells[From1(r)]
    BY <2>1
  <2> QED
    BY <2>5, <2>6 DEF r
<1> HIDE DEF cells
<1>6. t \in Sheet /\ t.name = s.name /\ t.cells = cells
  <2>1. formats \in SUBSET Row
    OBVIOUS
  <2> HIDE DEF formats
  <2> QED
    BY <1>1, <1>3, <1>4, <2>1 DEF Sheet
<1> HIDE DEF t
<1>7. /\ u \in Book /\ Ids(u) = Ids(w) /\ u.names = w.names /\ u.sheets[i] = t
      /\ \A j \in Ids(w) : j # i => u.sheets[j] = w.sheets[j]
  BY <1>1, <1>6, SheetPut
<1> HIDE DEF u
<1>8. \A j \in Ids(w) : u.sheets[j].name = w.sheets[j].name
  BY <1>1, <1>6, <1>7
<1>9. \A j, c : ShiftedContent(u, j, c, i, at, insert) = ShiftedContent(w, j, c, i, at, insert)
  BY <1>7, <1>8, RefSheetFrame DEF ShiftedContent
<1>10. /\ v \in Book /\ Frame(v, u)
       /\ \A j \in Ids(u), q \in Row : v.sheets[j].cells[q] =
             ShiftedContent(u, j, u.sheets[j].cells[q], i, at, insert)
  BY <1>7, StructuralIs
<1> HIDE DEF v
<1>11. Frame(v, w)
  BY <1>7, <1>8, <1>10 DEF Frame
<1>12. \A j \in Ids(w) \ {i}, q \in Row : v.sheets[j].cells[q] =
             ShiftedContent(w, j, w.sheets[j].cells[q], i, at, insert)
  BY <1>7, <1>9, <1>10
<1>13. \A o \in Row : MapIndex(o, at, insert) \in Row =>
             v.sheets[i].cells[MapIndex(o, at, insert)] =
                ShiftedContent(w, i, s.cells[o], i, at, insert)
  BY <1>5, <1>6, <1>7, <1>9, <1>10
<1> QED
  BY <1>1, <1>10, <1>11, <1>12, <1>13 DEF v, u, t

----------------------------------------------------------------------------
(* Each operation's entry takes it back.                                    *)

(* Restoring entry e in v, which an operation made of w, brings w back. *)
TakesBack(names, w, e, v) ==
    v \in Book /\ e \in Seq(Patch) /\ Alike(names, Restore(v, e).wb, w)

(* Typing into a cell.                                                      *)
LEMMA CellEditBack ==
    ASSUME NEW w \in Book, NEW i \in Ids(w), NEW r \in Row, NEW c \in Content
    PROVE  TakesBack(TRUE, w, <<CellPatch(w, i, r)>>, PutCell(w, i, r, c))
<1> DEFINE v == PutCell(w, i, r, c)
           p == CellPatch(w, i, r)
           z == Swap(v, p).wb
<1>1. /\ v \in Book /\ Frame(v, w) /\ SameFormats(v, w)
      /\ \A j \in Ids(w), q \in Row :
            ~(j = i /\ q = r) => v.sheets[j].cells[q] = w.sheets[j].cells[q]
  BY CellPut DEF Frame, SameFormats
<1> HIDE DEF v
<1>2. z \in Book /\ Frame(z, w) /\ SameFormats(z, v) /\ SameCells(z, w)
  BY <1>1, CellBack
<1>3. p \in Patch
  BY PatchesTyped
<1> HIDE DEF z, p
<1>4. SameFormats(z, w)
  BY <1>1, <1>2 DEF SameFormats, Frame
<1>5. z = w
  BY <1>2, <1>4, AllSame
<1>6. <<p>> \in Seq(Patch) /\ Restore(v, <<p>>).wb = z
  BY <1>1, <1>3, RestoreSingle DEF z
<1>7. TakesBack(TRUE, w, <<p>>, v)
  BY <1>1, <1>5, <1>6 DEF TakesBack, Alike
<1> QED
  BY <1>7 DEF v, p

(* Making a row bold.                                                       *)
LEMMA FormatApplyBack ==
    ASSUME NEW w \in Book, NEW i \in Ids(w), NEW r \in Row
    PROVE  TakesBack(TRUE, w, FormatEntry(w, i, r, TRUE),
                     PutFormats(w, i, w.sheets[i].formats \union {r}))
<1> DEFINE f == w.sheets[i].formats \union {r}
           v == PutFormats(w, i, f)
           e == FormatEntry(w, i, r, TRUE)
           z == Restore(v, e).wb
<1>1. f \in SUBSET Row /\ \A q \in Row : q # r => (q \in f <=> q \in w.sheets[i].formats)
  BY BookFields
<1>2. r \in f
  OBVIOUS
<1> HIDE DEF f
<1>3. /\ v \in Book /\ Ids(v) = Ids(w) /\ v.names = w.names /\ v.sheets[i].formats = f
      /\ \A j \in Ids(w) :
            /\ v.sheets[j].name = w.sheets[j].name
            /\ j # i => v.sheets[j].formats = w.sheets[j].formats
            /\ v.sheets[j].cells = w.sheets[j].cells
  BY <1>1, FormatsPut
<1> HIDE DEF v
<1>4. Frame(v, w) /\ SameCells(v, w)
  BY <1>3 DEF Frame, SameCells
<1>5. \A j \in Ids(w), q \in Row :
          ~(j = i /\ q = r) => (q \in v.sheets[j].formats <=> q \in w.sheets[j].formats)
  BY <1>1, <1>3
<1>6. r \in v.sheets[i].formats <=> TRUE
  BY <1>2, <1>3
<1>7. e \in Seq(Patch) /\ z \in Book /\ Frame(z, w) /\ SameCells(z, v) /\ SameFormats(z, w)
  BY <1>3, <1>4, <1>5, <1>6, FormatEntryBack
<1> HIDE DEF e, z
<1>8. SameCells(z, w)
  BY <1>4, <1>7 DEF SameCells, Frame
<1>9. z = w
  BY <1>7, <1>8, AllSame
<1>10. TakesBack(TRUE, w, e, v)
  BY <1>3, <1>7, <1>9 DEF TakesBack, Alike, z
<1> QED
  BY <1>10 DEF e, v, f

(* Copy and paste.                                                          *)
LEMMA PasteBack ==
    ASSUME NEW w \in Book, NEW j \in Ids(w), NEW q \in Row, NEW c \in Content,
           NEW bold \in BOOLEAN
    PROVE  TakesBack(TRUE, w, <<CellPatch(w, j, q)>> \o FormatEntry(w, j, q, bold),
                     PutRow(w, j, q, c, bold))
<1> DEFINE v == PutRow(w, j, q, c, bold)
           p == CellPatch(w, j, q)
           e == FormatEntry(w, j, q, bold)
           u == Restore(v, e).wb
           z == Swap(u, p).wb
<1>1. /\ v \in Book /\ Frame(v, w)
      /\ \A k \in Ids(w), r \in Row :
            /\ v.sheets[k].cells[r] = IF k = j /\ r = q THEN c ELSE w.sheets[k].cells[r]
            /\ ~(k = j /\ r = q) =>
                    (r \in v.sheets[k].formats <=> r \in w.sheets[k].formats)
      /\ q \in v.sheets[j].formats <=> bold
  BY RowPut
<1> HIDE DEF v
<1>2. e \in Seq(Patch) /\ u \in Book /\ Frame(u, w) /\ SameCells(u, v) /\ SameFormats(u, w)
  BY <1>1, FormatEntryBack
<1> HIDE DEF e, u
<1>3. \A k \in Ids(w), r \in Row :
          ~(k = j /\ r = q) => u.sheets[k].cells[r] = w.sheets[k].cells[r]
  BY <1>1, <1>2 DEF SameCells, Frame
<1>4. z \in Book /\ Frame(z, w) /\ SameFormats(z, u) /\ SameCells(z, w)
  BY <1>2, <1>3, CellBack
<1>5. p \in Patch
  BY PatchesTyped
<1> HIDE DEF p, z
<1>6. SameFormats(z, w)
  BY <1>2, <1>4 DEF SameFormats, Frame
<1>7. z = w
  BY <1>4, <1>6, AllSame
<1>8. Restore(v, <<p>> \o e).wb = z
  BY <1>1, <1>2, <1>5, RestoreCons DEF z, u
<1>9. <<p>> \o e \in Seq(Patch)
  BY <1>2, <1>5, ConsProperties
<1>10. TakesBack(TRUE, w, <<p>> \o e, v)
  BY <1>1, <1>7, <1>8, <1>9 DEF TakesBack, Alike
<1> QED
  BY <1>10 DEF v, e, p

(* Cut and paste.                                                           *)
LEMMA CutPasteBack ==
    ASSUME NEW w \in Book, NEW i \in Ids(w), NEW j \in Ids(w), NEW r \in Row, NEW q \in Row,
           NEW c \in Content, NEW bold \in BOOLEAN
    PROVE  LET emptied == PutRow(w, i, r, Blank, FALSE)
               written == PutRow(emptied, j, q, c, bold)
               moved == Moved(written, i, r, q - r)
           IN TakesBack(TRUE, w,
                <<CellPatch(w, i, r), CellPatch(emptied, j, q)>>
                    \o CellEntry(written, Touched(written, moved))
                    \o <<FormatPatch(w, i, r)>> \o FormatEntry(emptied, j, q, bold),
                moved)
<1> DEFINE emptied == PutRow(w, i, r, Blank, FALSE)
           written == PutRow(emptied, j, q, c, bold)
           moved == Moved(written, i, r, q - r)
           first == CellPatch(w, i, r)
           second == CellPatch(emptied, j, q)
           touched == CellEntry(written, Touched(written, moved))
           third == FormatPatch(w, i, r)
           fourth == FormatEntry(emptied, j, q, bold)
<1>1. /\ emptied \in Book /\ Frame(emptied, w)
      /\ \A k \in Ids(w), o \in Row :
            ~(k = i /\ o = r) =>
                /\ emptied.sheets[k].cells[o] = w.sheets[k].cells[o]
                /\ o \in emptied.sheets[k].formats <=> o \in w.sheets[k].formats
  <2>1. Blank \in Content /\ FALSE \in BOOLEAN
    BY ContentFields
  <2>2. /\ emptied \in Book /\ Frame(emptied, w)
        /\ \A k \in Ids(w), o \in Row :
              /\ emptied.sheets[k].cells[o] =
                    IF k = i /\ o = r THEN Blank ELSE w.sheets[k].cells[o]
              /\ ~(k = i /\ o = r) =>
                    (o \in emptied.sheets[k].formats <=> o \in w.sheets[k].formats)
    BY <2>1, RowPut
  <2> HIDE DEF emptied
  <2> QED
    BY <2>2
<1> HIDE DEF emptied
<1>2. Ids(emptied) = Ids(w) /\ j \in Ids(emptied)
  BY <1>1 DEF Frame
<1>3. /\ written \in Book /\ Frame(written, emptied)
      /\ \A k \in Ids(w), o \in Row :
            ~(k = j /\ o = q) =>
                /\ written.sheets[k].cells[o] = emptied.sheets[k].cells[o]
                /\ o \in written.sheets[k].formats <=> o \in emptied.sheets[k].formats
      /\ q \in written.sheets[j].formats <=> bold
  BY <1>1, <1>2, RowPut
<1> HIDE DEF written
<1>4. moved \in Book /\ Frame(moved, written) /\ SameFormats(moved, written)
  <2>1. r \in Nat /\ q \in Nat /\ q - r \in Int /\ r + (q - r) = q
    BY DEF Row
  <2> QED
    BY <1>3, <2>1, MovedIs
<1> HIDE DEF moved
<1>5. Ids(written) = Ids(w) /\ Ids(moved) = Ids(w)
  BY <1>2, <1>3, <1>4 DEF Frame
<1>6. Frame(moved, emptied)
  BY <1>3, <1>4, FrameTransitive
(* The format that was pasted over, *)
<1> DEFINE z1 == Restore(moved, fourth).wb
<1>7. /\ fourth \in Seq(Patch) /\ z1 \in Book /\ Frame(z1, emptied)
      /\ SameCells(z1, moved) /\ SameFormats(z1, emptied)
  <2>1. \A k \in Ids(emptied), o \in Row : ~(k = j /\ o = q) =>
            (o \in moved.sheets[k].formats <=> o \in emptied.sheets[k].formats)
    BY <1>2, <1>3, <1>4, <1>5 DEF SameFormats
  <2>2. q \in moved.sheets[j].formats <=> q \in written.sheets[j].formats
    BY <1>2, <1>4, <1>5 DEF SameFormats
  <2>3. q \in moved.sheets[j].formats <=> bold
    <3>1. q \in written.sheets[j].formats <=> bold
      BY <1>3
    <3> QED
      BY <2>2, <3>1, Zenon
  <2> QED
    BY <1>1, <1>2, <1>4, <1>6, <2>1, <2>3, FormatEntryBack
<1> HIDE DEF fourth, z1
(* the format that was cut, *)
<1> DEFINE z2 == Swap(z1, third).wb
<1>8. /\ third \in Patch /\ z2 \in Book /\ Frame(z2, w)
      /\ SameCells(z2, z1) /\ SameFormats(z2, w)
  <2>1. Frame(z1, w)
    BY <1>1, <1>7, FrameTransitive
  <2>2. \A k \in Ids(w), o \in Row : ~(k = i /\ o = r) =>
            (o \in z1.sheets[k].formats <=> o \in w.sheets[k].formats)
    <3> TAKE k \in Ids(w), o \in Row
    <3> HAVE ~(k = i /\ o = r)
    <3>1. o \in emptied.sheets[k].formats <=> o \in w.sheets[k].formats
      BY <1>1
    <3>2. o \in z1.sheets[k].formats <=> o \in emptied.sheets[k].formats
      BY <1>2, <1>7 DEF SameFormats, Frame
    <3> QED
      BY <3>1, <3>2
  <2> QED
    BY <1>7, <2>1, <2>2, FormatBack, PatchesTyped
<1> HIDE DEF third, z2
(* the formulas that were rewritten, *)
<1> DEFINE z3 == Restore(z2, touched).wb
<1>9. /\ touched \in Seq(Patch) /\ z3 \in Book /\ Frame(z3, written)
      /\ SameCells(z3, written) /\ SameFormats(z3, z2)
  <2>1. SameCells(z2, moved)
    BY <1>2, <1>7, <1>8 DEF SameCells, Frame
  <2>2. Frame(z2, written)
    <3>1. Frame(written, w)
      BY <1>1, <1>3, FrameTransitive
    <3> QED
      BY <1>8, <3>1 DEF Frame
  <2>3. Touched(written, z2) = Touched(written, moved)
    <3>1. \A k \in Ids(written), o \in Row :
              z2.sheets[k].cells[o] = moved.sheets[k].cells[o]
      BY <2>1, <2>2 DEF SameCells, Frame
    <3> QED
      BY <3>1 DEF Touched
  <2> QED
    BY <1>3, <1>8, <2>2, <2>3, TouchedBack
<1> HIDE DEF touched, z3
(* what was pasted over, *)
<1> DEFINE z4 == Swap(z3, second).wb
<1>10. /\ second \in Patch /\ z4 \in Book /\ Frame(z4, emptied)
       /\ SameFormats(z4, z3) /\ SameCells(z4, emptied)
  <2>1. Frame(z3, emptied)
    BY <1>3, <1>9, FrameTransitive
  <2>2. \A k \in Ids(emptied), o \in Row : ~(k = j /\ o = q) =>
            z3.sheets[k].cells[o] = emptied.sheets[k].cells[o]
    BY <1>2, <1>3, <1>9, <2>1 DEF SameCells, Frame
  <2> QED
    BY <1>1, <1>2, <1>9, <2>1, <2>2, CellBack, PatchesTyped
<1> HIDE DEF second, z4
(* and what was cut are back.                                               *)
<1> DEFINE z5 == Swap(z4, first).wb
<1>11. /\ first \in Patch /\ z5 \in Book /\ Frame(z5, w)
       /\ SameFormats(z5, z4) /\ SameCells(z5, w)
  <2>1. Frame(z4, w)
    BY <1>1, <1>10, FrameTransitive
  <2>2. \A k \in Ids(w), o \in Row : ~(k = i /\ o = r) =>
            z4.sheets[k].cells[o] = w.sheets[k].cells[o]
    BY <1>1, <1>10, <2>1 DEF SameCells, Frame
  <2> QED
    BY <1>10, <2>1, <2>2, CellBack, PatchesTyped
<1> HIDE DEF first, z5
<1>12. SameFormats(z5, w)
  <2>1. Ids(z5) = Ids(w) /\ Ids(z4) = Ids(w) /\ Ids(z3) = Ids(w)
    BY <1>2, <1>3, <1>5, <1>9, <1>10, <1>11 DEF Frame
  <2>2. SameFormats(z4, z2)
    BY <1>9, <1>10, <2>1, SameFormatsTransitive
  <2>3. SameFormats(z5, z2)
    BY <1>11, <2>1, <2>2, SameFormatsTransitive
  <2>4. SameFormats(z2, w) /\ Ids(z2) = Ids(w)
    BY <1>8 DEF Frame
  <2> QED
    BY <2>1, <2>3, <2>4, SameFormatsTransitive
<1>13. z5 = w
  BY <1>11, <1>12, AllSame
<1> DEFINE ones == <<first, second>>
           format == <<third>>
<1>14. ones \in Seq(Patch) /\ Restore(z3, ones).wb = z5
  <2> DEFINE one == <<second>>
  <2>1. one \in Seq(Patch) /\ Restore(z3, one).wb = z4
    BY <1>9, <1>10, RestoreSingle DEF z4
  <2>2. ones = <<first>> \o one
    BY <1>10, <1>11, PairIsCons
  <2> HIDE DEF one, ones
  <2>3. Restore(z3, <<first>> \o one).wb = Swap(z4, first).wb
    BY <1>9, <1>11, <2>1, RestoreCons
  <2>4. <<first>> \o one \in Seq(Patch)
    BY <1>11, <2>1, ConsProperties
  <2> QED
    BY <2>2, <2>3, <2>4 DEF z5
<1>15. format \in Seq(Patch) /\ Restore(z1, format).wb = z2
  BY <1>7, <1>8, RestoreSingle DEF z2
<1> HIDE DEF ones, format
<1>16. /\ ones \o touched \in Seq(Patch) /\ ones \o touched \o format \in Seq(Patch)
       /\ ones \o touched \o format \o fourth \in Seq(Patch)
  BY <1>7, <1>9, <1>14, <1>15, ConcatProperties
<1>17. Restore(z2, ones \o touched).wb = z5
  BY <1>8, <1>9, <1>14, RestoreConcat DEF z3
<1>18. Restore(z1, (ones \o touched) \o format).wb = z5
  BY <1>7, <1>15, <1>16, <1>17, RestoreConcat
<1>19. Restore(moved, ((ones \o touched) \o format) \o fourth).wb = z5
  BY <1>4, <1>7, <1>16, <1>18, RestoreConcat DEF z1
<1>20. TakesBack(TRUE, w, ((ones \o touched) \o format) \o fourth, moved)
  BY <1>4, <1>13, <1>16, <1>19 DEF TakesBack, Alike
<1> QED
  BY <1>20 DEF ones, format, first, second, third, fourth, touched, moved, written, emptied

(* What changes the sheets.                                                 *)
LEMMA SheetsBack ==
    ASSUME NEW w \in Book, NEW v \in Book, NEW names \in BOOLEAN,
           names => v.names = w.names
    PROVE  TakesBack(names, w, <<SheetsPatch(w)>>, v)
<1> DEFINE p == SheetsPatch(w)
           z == Swap(v, p).wb
<1>1. p \in SheetsPatches /\ p.was = w.sheets
  BY DEF SheetsPatch, SheetsPatches, Book
<1>2. p \in Patch
  BY <1>1 DEF Patch
<1> HIDE DEF p
<1>3. z.names = v.names /\ z.sheets = w.sheets
  BY <1>1, SwapSheets
<1>4. <<p>> \in Seq(Patch) /\ Restore(v, <<p>>).wb = z
  BY <1>2, RestoreSingle
<1> HIDE DEF z
<1>5. TakesBack(names, w, <<p>>, v)
  BY <1>3, <1>4 DEF TakesBack, Alike
<1> QED
  BY <1>5 DEF p

(* What changes the name table.                                             *)
LEMMA NamesBack ==
    ASSUME NEW w \in Book, NEW x \in [Name -> Content]
    PROVE  TakesBack(TRUE, w, <<NamesPatch(w)>>, PutNames(w, x))
<1> DEFINE p == NamesPatch(w)
           v == PutNames(w, x)
           z == Swap(v, p).wb
<1>1. p \in NamesPatches /\ p.was = w.names
  BY DEF NamesPatch, NamesPatches, Book
<1>2. p \in Patch
  BY <1>1 DEF Patch
<1> HIDE DEF p
<1>3. v \in Book /\ v.sheets = w.sheets
  BY NamesPut
<1> HIDE DEF v
<1>4. z.names = w.names /\ z.sheets = w.sheets
  BY <1>1, <1>3, SwapNames
<1>5. <<p>> \in Seq(Patch) /\ Restore(v, <<p>>).wb = z
  BY <1>2, <1>3, RestoreSingle
<1> HIDE DEF z
<1>6. TakesBack(TRUE, w, <<p>>, v)
  BY <1>3, <1>4, <1>5 DEF TakesBack, Alike
<1> QED
  BY <1>6 DEF p, v

----------------------------------------------------------------------------
(* The invariant.                                                           *)

(* The types, as sets. *)
Typed ==
    /\ wb \in Book /\ nextId \in 1..(MaxSheets + 1)
    /\ Stacks(undo, before) /\ Stacks(redo, after)
    /\ batch \in Nat \union {NoBatch}
    /\ rewritten \in BOOLEAN /\ scrambled \in BOOLEAN
    /\ actions \in 0..MaxActions

(* Until an entry that touches a place twice is redone, every entry of the    *)
(* undo stack leads from the next one's workbook to its own, and the last     *)
(* from the one there is; of the redo stack those do that touch no place      *)
(* twice.                                                                     *)
History ==
    ~scrambled => /\ Leads(undo, before, wb, ~rewritten, TRUE)
                  /\ Leads(redo, after, wb, ~rewritten, FALSE)

IInv == Typed /\ History

(* A sequence is one of its elements.                                       *)
LEMMA SequenceOfRange ==
    ASSUME NEW S, NEW s \in Seq(S)
    PROVE  s \in Seq(Range(s)) /\ \A e \in Range(s) : e \in S
<1>1. Len(s) \in Nat /\ s \in [1..Len(s) -> S] /\ DOMAIN s = 1..Len(s)
  BY LenProperties
<1>2. s \in [1..Len(s) -> Range(s)]
  BY <1>1 DEF Range
<1>3. s \in Seq(Range(s))
  BY <1>1, <1>2, SeqDef
<1>4. \A e \in Range(s) : e \in S
  BY <1>1 DEF Range
<1> QED
  BY <1>3, <1>4

LEMMA TypedIs == Typed => TypeOK
<1> SUFFICES ASSUME Typed PROVE TypeOK
  OBVIOUS
<1>1. IsBook(wb)
  BY BookIs DEF Typed
<1>2. ASSUME NEW stack \in Seq(Seq(Patch))
      PROVE  stack \in Seq(Range(stack)) /\ \A e \in Range(stack) : IsEntry(e)
  <2>1. stack \in Seq(Range(stack)) /\ \A e \in Range(stack) : e \in Seq(Patch)
    BY SequenceOfRange
  <2>2. \A e \in Seq(Patch) : IsEntry(e)
    <3> TAKE e \in Seq(Patch)
    <3>1. e \in Seq(Range(e)) /\ \A p \in Range(e) : p \in Patch
      BY SequenceOfRange
    <3> QED
      BY <3>1, PatchIs DEF IsEntry
  <2> QED
    BY <2>1, <2>2
<1>3. ASSUME NEW books \in Seq(Book)
      PROVE  books \in Seq(Range(books)) /\ \A w \in Range(books) : IsBook(w)
  <2>1. books \in Seq(Range(books)) /\ \A w \in Range(books) : w \in Book
    BY SequenceOfRange
  <2> QED
    BY <2>1, BookIs
<1>4. /\ undo \in Seq(Seq(Patch)) /\ redo \in Seq(Seq(Patch))
      /\ before \in Seq(Book) /\ after \in Seq(Book)
      /\ Len(before) = Len(undo) /\ Len(after) = Len(redo)
  BY DEF Typed, Stacks
<1>5. \A stack \in {undo, redo} :
          stack \in Seq(Range(stack)) /\ \A e \in Range(stack) : IsEntry(e)
  BY <1>2, <1>4
<1>6. \A books \in {before, after} :
          books \in Seq(Range(books)) /\ \A w \in Range(books) : IsBook(w)
  BY <1>3, <1>4
<1>7. /\ nextId \in 1..(MaxSheets + 1) /\ batch \in Nat \union {NoBatch}
      /\ rewritten \in BOOLEAN /\ scrambled \in BOOLEAN /\ actions \in 0..MaxActions
  BY DEF Typed
<1> QED
  BY <1>1, <1>4, <1>5, <1>6, <1>7 DEF TypeOK

(* Empty stacks.                                                            *)
LEMMA LeadsNothing ==
    ASSUME NEW w, NEW names, NEW every
    PROVE  Stacks(<<>>, <<>>) /\ Leads(<<>>, <<>>, w, names, every)
<1> DEFINE e == <<>>
<1>1. e \in Seq(Seq(Patch)) /\ e \in Seq(Book) /\ Len(e) = 0
  OBVIOUS
<1> HIDE DEF e
<1>2. Stacks(e, e) /\ Leads(e, e, w, names, every)
  BY <1>1 DEF Stacks, Leads
<1> QED
  BY <1>2 DEF e

(* What a user may type is a content.                                       *)
LEMMA InputsAreContents == Inputs \subseteq Content
<1> SUFFICES ASSUME NEW c \in Inputs PROVE c \in Content
  OBVIOUS
<1>1. CASE c = Blank
  BY <1>1, ContentFields
<1>2. CASE \E n \in SheetName \union {Here}, r \in Row : c = Ref(n, r)
  <2>1. PICK n \in SheetName \union {Here}, r \in Row : c = Ref(n, r)
    BY <1>2
  <2>2. r \in Nat
    BY DEF Row
  <2> QED
    BY <2>1, <2>2, ContentFields
<1> QED
  BY <1>1, <1>2, WorkbookAssumption

(* The workbook that was opened.                                            *)
LEMMA InitIInv == Init => IInv
<1> SUFFICES ASSUME Init PROVE IInv
  OBVIOUS
<1>0. /\ Opened \in Seq(SheetName) /\ IsInjective(Opened)
      /\ MaxSheets \in Nat /\ MaxSheets >= Len(Opened) /\ Rows \in Nat \ {0}
      /\ MaxActions \in Nat
  BY WorkbookAssumption
<1>1. PICK c \in Inputs, x \in [Name -> {Blank} \union {Ref(n, 1) : n \in Range(Opened)}] :
        wb = [sheets |-> [i \in 1..Len(Opened) |->
                            [EmptySheet(Opened[i]) EXCEPT !.cells[1] = IF i = 1 THEN c ELSE @]],
              names |-> x]
  BY DEF Init
<1>2. c \in Content
  BY InputsAreContents
<1>3. x \in [Name -> Content]
  <2>1. \A n \in Range(Opened) : n \in SheetName
    BY <1>0, SequenceOfRange
  <2>2. \A n \in Range(Opened) : Ref(n, 1) \in Content
    BY <2>1, ContentFields
  <2> QED
    BY <2>2, ContentFields
<1> DEFINE n == Len(Opened)
           t == [i \in 1..n |->
                    [EmptySheet(Opened[i]) EXCEPT !.cells[1] = IF i = 1 THEN c ELSE @]]
<1>4. n \in Nat /\ \A i \in 1..n : Opened[i] \in SheetName
  BY <1>0, LenProperties, ElementOfSeq
<1>5. \A i \in 1..n : t[i] \in Sheet /\ t[i].name = Opened[i]
  <2> TAKE i \in 1..n
  <2> DEFINE s == EmptySheet(Opened[i])
             u == [s EXCEPT !.cells[1] = IF i = 1 THEN c ELSE @]
             d == IF i = 1 THEN c ELSE s.cells[1]
  <2>1. s \in Sheet /\ s.name = Opened[i] /\ s.cells \in [Row -> Content]
    BY <1>4, ContentFields DEF EmptySheet, Sheet
  <2>2. 1 \in Row
    BY <1>0 DEF Row
  <2>3. d \in Content
    <3> HIDE DEF s
    <3> QED
      BY <1>2, <2>1, <2>2
  <2>4. u = [s EXCEPT !.cells[1] = d]
    OBVIOUS
  <2>5. t[i] = u
    OBVIOUS
  <2> HIDE DEF s, d, u, t
  <2>6. u \in Sheet /\ u.name = s.name
    BY <2>1, <2>3, <2>4 DEF Sheet
  <2> QED
    BY <2>1, <2>5, <2>6
<1>6. DOMAIN t = 1..n /\ t \in [1..n -> Sheet]
  <2>1. DOMAIN t = 1..n /\ t = [i \in 1..n |-> t[i]]
    OBVIOUS
  <2> HIDE DEF t
  <2> QED
    BY <1>5, <2>1
<1>7. wb = [sheets |-> t, names |-> x]
  BY <1>1
<1> HIDE DEF t
<1>8. IsSheets(t)
  <2>1. \A i, j \in 1..n : Opened[i] = Opened[j] => i = j
    BY <1>0, <1>4, LenProperties DEF IsInjective
  <2>2. \A i, j \in DOMAIN t : t[i].name = t[j].name => i = j
    BY <1>5, <1>6, <2>1
  <2>3. DOMAIN t \subseteq 1..MaxSheets
    BY <1>0, <1>4, <1>6
  <2> QED
    BY <1>6, <2>2, <2>3 DEF IsSheets
<1>9. wb \in Book
  BY <1>3, <1>7, <1>8, SheetsAre DEF Book
<1>10. /\ nextId = n + 1 /\ batch = NoBatch /\ rewritten = FALSE /\ scrambled = FALSE
       /\ actions = 0
       /\ undo = <<>> /\ redo = <<>> /\ before = <<>> /\ after = <<>>
  BY DEF Init
<1>11. /\ Stacks(undo, before) /\ Stacks(redo, after)
       /\ Leads(undo, before, wb, ~rewritten, TRUE)
       /\ Leads(redo, after, wb, ~rewritten, FALSE)
  BY <1>10, LeadsNothing
<1>12. nextId \in 1..(MaxSheets + 1) /\ actions \in 0..MaxActions
  BY <1>0, <1>4, <1>10
<1> QED
  BY <1>9, <1>10, <1>11, <1>12 DEF IInv, Typed, History

(* An action whose entry takes it back.                                     *)
LEMMA ApplyKeeps ==
    ASSUME IInv, NEW w, NEW e, Apply(w, e), nextId' \in 1..(MaxSheets + 1),
           rewritten' \in BOOLEAN, rewritten => rewritten',
           TakesBack(~rewritten', wb, e, w)
    PROVE  IInv'
<1>1. /\ actions < MaxActions /\ actions' = actions + 1
      /\ wb' = w /\ undo' = Append(undo, e) /\ before' = Append(before, wb)
      /\ redo' = <<>> /\ after' = <<>> /\ batch' = batch /\ scrambled' = scrambled
  BY DEF Apply
<1>2. /\ wb \in Book /\ Stacks(undo, before) /\ Stacks(redo, after)
      /\ rewritten \in BOOLEAN /\ batch \in Nat \union {NoBatch} /\ scrambled \in BOOLEAN
      /\ actions \in 0..MaxActions
  BY DEF IInv, Typed
<1>3. w \in Book /\ e \in Seq(Patch) /\ Alike(~rewritten', Restore(w, e).wb, wb)
  BY DEF TakesBack
<1>4. Stacks(redo', after') /\ Leads(redo', after', w, ~rewritten', FALSE)
  BY <1>1, LeadsNothing
<1>5. Stacks(undo', before')
  <2>1. undo' \in Seq(Seq(Patch)) /\ Len(undo') = Len(undo) + 1
    BY <1>1, <1>2, <1>3, AppendProperties DEF Stacks
  <2>2. before' \in Seq(Book) /\ Len(before') = Len(before) + 1
    BY <1>1, <1>2, AppendProperties DEF Stacks
  <2> QED
    BY <1>2, <2>1, <2>2 DEF Stacks
<1>6. ASSUME ~scrambled PROVE Leads(undo', before', w, ~rewritten', TRUE)
  <2> DEFINE names == ~rewritten
             now == ~rewritten'
  <2>1. names \in BOOLEAN /\ now \in BOOLEAN /\ (now => names) /\ TRUE \in BOOLEAN
    OBVIOUS
  <2>2. Leads(undo, before, wb, names, TRUE)
    BY <1>6 DEF IInv, History
  <2>3. Alike(now, Restore(w, e).wb, wb)
    BY <1>3
  <2> HIDE DEF names, now
  <2>4. Leads(Append(undo, e), Append(before, wb), w, now, TRUE)
    BY <1>2, <1>3, <2>1, <2>2, <2>3, LeadsAppend
  <2> QED
    BY <1>1, <2>4 DEF now
<1>7. Typed'
  <2>1. actions' \in 0..MaxActions
    BY <1>1, <1>2, WorkbookAssumption
  <2> QED
    BY <1>1, <1>2, <1>3, <1>4, <1>5, <2>1 DEF Typed
<1>8. History'
  BY <1>1, <1>4, <1>6 DEF History
<1> QED
  BY <1>7, <1>8 DEF IInv

LEMMA TakesBackAtLeast ==
    ASSUME NEW names \in BOOLEAN, NEW w, NEW e, NEW v, TakesBack(TRUE, w, e, v)
    PROVE  TakesBack(names, w, e, v)
BY DEF TakesBack, Alike

LEMMA OffsetTyped ==
    ASSUME NEW c \in Content, NEW d \in Int
    PROVE  Offset(c, d) \in Content
<1>1. c.row + d \in Row => [c EXCEPT !.row = c.row + d] \in Content
  BY ContentFields DEF Row
<1> QED
  BY <1>1, ContentFields DEF Offset

(* One of the actions whose names stay what they are.                        *)
LEMMA ApplyAllKeeps ==
    ASSUME IInv, NEW w, NEW e, Apply(w, e), TakesBack(TRUE, wb, e, w),
           nextId' = nextId, rewritten' = rewritten
    PROVE  IInv'
<1>1. nextId \in 1..(MaxSheets + 1) /\ rewritten \in BOOLEAN
  BY DEF IInv, Typed
<1>2. TakesBack(~rewritten', wb, e, w)
  <2> DEFINE names == ~rewritten'
  <2>1. names \in BOOLEAN
    OBVIOUS
  <2> HIDE DEF names
  <2>2. TakesBack(names, wb, e, w)
    BY <2>1, TakesBackAtLeast
  <2> QED
    BY <2>2 DEF names
<1> QED
  BY <1>1, <1>2, ApplyKeeps

LEMMA CellEditKeeps ==
    ASSUME IInv, NEW i \in Ids(wb), NEW r \in Row, NEW c \in Inputs, CellEdit(i, r, c)
    PROVE  IInv'
<1> DEFINE v == PutCell(wb, i, r, c)
           e == <<CellPatch(wb, i, r)>>
<1>1. Apply(v, e) /\ nextId' = nextId /\ rewritten' = rewritten
  BY DEF CellEdit, PutCell
<1>2. TakesBack(TRUE, wb, e, v)
  <2>1. wb \in Book /\ c \in Content
    BY InputsAreContents DEF IInv, Typed
  <2> QED
    BY <2>1, CellEditBack
<1> HIDE DEF v, e
<1> QED
  BY <1>1, <1>2, ApplyAllKeeps

LEMMA FormatApplyKeeps ==
    ASSUME IInv, NEW i \in Ids(wb), NEW r \in Row, FormatApply(i, r)
    PROVE  IInv'
<1> DEFINE v == PutFormats(wb, i, wb.sheets[i].formats \union {r})
           e == FormatEntry(wb, i, r, TRUE)
<1>1. Apply(v, e) /\ nextId' = nextId /\ rewritten' = rewritten
  BY DEF FormatApply, PutFormats
<1>2. TakesBack(TRUE, wb, e, v)
  <2>1. wb \in Book
    BY DEF IInv, Typed
  <2> QED
    BY <2>1, FormatApplyBack
<1> HIDE DEF v, e
<1> QED
  BY <1>1, <1>2, ApplyAllKeeps

LEMMA PasteKeeps ==
    ASSUME IInv, NEW i \in Ids(wb), NEW j \in Ids(wb), NEW r \in Row, NEW q \in Row,
           Paste(i, r, j, q)
    PROVE  IInv'
<1> DEFINE c == Offset(wb.sheets[i].cells[r], q - r)
           bold == r \in wb.sheets[i].formats
           v == PutRow(wb, j, q, c, bold)
           e == <<CellPatch(wb, j, q)>> \o FormatEntry(wb, j, q, bold)
<1>1. Apply(v, e) /\ nextId' = nextId /\ rewritten' = rewritten
  BY DEF Paste
<1>2. wb \in Book
  BY DEF IInv, Typed
<1>3. c \in Content
  <2> DEFINE b == wb.sheets[i].cells[r]
             d == q - r
  <2>1. b \in Content
    BY <1>2, BookFields
  <2>2. d \in Int
    BY DEF Row
  <2> HIDE DEF b, d
  <2>3. Offset(b, d) \in Content
    BY <2>1, <2>2, OffsetTyped
  <2> QED
    BY <2>3 DEF b, d
<1>4. bold \in BOOLEAN
  OBVIOUS
<1> HIDE DEF c, bold
<1>5. TakesBack(TRUE, wb, e, v)
  BY <1>2, <1>3, <1>4, PasteBack
<1> HIDE DEF v, e
<1> QED
  BY <1>1, <1>5, ApplyAllKeeps

LEMMA CutPasteKeeps ==
    ASSUME IInv, NEW i \in Ids(wb), NEW j \in Ids(wb), NEW r \in Row, NEW q \in Row,
           CutPaste(i, r, j, q)
    PROVE  IInv'
<1> DEFINE c == wb.sheets[i].cells[r]
           bold == r \in wb.sheets[i].formats
           emptied == PutRow(wb, i, r, Blank, FALSE)
           written == PutRow(emptied, j, q, c, bold)
           moved == Moved(written, i, r, q - r)
           e == <<CellPatch(wb, i, r), CellPatch(emptied, j, q)>>
                    \o CellEntry(written, Touched(written, moved))
                    \o <<FormatPatch(wb, i, r)>> \o FormatEntry(emptied, j, q, bold)
<1>1. Apply(moved, e) /\ nextId' = nextId /\ rewritten' = rewritten
  BY DEF CutPaste
<1>2. wb \in Book
  BY DEF IInv, Typed
<1>3. c \in Content /\ bold \in BOOLEAN
  BY <1>2, BookFields
<1> HIDE DEF c, bold
<1>4. TakesBack(TRUE, wb, e, moved)
  BY <1>2, <1>3, CutPasteBack
<1> HIDE DEF moved, e
<1> QED
  BY <1>1, <1>4, ApplyAllKeeps

(* What a row's insertion and deletion leaves. *)
Shifted(w, i, at, insert) ==
    Structural(PutSheet(w, i, ShiftedSheet(w.sheets[i], at, insert)), i, at, insert)

LEMMA ShiftIs ==
    ASSUME NEW i, NEW at, NEW insert, Shift(i, at, insert)
    PROVE  /\ Apply(Shifted(wb, i, at, insert), <<SheetsPatch(wb)>>)
           /\ nextId' = nextId /\ rewritten' = rewritten
BY DEF Shift, Shifted, ShiftedSheet, Origins, PutSheet

LEMMA ShiftKeeps ==
    ASSUME IInv, NEW i \in Ids(wb), NEW at \in Row, NEW insert \in BOOLEAN,
           Shift(i, at, insert)
    PROVE  IInv'
<1> DEFINE v == Shifted(wb, i, at, insert)
           e == <<SheetsPatch(wb)>>
<1>1. Apply(v, e) /\ nextId' = nextId /\ rewritten' = rewritten
  BY ShiftIs
<1>2. wb \in Book
  BY DEF IInv, Typed
<1>3. v \in Book /\ Frame(v, wb)
  BY <1>2, ShiftedIs DEF Shifted
<1> HIDE DEF v
<1>4. TakesBack(TRUE, wb, e, v)
  BY <1>2, <1>3, SheetsBack DEF Frame
<1> HIDE DEF e
<1> QED
  BY <1>1, <1>4, ApplyAllKeeps

LEMMA SheetAddKeeps ==
    ASSUME IInv, NEW n \in SheetName, SheetAdd(n)
    PROVE  IInv'
<1> DEFINE v == Added(wb, nextId, n)
           e == <<SheetsPatch(wb)>>
<1>1. /\ Apply(v, e) /\ nextId' = nextId + 1 /\ rewritten' = rewritten
      /\ ~HasSheet(wb, n) /\ nextId <= MaxSheets
  BY DEF SheetAdd, Added
<1>2. wb \in Book /\ nextId \in 1..(MaxSheets + 1) /\ rewritten \in BOOLEAN
  BY DEF IInv, Typed
<1>3. nextId \in 1..MaxSheets /\ nextId + 1 \in 1..(MaxSheets + 1)
  BY <1>1, <1>2, WorkbookAssumption
<1>4. v \in Book /\ v.names = wb.names
  BY <1>1, <1>2, <1>3, AddedIs
<1> HIDE DEF v
<1>5. TakesBack(TRUE, wb, e, v)
  BY <1>2, <1>4, SheetsBack
<1> HIDE DEF e
<1>6. TakesBack(~rewritten', wb, e, v)
  <2> DEFINE names == ~rewritten'
  <2>1. names \in BOOLEAN
    OBVIOUS
  <2> HIDE DEF names
  <2>2. TakesBack(names, wb, e, v)
    BY <1>5, <2>1, TakesBackAtLeast
  <2> QED
    BY <2>2 DEF names
<1> QED
  BY <1>1, <1>2, <1>3, <1>6, ApplyKeeps

(* What renaming and deleting a sheet does, as operators.                    *)
LEMMA RenameIs ==
    ASSUME NEW i, NEW n, SheetRename(i, n)
    PROVE  LET u == RewriteSheetRefs(wb, wb.sheets[i].name, n) IN
           /\ n # wb.sheets[i].name => ~HasSheet(wb, n)
           /\ Apply(Renamed(wb, i, n), <<SheetsPatch(wb)>>) /\ nextId' = nextId
           /\ rewritten' = (rewritten \/ u.names # wb.names)
BY DEF SheetRename, Renamed

LEMMA DeleteIs ==
    ASSUME NEW i, SheetDelete(i)
    PROVE  LET u == RewriteSheetRefs(wb, wb.sheets[i].name, NoSheet) IN
           /\ Apply(Dropped(wb, i), <<SheetsPatch(wb)>>) /\ nextId' = nextId
           /\ rewritten' = (rewritten \/ u.names # wb.names)
BY DEF SheetDelete, Dropped

(* Both rewrite the name table, which their entry does not restore.          *)
LEMMA RewriteKeeps ==
    ASSUME IInv, NEW v \in Book, Apply(v, <<SheetsPatch(wb)>>), nextId' = nextId,
           rewritten' = (rewritten \/ v.names # wb.names)
    PROVE  IInv'
<1> DEFINE e == <<SheetsPatch(wb)>>
           names == ~rewritten'
<1>1. wb \in Book /\ nextId \in 1..(MaxSheets + 1) /\ rewritten \in BOOLEAN
  BY DEF IInv, Typed
<1>2. rewritten' \in BOOLEAN /\ (rewritten => rewritten')
  BY <1>1
<1>3. names \in BOOLEAN /\ (names => v.names = wb.names)
  OBVIOUS
<1> HIDE DEF names
<1>4. TakesBack(names, wb, e, v)
  BY <1>1, <1>3, SheetsBack
<1> HIDE DEF e
<1>5. TakesBack(~rewritten', wb, e, v)
  BY <1>4 DEF names
<1>6. Apply(v, e)
  BY DEF e
<1> QED
  BY <1>1, <1>2, <1>5, <1>6, ApplyKeeps

LEMMA SheetRenameKeeps ==
    ASSUME IInv, NEW i \in Ids(wb), NEW n \in SheetName, SheetRename(i, n)
    PROVE  IInv'
<1> DEFINE v == Renamed(wb, i, n)
           u == RewriteSheetRefs(wb, wb.sheets[i].name, n)
<1>1. /\ n # wb.sheets[i].name => ~HasSheet(wb, n)
      /\ Apply(v, <<SheetsPatch(wb)>>) /\ nextId' = nextId
      /\ rewritten' = (rewritten \/ u.names # wb.names)
  BY RenameIs
<1>2. wb \in Book
  BY DEF IInv, Typed
<1>3. v \in Book /\ v.names = u.names
  BY <1>1, <1>2, RenamedIs
<1> HIDE DEF v, u
<1> QED
  BY <1>1, <1>3, RewriteKeeps

LEMMA SheetDeleteKeeps ==
    ASSUME IInv, NEW i \in Ids(wb), SheetDelete(i)
    PROVE  IInv'
<1> DEFINE v == Dropped(wb, i)
           u == RewriteSheetRefs(wb, wb.sheets[i].name, NoSheet)
<1>1. /\ Apply(v, <<SheetsPatch(wb)>>) /\ nextId' = nextId
      /\ rewritten' = (rewritten \/ u.names # wb.names)
  BY DeleteIs
<1>2. wb \in Book
  BY DEF IInv, Typed
<1>3. v \in Book /\ v.names = u.names
  BY <1>2, DroppedIs
<1> HIDE DEF v, u
<1> QED
  BY <1>1, <1>3, RewriteKeeps

(* The name table written.                                                   *)
LEMMA NameKeeps ==
    ASSUME IInv, NEW x \in Name, NEW c \in Content,
           Apply([wb EXCEPT !.names[x] = c], <<NamesPatch(wb)>>),
           nextId' = nextId, rewritten' = rewritten
    PROVE  IInv'
<1> DEFINE g == [wb.names EXCEPT ![x] = c]
           v == PutNames(wb, g)
           e == <<NamesPatch(wb)>>
<1>1. wb \in Book
  BY DEF IInv, Typed
<1>2. g \in [Name -> Content]
  BY <1>1, BookFields
<1>3. Apply(v, e)
  BY DEF PutNames
<1> HIDE DEF g
<1>4. TakesBack(TRUE, wb, e, v)
  BY <1>1, <1>2, NamesBack
<1> HIDE DEF v, e
<1> QED
  BY <1>3, <1>4, ApplyAllKeeps

(* An action that found nothing to do.                                      *)
LEMMA ApplyNothingKeeps ==
    ASSUME IInv, ApplyNothing, nextId' = nextId, rewritten' = rewritten
    PROVE  IInv'
<1>1. /\ actions < MaxActions /\ actions' = actions + 1 /\ redo' = <<>> /\ after' = <<>>
      /\ wb' = wb /\ undo' = undo /\ before' = before /\ batch' = batch
      /\ scrambled' = scrambled
  BY DEF ApplyNothing
<1>2. Stacks(redo', after') /\ Leads(redo', after', wb, ~rewritten, FALSE)
  BY <1>1, LeadsNothing
<1>3. Typed'
  BY <1>1, <1>2, WorkbookAssumption DEF IInv, Typed
<1>4. History'
  BY <1>1, <1>2 DEF IInv, History
<1> QED
  BY <1>3, <1>4 DEF IInv

LEMMA NameDefineKeeps ==
    ASSUME IInv, NEW x \in Name, NEW n \in SheetName, NameDefine(x, Ref(n, 1))
    PROVE  IInv'
<1> DEFINE c == Ref(n, 1)
<1>1. c \in Content
  BY ContentFields
<1>2. /\ nextId' = nextId /\ rewritten' = rewritten
      /\ \/ ApplyNothing
         \/ Apply([wb EXCEPT !.names[x] = c], <<NamesPatch(wb)>>)
  BY DEF NameDefine
<1> HIDE DEF c
<1> QED
  BY <1>1, <1>2, ApplyNothingKeeps, NameKeeps

LEMMA NameDeleteKeeps ==
    ASSUME IInv, NEW x \in Name, NameDelete(x)
    PROVE  IInv'
<1>1. /\ nextId' = nextId /\ rewritten' = rewritten
      /\ Apply([wb EXCEPT !.names[x] = Blank], <<NamesPatch(wb)>>)
  BY DEF NameDelete
<1> QED
  BY <1>1, ContentFields, NameKeeps

(* What undo and redo do to the stacks, whatever the entries do.              *)
LEMMA StacksFront ==
    ASSUME NEW stack, NEW books, Stacks(stack, books), stack # <<>>
    PROVE  /\ Stacks(Front(stack), Front(books))
           /\ Last(stack) \in Seq(Patch) /\ Last(books) \in Book
           /\ Last(stack) = stack[Len(stack)] /\ Last(books) = books[Len(stack)]
           /\ Len(stack) \in Nat \ {0}
<1>1. /\ Front(stack) \in Seq(Seq(Patch)) /\ Len(Front(stack)) = Len(stack) - 1
      /\ Last(stack) \in Seq(Patch) /\ Last(stack) = stack[Len(stack)]
      /\ Len(stack) \in Nat \ {0}
  BY FrontProperties DEF Stacks
<1>2. Len(books) = Len(stack) /\ books # <<>> /\ books \in Seq(Book)
  BY <1>1, EmptySeq DEF Stacks
<1>3. /\ Front(books) \in Seq(Book) /\ Len(Front(books)) = Len(books) - 1
      /\ Last(books) \in Book /\ Last(books) = books[Len(books)]
  BY <1>2, FrontProperties
<1> QED
  BY <1>1, <1>2, <1>3 DEF Stacks

LEMMA StacksAppend ==
    ASSUME NEW stack, NEW books, Stacks(stack, books), NEW e \in Seq(Patch), NEW w \in Book
    PROVE  Stacks(Append(stack, e), Append(books, w))
<1>1. Append(stack, e) \in Seq(Seq(Patch)) /\ Len(Append(stack, e)) = Len(stack) + 1
  BY AppendProperties DEF Stacks
<1>2. Append(books, w) \in Seq(Book) /\ Len(Append(books, w)) = Len(books) + 1
  BY AppendProperties DEF Stacks
<1> QED
  BY <1>1, <1>2 DEF Stacks

(* The last entry leads to the workbook it was recorded in.                  *)
LEMMA LastLeads ==
    ASSUME NEW stack, NEW books, Stacks(stack, books), stack # <<>>, NEW w,
           NEW names, NEW every, Leads(stack, books, w, names, every),
           every \/ ~TouchesTwice(Last(stack))
    PROVE  Alike(names, Restore(w, Last(stack)).wb, Last(books))
<1> DEFINE n == Len(stack)
<1>1. /\ n \in Nat \ {0} /\ Len(books) = n
      /\ Last(stack) = stack[n] /\ Last(books) = books[n]
  BY StacksFront DEF Stacks
<1> HIDE DEF n
<1>2. n \in 1..n /\ ~(n + 1 <= n)
  BY <1>1
<1>3. BookAt(books, w, n + 1) = w
  BY <1>1, <1>2 DEF BookAt
<1>4. Alike(names, Restore(BookAt(books, w, n + 1), stack[n]).wb, books[n])
  BY <1>1, <1>2 DEF Leads, n
<1> QED
  BY <1>1, <1>3, <1>4

(* A batch's entries together are an entry.                                  *)
LEMMA CoalesceTyped ==
    ASSUME NEW parts \in Seq(Seq(Patch)), parts # <<>>
    PROVE  Coalesce(parts) \in Seq(Patch)
<1> DEFINE n == Len(parts)
<1>1. n \in Nat \ {0}
  BY EmptySeq
<1>2. PICK g : IsFlat(g, parts) /\ Coalesce(parts) = g[n]
  BY <1>1, CoalesceIsFlat
<1>3. \A k \in 1..n : parts[k] \in Seq(Patch)
  BY ElementOfSeq
<1> DEFINE Good == {m \in Nat : m + 1 \in 1..n => g[m + 1] \in Seq(Patch)}
<1>4. 0 \in Good
  <2>1. g[1] = parts[1] /\ 1 \in 1..n /\ 0 + 1 = 1
    BY <1>1, <1>2 DEF IsFlat
  <2> QED
    BY <1>3, <2>1
<1>5. \A m \in Nat : m \in Good => m + 1 \in Good
  <2> SUFFICES ASSUME NEW m \in Nat, m \in Good, (m + 1) + 1 \in 1..n
               PROVE  g[(m + 1) + 1] \in Seq(Patch)
    OBVIOUS
  <2> DEFINE a == g[m + 1]
             b == parts[m + 2]
  <2>1. /\ m + 1 \in 1..n /\ m + 2 \in 1..n /\ (m + 1) + 1 = m + 2
        /\ m + 2 # 1 /\ (m + 2) - 1 = m + 1
    BY <1>1
  <2>2. a \in Seq(Patch) /\ b \in Seq(Patch)
    BY <1>3, <2>1
  <2>3. g[m + 2] = a \o b
    BY <1>2, <2>1 DEF IsFlat
  <2> HIDE DEF a, b
  <2>4. a \o b \in Seq(Patch)
    BY <2>2, ConcatProperties
  <2> QED
    BY <2>1, <2>3, <2>4
<1> HIDE DEF Good
<1>6. n - 1 \in Nat /\ (n - 1) + 1 = n /\ n \in 1..n
  BY <1>1
<1>7. n - 1 \in Good
  BY <1>4, <1>5, <1>6, NumbersInduct
<1>8. g[(n - 1) + 1] \in Seq(Patch)
  BY <1>6, <1>7 DEF Good
<1> QED
  BY <1>2, <1>6, <1>8

LEMMA StacksCoalesce ==
    ASSUME NEW stack, NEW books, Stacks(stack, books), NEW b \in Nat, Len(stack) > b + 1
    PROVE  Stacks(Append(SubSeq(stack, 1, b), Coalesce(SubSeq(stack, b + 1, Len(stack)))),
                  SubSeq(books, 1, b + 1))
<1> DEFINE n == Len(stack)
           parts == SubSeq(stack, b + 1, n)
           low == SubSeq(stack, 1, b)
           m == b + 1
           bs == SubSeq(books, 1, m)
<1>1. n \in Nat /\ Len(books) = n /\ n > b + 1 /\ m \in Nat /\ m < n
  BY LenProperties DEF Stacks
<1>2. \A i \in 1..n : books[i] \in Book /\ stack[i] \in Seq(Patch)
  BY <1>1, ElementOfSeq DEF Stacks
<1> HIDE DEF n
<1>3. parts \in Seq(Seq(Patch)) /\ Len(parts) = n - b
  <2>1. \A i \in (b + 1)..n : stack[i] \in Seq(Patch)
    BY <1>1, <1>2
  <2>2. b + 1 \in Int /\ n \in Int /\ b + 1 <= n /\ n - (b + 1) + 1 = n - b
    BY <1>1
  <2>3. /\ parts \in Seq(Seq(Patch))
        /\ Len(parts) = IF b + 1 <= n THEN n - (b + 1) + 1 ELSE 0
    BY <2>1, <2>2, SubSeqProperties
  <2> HIDE DEF parts
  <2> QED
    BY <2>2, <2>3
<1>4. low \in Seq(Seq(Patch)) /\ Len(low) = b
  <2>1. \A i \in 1..b : stack[i] \in Seq(Patch)
    BY <1>1, <1>2
  <2>2. low \in Seq(Seq(Patch)) /\ Len(low) = IF 1 <= b THEN b - 1 + 1 ELSE 0
    BY <2>1, SubSeqProperties
  <2> HIDE DEF low
  <2> QED
    BY <2>2
<1>5. bs \in Seq(Book) /\ Len(bs) = m
  <2> HIDE DEF m
  <2>1. \A i \in 1..m : books[i] \in Book
    BY <1>1, <1>2
  <2>2. bs \in Seq(Book) /\ Len(bs) = IF 1 <= m THEN m - 1 + 1 ELSE 0
    BY <1>1, <2>1, SubSeqProperties
  <2> HIDE DEF bs
  <2> QED
    BY <1>1, <2>2
<1> HIDE DEF parts, low
<1>6. parts # <<>>
  BY <1>1, <1>3, EmptySeq
<1> DEFINE all == Coalesce(parts)
<1>7. all \in Seq(Patch)
  BY <1>3, <1>6, CoalesceTyped
<1> HIDE DEF all
<1>8. Append(low, all) \in Seq(Seq(Patch)) /\ Len(Append(low, all)) = b + 1
  BY <1>4, <1>7, AppendProperties
<1>9. Stacks(Append(low, all), bs)
  BY <1>5, <1>8 DEF Stacks
<1> QED
  BY <1>9 DEF all, low, parts, n

(* An undo: the entry leads to the workbook below, and what takes it back    *)
(* leads to the one there was.                                               *)
LEMMA UndoKeeps ==
    ASSUME IInv, Undo
    PROVE  IInv'
<1> DEFINE e == Last(undo)
           v == Restore(wb, e).wb
           x == Restore(wb, e).inverse
           names == ~rewritten
<1>1. /\ undo # <<>> /\ wb' = v /\ redo' = Append(redo, x)
      /\ undo' = Front(undo) /\ before' = Front(before) /\ after' = Append(after, wb)
      /\ nextId' = nextId /\ batch' = batch /\ rewritten' = rewritten
      /\ scrambled' = scrambled /\ actions' = actions
  BY DEF Undo
<1>2. wb \in Book /\ Stacks(undo, before) /\ Stacks(redo, after)
  BY DEF IInv, Typed
<1>3. Stacks(undo', before') /\ e \in Seq(Patch)
  BY <1>1, <1>2, StacksFront
<1>4. v \in Book /\ x \in Seq(Patch)
  BY <1>2, <1>3, RestoreTyped
<1>5. ~TouchesTwice(x) => Restore(v, x).wb = wb
  BY <1>2, <1>3, InverseTakesBack
<1>6. names \in BOOLEAN /\ TRUE \in BOOLEAN /\ FALSE \in BOOLEAN
  OBVIOUS
<1> HIDE DEF v, x
<1>7. Stacks(redo', after')
  BY <1>1, <1>2, <1>4, StacksAppend
<1>8. ASSUME ~scrambled
      PROVE  Leads(undo', before', wb', names, TRUE) /\ Leads(redo', after', wb', names, FALSE)
  <2>1. Leads(undo, before, wb, names, TRUE) /\ Leads(redo, after, wb, names, FALSE)
    BY <1>8 DEF IInv, History
  <2> HIDE DEF names
  <2>2. Alike(names, v, Last(before))
    BY <1>1, <1>2, <2>1, LastLeads DEF v
  <2>3. Leads(Front(undo), Front(before), v, names, TRUE)
    BY <1>1, <1>2, <1>4, <1>6, <2>1, <2>2, LeadsFront
  <2>4. ~TouchesTwice(x) => Alike(names, Restore(v, x).wb, wb)
    BY <1>5 DEF Alike
  <2>5. Leads(Append(redo, x), Append(after, wb), v, names, FALSE)
    BY <1>2, <1>4, <1>6, <2>1, <2>4, LeadsAppend
  <2> QED
    BY <1>1, <2>3, <2>5
<1>9. Typed'
  BY <1>1, <1>3, <1>4, <1>7 DEF IInv, Typed
<1>10. History'
  BY <1>1, <1>8 DEF History
<1> QED
  BY <1>9, <1>10 DEF IInv

(* A redo of an entry that touches no place twice the same the other way.     *)
LEMMA RedoKeeps ==
    ASSUME IInv, Redo
    PROVE  IInv'
<1> DEFINE e == Last(redo)
           v == Restore(wb, e).wb
           x == Restore(wb, e).inverse
           names == ~rewritten
<1>1. /\ redo # <<>> /\ wb' = v /\ undo' = Append(undo, x)
      /\ redo' = Front(redo) /\ after' = Front(after) /\ before' = Append(before, wb)
      /\ nextId' = nextId /\ batch' = batch /\ rewritten' = rewritten
      /\ scrambled' = (scrambled \/ TouchesTwice(e)) /\ actions' = actions
  BY DEF Redo
<1>2. wb \in Book /\ Stacks(undo, before) /\ Stacks(redo, after) /\ scrambled \in BOOLEAN
  BY DEF IInv, Typed
<1>3. Stacks(redo', after') /\ e \in Seq(Patch)
  BY <1>1, <1>2, StacksFront
<1>4. v \in Book /\ x \in Seq(Patch)
  BY <1>2, <1>3, RestoreTyped
<1>5. ~TouchesTwice(e) => Restore(v, x).wb = wb
  <2>1. ~TouchesTwice(e) => ~TouchesTwice(x)
    BY <1>2, <1>3, InverseTouches
  <2> QED
    BY <1>2, <1>3, <2>1, InverseTakesBack
<1>6. names \in BOOLEAN /\ TRUE \in BOOLEAN /\ FALSE \in BOOLEAN
  OBVIOUS
<1> HIDE DEF v, x
<1>7. Stacks(undo', before')
  BY <1>1, <1>2, <1>4, StacksAppend
<1>8. ASSUME ~scrambled, ~TouchesTwice(e)
      PROVE  Leads(undo', before', wb', names, TRUE) /\ Leads(redo', after', wb', names, FALSE)
  <2>1. Leads(undo, before, wb, names, TRUE) /\ Leads(redo, after, wb, names, FALSE)
    BY <1>8 DEF IInv, History
  <2> HIDE DEF names
  <2>2. Alike(names, v, Last(after))
    BY <1>1, <1>2, <1>8, <2>1, LastLeads DEF v
  <2>3. Leads(Front(redo), Front(after), v, names, FALSE)
    BY <1>1, <1>2, <1>4, <1>6, <2>1, <2>2, LeadsFront
  <2>4. Alike(names, Restore(v, x).wb, wb)
    BY <1>5, <1>8 DEF Alike
  <2>5. Leads(Append(undo, x), Append(before, wb), v, names, TRUE)
    BY <1>2, <1>4, <1>6, <2>1, <2>4, LeadsAppend
  <2> QED
    BY <1>1, <2>3, <2>5
<1>9. scrambled' \in BOOLEAN
  BY <1>1
<1>10. Typed'
  BY <1>1, <1>3, <1>4, <1>7, <1>9 DEF IInv, Typed
<1>11. History'
  BY <1>1, <1>8 DEF History
<1> QED
  BY <1>10, <1>11 DEF IInv

LEMMA BatchEndsKeeps ==
    ASSUME IInv, BatchEnds
    PROVE  IInv'
<1> DEFINE names == ~rewritten
<1>1. /\ batch # NoBatch /\ batch' = NoBatch
      /\ wb' = wb /\ nextId' = nextId /\ redo' = redo /\ after' = after
      /\ rewritten' = rewritten /\ scrambled' = scrambled /\ actions' = actions
  BY DEF BatchEnds
<1>2. batch \in Nat /\ wb \in Book /\ Stacks(undo, before) /\ Stacks(redo, after)
  BY <1>1 DEF IInv, Typed
<1>3. CASE Len(undo) > batch + 1
  <2>1. /\ undo' = Append(SubSeq(undo, 1, batch),
                          Coalesce(SubSeq(undo, batch + 1, Len(undo))))
        /\ before' = SubSeq(before, 1, batch + 1)
    BY <1>3 DEF BatchEnds
  <2>2. Stacks(undo', before')
    BY <1>2, <1>3, <2>1, StacksCoalesce
  <2>3. ASSUME ~scrambled PROVE Leads(undo', before', wb, names, TRUE)
    <3>1. Leads(undo, before, wb, names, TRUE) /\ names \in BOOLEAN
      BY <2>3 DEF IInv, History
    <3> HIDE DEF names
    <3>2. \A s, bs :
              /\ s = Append(SubSeq(undo, 1, batch),
                            Coalesce(SubSeq(undo, batch + 1, Len(undo))))
              /\ bs = SubSeq(before, 1, batch + 1)
              => Leads(s, bs, wb, names, TRUE)
      BY <1>2, <1>3, <3>1, LeadsCoalesce
    <3> QED
      BY <2>1, <3>2
  <2>4. Typed'
    BY <1>1, <2>2 DEF IInv, Typed
  <2>5. History'
    BY <1>1, <2>3 DEF IInv, History
  <2> QED
    BY <2>4, <2>5 DEF IInv
<1>4. CASE ~(Len(undo) > batch + 1)
  <2>1. undo' = undo /\ before' = before
    BY <1>4 DEF BatchEnds
  <2>2. Typed'
    BY <1>1, <2>1 DEF IInv, Typed
  <2>3. History'
    BY <1>1, <2>1 DEF IInv, History
  <2> QED
    BY <2>2, <2>3 DEF IInv
<1> QED
  BY <1>3, <1>4

(* A batch that starts or fails leaves all but its mark alone.               *)
LEMMA BatchKeeps ==
    ASSUME IInv, BatchStarts \/ BatchFails
    PROVE  IInv'
<1>1. /\ wb' = wb /\ nextId' = nextId /\ undo' = undo /\ redo' = redo
      /\ before' = before /\ after' = after
      /\ rewritten' = rewritten /\ scrambled' = scrambled /\ actions' = actions
      /\ batch' \in {NoBatch, Len(undo)}
  BY DEF BatchStarts, BatchFails
<1>2. Len(undo) \in Nat
  BY LenProperties DEF IInv, Typed, Stacks
<1>3. Typed'
  BY <1>1, <1>2 DEF IInv, Typed
<1>4. History'
  BY <1>1 DEF IInv, History
<1> QED
  BY <1>3, <1>4 DEF IInv

(* Every step keeps the invariant.                                          *)
LEMMA NextKeeps == IInv /\ [Next]_vars => IInv'
<1> SUFFICES ASSUME IInv, [Next]_vars PROVE IInv'
  OBVIOUS
<1>1. ASSUME NEW i \in Ids(wb), \E r \in Row, c \in Inputs : CellEdit(i, r, c) PROVE IInv'
  BY <1>1, CellEditKeeps
<1>2. ASSUME NEW i \in Ids(wb), \E r \in Row : FormatApply(i, r) PROVE IInv'
  BY <1>2, FormatApplyKeeps
<1>3. ASSUME NEW i \in Ids(wb), NEW j \in Ids(wb), NEW r \in Row, NEW q \in Row,
             Paste(i, r, j, q) \/ CutPaste(i, r, j, q)
      PROVE  IInv'
  BY <1>3, PasteKeeps, CutPasteKeeps
<1>4. ASSUME NEW i \in Ids(wb), \E at \in Row, insert \in BOOLEAN : Shift(i, at, insert)
      PROVE  IInv'
  BY <1>4, ShiftKeeps
<1>5. ASSUME NEW i \in Ids(wb), \E n \in SheetName : SheetRename(i, n) PROVE IInv'
  BY <1>5, SheetRenameKeeps
<1>6. ASSUME NEW i \in Ids(wb), SheetDelete(i) PROVE IInv'
  BY <1>6, SheetDeleteKeeps
<1>7. ASSUME NEW n \in SheetName, SheetAdd(n) PROVE IInv'
  BY <1>7, SheetAddKeeps
<1>8. ASSUME NEW x \in Name,
             (\E n \in SheetName : NameDefine(x, Ref(n, 1))) \/ NameDelete(x)
      PROVE  IInv'
  BY <1>8, NameDefineKeeps, NameDeleteKeeps
<1>9. CASE Undo
  BY <1>9, UndoKeeps
<1>10. CASE Redo
  BY <1>10, RedoKeeps
<1>11. CASE BatchStarts \/ BatchFails
  BY <1>11, BatchKeeps
<1>12. CASE BatchEnds
  BY <1>12, BatchEndsKeeps
<1>13. CASE UNCHANGED vars
  <2>1. Typed'
    BY <1>13 DEF vars, IInv, Typed
  <2>2. History'
    BY <1>13 DEF vars, IInv, History
  <2> QED
    BY <2>1, <2>2 DEF IInv
<1> QED
  BY <1>1, <1>2, <1>3, <1>4, <1>5, <1>6, <1>7, <1>8, <1>9, <1>10, <1>11, <1>12, <1>13
     DEF Next

(* In every behaviour.                                                      *)
LEMMA AlwaysIInv == Spec => []IInv
BY InitIInv, NextKeeps, PTL DEF Spec

(* The workbook, its stacks and the workbooks they were recorded in keep     *)
(* their types, however entries are applied and taken back (engine.rs).      *)
THEOREM TypeCorrect == Spec => []TypeOK
<1>1. IInv => TypeOK
  BY TypedIs DEF IInv
<1> QED
  BY <1>1, AlwaysIInv, PTL

(* Undo brings back the workbook the last entry was recorded in: the sheets,  *)
(* and the name table unless a rename or a deletion rewrote it               *)
(* (engine.rs undo, restore; ops.rs for what each operation records).        *)
THEOREM UndoAlwaysBringsBack == Spec => []UndoBringsBack
<1>1. IInv => UndoBringsBack
  <2> SUFFICES ASSUME IInv, undo # <<>>, ~scrambled
               PROVE  LET w == Restore(wb, Last(undo)).wb IN
                      /\ w.sheets = Last(before).sheets
                      /\ ~rewritten => w.names = Last(before).names
    BY DEF UndoBringsBack
  <2>1. Leads(undo, before, wb, ~rewritten, TRUE) /\ Stacks(undo, before)
    BY DEF IInv, Typed, History
  <2>2. Alike(~rewritten, Restore(wb, Last(undo)).wb, Last(before))
    BY <2>1, LastLeads
  <2> QED
    BY <2>2 DEF Alike
<1> QED
  BY <1>1, AlwaysIInv, PTL

(* Redo leads to the workbook the undo was taken from, for entries that       *)
(* touch no place twice (engine.rs redo, restore).                            *)
THEOREM RedoAlwaysBringsForward == Spec => []RedoBringsForward
<1>1. IInv => RedoBringsForward
  <2> SUFFICES ASSUME IInv, redo # <<>>, ~scrambled, ~TouchesTwice(Last(redo))
               PROVE  LET w == Restore(wb, Last(redo)).wb IN
                      /\ w.sheets = Last(after).sheets
                      /\ ~rewritten => w.names = Last(after).names
    BY DEF RedoBringsForward
  <2>1. Leads(redo, after, wb, ~rewritten, FALSE) /\ Stacks(redo, after)
    BY DEF IInv, Typed, History
  <2>2. Alike(~rewritten, Restore(wb, Last(redo)).wb, Last(after))
    BY <2>1, LastLeads
  <2> QED
    BY <2>2 DEF Alike
<1> QED
  BY <1>1, AlwaysIInv, PTL

----------------------------------------------------------------------------
(* References.                                                              *)

(* A sheet is the one of its name.                                          *)
LEMMA SheetOfName ==
    ASSUME NEW w \in Book, NEW k \in Ids(w), NEW n, w.sheets[k].name = n
    PROVE  HasSheet(w, n) /\ SheetByName(w, n) = k
<1>1. HasSheet(w, n)
  BY DEF HasSheet
<1>2. SheetByName(w, n) \in Ids(w) /\ w.sheets[SheetByName(w, n)].name = n
  BY DEF SheetByName
<1>3. SheetByName(w, n) = k
  BY <1>2, BookFields
<1> QED
  BY <1>1, <1>3

(* What a reference points at is there, by its name, or is its own sheet.     *)
LEMMA RefSheetIs ==
    ASSUME NEW w \in Book, NEW j, NEW c, RefSheet(w, j, c) # 0
    PROVE  \/ c.sheet = Here /\ RefSheet(w, j, c) = j
           \/ /\ c.sheet # Here
              /\ RefSheet(w, j, c) \in Ids(w)
              /\ w.sheets[RefSheet(w, j, c)].name = c.sheet
<1>1. CASE c.sheet = Here
  BY <1>1 DEF RefSheet
<1>2. CASE c.sheet # Here
  <2>1. HasSheet(w, c.sheet) /\ RefSheet(w, j, c) = SheetByName(w, c.sheet)
    BY <1>2 DEF RefSheet
  <2>2. SheetByName(w, c.sheet) \in Ids(w) /\ w.sheets[SheetByName(w, c.sheet)].name = c.sheet
    BY <2>1 DEF HasSheet, SheetByName
  <2> QED
    BY <1>2, <2>1, <2>2
<1> QED
  BY <1>1, <1>2

LEMMA RefSheetByName ==
    ASSUME NEW w \in Book, NEW j, NEW c, NEW k \in Ids(w), w.sheets[k].name = c.sheet
    PROVE  RefSheet(w, j, c) = k
<1>1. c.sheet # Here
  BY BookFields, WorkbookAssumption
<1>2. HasSheet(w, c.sheet) /\ SheetByName(w, c.sheet) = k
  BY SheetOfName
<1> QED
  BY <1>1, <1>2 DEF RefSheet

(* A reference through the renaming of a sheet.                             *)
LEMMA RenamedRef ==
    ASSUME NEW w \in Book, NEW i \in Ids(w), NEW n \in SheetName,
           n # w.sheets[i].name => ~HasSheet(w, n),
           NEW j, NEW c \in Content, c.kind = "ref", RefSheet(w, j, c) # 0
    PROVE  LET d == SheetRef(c, w.sheets[i].name, n)
               v == Renamed(w, i, n)
           IN /\ d.kind = "ref" /\ d.row = c.row
              /\ RefSheet(v, j, d) = RefSheet(w, j, c)
<1> DEFINE from == w.sheets[i].name
           d == SheetRef(c, from, n)
           v == Renamed(w, i, n)
           k == RefSheet(w, j, c)
<1>1. /\ v \in Book /\ Ids(v) = Ids(w)
      /\ \A l \in Ids(w) : v.sheets[l].name = IF l = i THEN n ELSE w.sheets[l].name
  BY RenamedIs
<1>2. n # NoSheet /\ n # Here /\ from # Here
  BY BookFields, WorkbookAssumption
<1>3. \/ c.sheet = Here /\ k = j
      \/ c.sheet # Here /\ k \in Ids(w) /\ w.sheets[k].name = c.sheet
  BY RefSheetIs
<1> HIDE DEF v, k
<1>4. CASE c.sheet = from
  <2>1. d = [c EXCEPT !.sheet = n]
    BY <1>2, <1>4 DEF SheetRef
  <2>2. d.kind = "ref" /\ d.row = c.row /\ d.sheet = n
    BY <2>1, ContentFields
  <2>3. k = i
    BY <1>2, <1>3, <1>4, BookFields
  <2> HIDE DEF d
  <2>4. v.sheets[i].name = d.sheet /\ i \in Ids(v)
    BY <1>1, <2>2
  <2>5. RefSheet(v, j, d) = i
    BY <1>1, <2>4, RefSheetByName
  <2> QED
    BY <2>2, <2>3, <2>5 DEF d, v, k
<1>5. CASE c.sheet # from
  <2>1. d = c
    BY <1>5 DEF SheetRef
  <2>2. CASE c.sheet = Here /\ k = j
    <3>1. RefSheet(v, j, c) = j
      BY <2>2 DEF RefSheet
    <3> QED
      BY <2>1, <2>2, <3>1 DEF v, k
  <2>3. CASE c.sheet # Here /\ k \in Ids(w) /\ w.sheets[k].name = c.sheet
    <3>1. k # i
      BY <1>5, <2>3
    <3>2. k \in Ids(v) /\ v.sheets[k].name = c.sheet
      BY <1>1, <2>3, <3>1
    <3>3. RefSheet(v, j, c) = k
      BY <1>1, <3>2, RefSheetByName
    <3> QED
      BY <2>1, <3>3 DEF v, k
  <2> QED
    BY <1>3, <2>2, <2>3
<1> QED
  BY <1>4, <1>5

(* A reference through the deletion of a sheet.                             *)
LEMMA DroppedRef ==
    ASSUME NEW w \in Book, NEW i \in Ids(w),
           NEW j, j # i, NEW c \in Content, c.kind = "ref", RefSheet(w, j, c) # 0
    PROVE  LET d == SheetRef(c, w.sheets[i].name, NoSheet)
               v == Dropped(w, i)
           IN /\ RefSheet(w, j, c) = i => d = Broken
              /\ RefSheet(w, j, c) # i => d = c /\ RefSheet(v, j, d) = RefSheet(w, j, c)
<1> DEFINE from == w.sheets[i].name
           d == SheetRef(c, from, NoSheet)
           v == Dropped(w, i)
           k == RefSheet(w, j, c)
<1>1. /\ v \in Book /\ Ids(v) = Ids(w) \ {i}
      /\ \A l \in Ids(w) \ {i} : v.sheets[l].name = w.sheets[l].name
  BY DroppedIs
<1>2. from # Here
  BY BookFields, WorkbookAssumption
<1>3. \/ c.sheet = Here /\ k = j
      \/ c.sheet # Here /\ k \in Ids(w) /\ w.sheets[k].name = c.sheet
  BY RefSheetIs
<1> HIDE DEF v, k
<1>4. CASE k = i
  <2>1. c.sheet = from
    BY <1>3, <1>4
  <2>2. d = Broken
    BY <2>1 DEF SheetRef
  <2> QED
    BY <1>4, <2>2 DEF k
<1>5. CASE k # i
  <2>1. c.sheet # from
    BY <1>2, <1>3, <1>5, BookFields
  <2>2. d = c
    BY <2>1 DEF SheetRef
  <2>3. RefSheet(v, j, c) = k
    <3>1. CASE c.sheet = Here /\ k = j
      BY <3>1 DEF RefSheet
    <3>2. CASE c.sheet # Here /\ k \in Ids(w) /\ w.sheets[k].name = c.sheet
      <4>1. k \in Ids(v) /\ v.sheets[k].name = c.sheet
        BY <1>1, <1>5, <3>2
      <4> QED
        BY <1>1, <4>1, RefSheetByName
    <3> QED
      BY <1>3, <3>1, <3>2
  <2> QED
    BY <1>5, <2>2, <2>3 DEF v, k
<1> QED
  BY <1>4, <1>5

(* The coordinates of a cell, and what stands there.                        *)
LEMMA CellsOf ==
    ASSUME NEW w, NEW p \in Cells(w)
    PROVE  /\ p = <<p[1], p[2]>> /\ p[1] \in Ids(w) /\ p[2] \in Row
           /\ CellAt(w, p) = w.sheets[p[1]].cells[p[2]]
BY DEF Cells, CellAt

(* Renaming a sheet keeps what every reference points at.                   *)
LEMMA RenameKeepsReferences == IInv => RenameFollows
<1> SUFFICES ASSUME IInv, NEW i \in Ids(wb), NEW n \in SheetName, SheetRename(i, n)
             PROVE  FormulasFollow(LAMBDA p : p, {}) /\ NamesFollow(LAMBDA p : p)
  BY DEF RenameFollows
<1> DEFINE from == wb.sheets[i].name
           v == Renamed(wb, i, n)
<1>1. wb \in Book
  BY DEF IInv, Typed
<1>2. wb' = v /\ (n # from => ~HasSheet(wb, n))
  BY RenameIs DEF Apply
<1>3. /\ Ids(v) = Ids(wb)
      /\ \A j \in Ids(wb), o \in Row :
            v.sheets[j].cells[o] = SheetRef(wb.sheets[j].cells[o], from, n)
      /\ \A x \in Name : v.names[x] = SheetRef(wb.names[x], from, n)
  BY <1>1, <1>2, RenamedIs
<1>4. \A j, c : c \in Content /\ c.kind = "ref" /\ RefSheet(wb, j, c) # 0 =>
            /\ SheetRef(c, from, n).kind = "ref" /\ SheetRef(c, from, n).row = c.row
            /\ RefSheet(v, j, SheetRef(c, from, n)) = RefSheet(wb, j, c)
  BY <1>1, <1>2, RenamedRef
<1>5. 0 \notin Ids(wb)
  BY <1>1, BookFields
<1> HIDE DEF v
<1>6. FormulasFollow(LAMBDA p : p, {})
  <2> SUFFICES ASSUME NEW p \in Cells(wb), CellAt(wb, p).kind = "ref",
                      RefSheet(wb, p[1], CellAt(wb, p)) # 0
               PROVE  LET target == PointsAt(wb, p[1], CellAt(wb, p))
                          new == CellAt(wb', p)
                      IN /\ target # Nowhere
                         /\ new.kind = "ref" /\ PointsAt(wb', p[1], new) = target
    BY DEF FormulasFollow
  <2> DEFINE c == CellAt(wb, p)
             new == CellAt(wb', p)
  <2>1. p[1] \in Ids(wb) /\ p[2] \in Row /\ c = wb.sheets[p[1]].cells[p[2]]
    BY CellsOf
  <2>2. c \in Content
    BY <1>1, <2>1, BookFields
  <2>3. new = SheetRef(c, from, n)
    BY <1>2, <1>3, <2>1 DEF CellAt
  <2> HIDE DEF c, new
  <2>4. c.kind = "ref" /\ RefSheet(wb, p[1], c) # 0
    BY DEF c
  <2>5. new.kind = "ref" /\ new.row = c.row /\ RefSheet(v, p[1], new) = RefSheet(wb, p[1], c)
    BY <1>4, <2>2, <2>3, <2>4
  <2>6. PointsAt(wb', p[1], new) = PointsAt(wb, p[1], c)
    BY <1>2, <2>5 DEF PointsAt
  <2>7. PointsAt(wb, p[1], c) # Nowhere
    BY <2>4 DEF PointsAt, Nowhere
  <2> QED
    BY <2>5, <2>6, <2>7 DEF c, new
<1>7. NamesFollow(LAMBDA p : p)
  <2> SUFFICES ASSUME NEW x \in Name, wb.names[x].kind = "ref",
                      RefSheet(wb, 0, wb.names[x]) # 0
               PROVE  LET target == PointsAt(wb, 0, wb.names[x])
                          new == wb'.names[x]
                      IN /\ target # Nowhere
                         /\ new.kind = "ref" /\ PointsAt(wb', 0, new) = target
    BY DEF NamesFollow
  <2> DEFINE c == wb.names[x]
             new == wb'.names[x]
  <2>1. c \in Content
    BY <1>1, BookFields
  <2>2. new = SheetRef(c, from, n)
    BY <1>2, <1>3
  <2> HIDE DEF c, new
  <2>3. c.kind = "ref" /\ RefSheet(wb, 0, c) # 0
    BY DEF c
  <2>4. new.kind = "ref" /\ new.row = c.row /\ RefSheet(v, 0, new) = RefSheet(wb, 0, c)
    BY <1>4, <2>1, <2>2, <2>3
  <2>5. PointsAt(wb', 0, new) = PointsAt(wb, 0, c)
    BY <1>2, <2>4 DEF PointsAt
  <2>6. PointsAt(wb, 0, c) # Nowhere
    BY <2>3 DEF PointsAt, Nowhere
  <2> QED
    BY <2>4, <2>5, <2>6 DEF c, new
<1> QED
  BY <1>6, <1>7

(* Deleting a sheet breaks the references to it and keeps all others.        *)
LEMMA DeleteKeepsReferences == IInv => DeleteFollows
<1> SUFFICES ASSUME IInv, NEW i \in Ids(wb), SheetDelete(i)
             PROVE  LET M(p) == IF p[1] = i THEN Nowhere ELSE p IN
                    FormulasFollow(M, {}) /\ NamesFollow(M)
  BY DEF DeleteFollows
<1> DEFINE from == wb.sheets[i].name
           v == Dropped(wb, i)
           M(p) == IF p[1] = i THEN Nowhere ELSE p
<1>1. wb \in Book
  BY DEF IInv, Typed
<1>2. wb' = v
  BY DeleteIs DEF Apply
<1>3. /\ Ids(v) = Ids(wb) \ {i}
      /\ \A j \in Ids(wb) \ {i}, o \in Row :
            v.sheets[j].cells[o] = SheetRef(wb.sheets[j].cells[o], from, NoSheet)
      /\ \A x \in Name : v.names[x] = SheetRef(wb.names[x], from, NoSheet)
  BY <1>1, DroppedIs
<1>4. \A j, c : j # i /\ c \in Content /\ c.kind = "ref" /\ RefSheet(wb, j, c) # 0 =>
            /\ RefSheet(wb, j, c) = i => SheetRef(c, from, NoSheet) = Broken
            /\ RefSheet(wb, j, c) # i =>
                  /\ SheetRef(c, from, NoSheet) = c
                  /\ RefSheet(v, j, SheetRef(c, from, NoSheet)) = RefSheet(wb, j, c)
  BY <1>1, DroppedRef
<1>5. 0 \notin Ids(wb)
  BY <1>1, BookFields
<1>6. \A j, c : LET target == M(PointsAt(wb, j, c))
                    new == SheetRef(c, from, NoSheet)
                IN
                j # i /\ c \in Content /\ c.kind = "ref" /\ RefSheet(wb, j, c) # 0 =>
                    \/ target = Nowhere /\ new = Broken
                    \/ target # Nowhere /\ new.kind = "ref" /\ PointsAt(v, j, new) = target
  <2> SUFFICES ASSUME NEW j, NEW c \in Content, j # i, c.kind = "ref",
                      RefSheet(wb, j, c) # 0
               PROVE  LET target == M(PointsAt(wb, j, c))
                          new == SheetRef(c, from, NoSheet)
                      IN \/ target = Nowhere /\ new = Broken
                         \/ target # Nowhere /\ new.kind = "ref" /\ PointsAt(v, j, new) = target
    OBVIOUS
  <2> DEFINE new == SheetRef(c, from, NoSheet)
             k == RefSheet(wb, j, c)
             t == PointsAt(wb, j, c)
  <2>1. t = <<k, c.row>> /\ t[1] = k /\ k # 0
    BY DEF PointsAt
  <2>2. /\ k = i => new = Broken
        /\ k # i => new = c /\ RefSheet(v, j, new) = k
    BY <1>4
  <2> HIDE DEF new, k, t, v
  <2>3. CASE k = i
    <3>1. M(t) = Nowhere
      BY <2>1, <2>3
    <3> QED
      BY <2>2, <2>3, <3>1 DEF new, t
  <2>4. CASE k # i
    <3>1. M(t) = t /\ t # Nowhere
      BY <2>1, <2>4 DEF Nowhere
    <3>2. PointsAt(v, j, new) = t
      BY <2>1, <2>2, <2>4 DEF PointsAt
    <3> QED
      BY <2>2, <2>4, <3>1, <3>2 DEF new, t
  <2> QED
    BY <2>3, <2>4
<1> HIDE DEF v
<1>7. FormulasFollow(M, {})
  <2> SUFFICES ASSUME NEW p \in Cells(wb), CellAt(wb, p).kind = "ref",
                      RefSheet(wb, p[1], CellAt(wb, p)) # 0, M(p) \in Cells(wb')
               PROVE  LET target == M(PointsAt(wb, p[1], CellAt(wb, p)))
                          new == CellAt(wb', M(p))
                      IN /\ target = Nowhere => new = Broken
                         /\ target \in Cells(wb') =>
                               new.kind = "ref" /\ PointsAt(wb', M(p)[1], new) = target
    BY DEF FormulasFollow
  <2> DEFINE c == CellAt(wb, p)
             new == CellAt(wb', M(p))
  <2>1. p[1] \in Ids(wb) /\ p[2] \in Row /\ c = wb.sheets[p[1]].cells[p[2]]
    BY CellsOf
  <2>2. c \in Content
    BY <1>1, <2>1, BookFields
  <2>3. Nowhere \notin Cells(wb')
    BY <1>2, <1>3, <1>5 DEF Cells, Nowhere
  <2>4. p[1] # i /\ M(p) = p
    BY <2>3
  <2>5. new = SheetRef(c, from, NoSheet)
    BY <1>2, <1>3, <2>1, <2>4 DEF CellAt
  <2> HIDE DEF c, new
  <2>6. c.kind = "ref" /\ RefSheet(wb, p[1], c) # 0
    BY DEF c
  <2> DEFINE target == M(PointsAt(wb, p[1], c))
  <2>7. \/ target = Nowhere /\ new = Broken
        \/ target # Nowhere /\ new.kind = "ref" /\ PointsAt(v, p[1], new) = target
    BY <1>6, <2>2, <2>4, <2>5, <2>6
  <2>8. /\ target = Nowhere => new = Broken
        /\ target \in Cells(wb') => new.kind = "ref" /\ PointsAt(wb', M(p)[1], new) = target
    BY <1>2, <2>3, <2>4, <2>7
  <2> QED
    BY <2>8 DEF c, new
<1>8. NamesFollow(M)
  <2> SUFFICES ASSUME NEW x \in Name, wb.names[x].kind = "ref",
                      RefSheet(wb, 0, wb.names[x]) # 0
               PROVE  LET target == M(PointsAt(wb, 0, wb.names[x]))
                          new == wb'.names[x]
                      IN IF target = Nowhere THEN new = Broken
                         ELSE new.kind = "ref" /\ PointsAt(wb', 0, new) = target
    BY DEF NamesFollow
  <2> DEFINE c == wb.names[x]
             new == wb'.names[x]
             target == M(PointsAt(wb, 0, c))
  <2>1. c \in Content
    BY <1>1, BookFields
  <2>2. new = SheetRef(c, from, NoSheet) /\ 0 # i
    BY <1>2, <1>3, <1>5
  <2>3. \/ target = Nowhere /\ new = Broken
        \/ target # Nowhere /\ new.kind = "ref" /\ PointsAt(v, 0, new) = target
    BY <1>6, <2>1, <2>2
  <2> QED
    BY <1>2, <2>3
<1> QED
  BY <1>7, <1>8

(* What a reference points at depends on the sheet it names, not on its row. *)
LEMMA RefSheetOfRow ==
    ASSUME NEW w, NEW j, NEW c \in Content, NEW k \in Nat
    PROVE  LET d == [c EXCEPT !.row = k] IN
           d.kind = c.kind /\ PointsAt(w, j, d) = <<RefSheet(w, j, c), k>>
<1> DEFINE d == [c EXCEPT !.row = k]
<1>1. d.kind = c.kind /\ d.sheet = c.sheet /\ d.row = k
  BY ContentFields
<1> HIDE DEF d
<1>2. RefSheet(w, j, d) = RefSheet(w, j, c)
  BY <1>1 DEF RefSheet
<1> QED
  BY <1>1, <1>2 DEF PointsAt, d

(* Where a row is sent when one is inserted or deleted.                      *)
LEMMA MapIndexTyped ==
    ASSUME NEW r \in Nat, NEW at \in Row, NEW insert \in BOOLEAN
    PROVE  MapIndex(r, at, insert) \in Nat
<1>1. at \in Nat /\ at >= 1
  BY DEF Row
<1> QED
  BY <1>1 DEF MapIndex

(* Inserting and deleting rows takes every reference along with its target. *)
LEMMA ShiftKeepsReferences == IInv => ShiftFollows
<1> SUFFICES ASSUME IInv, NEW i \in Ids(wb), NEW at \in Row, NEW insert \in BOOLEAN,
                    Shift(i, at, insert)
             PROVE  LET M(p) == IF p[1] # i THEN p
                                ELSE IF MapIndex(p[2], at, insert) = 0 THEN Nowhere
                                ELSE <<i, MapIndex(p[2], at, insert)>>
                    IN FormulasFollow(M, {})
  BY DEF ShiftFollows
<1> DEFINE v == Shifted(wb, i, at, insert)
           M(p) == IF p[1] # i THEN p
                   ELSE IF MapIndex(p[2], at, insert) = 0 THEN Nowhere
                   ELSE <<i, MapIndex(p[2], at, insert)>>
           New(j, c) == ShiftedContent(wb, j, c, i, at, insert)
<1>1. wb \in Book /\ 0 \notin Ids(wb)
  BY BookFields DEF IInv, Typed
<1>2. wb' = v
  BY ShiftIs DEF Apply
<1>3. /\ v \in Book /\ Frame(v, wb)
      /\ \A j \in Ids(wb) \ {i}, o \in Row :
            v.sheets[j].cells[o] = New(j, wb.sheets[j].cells[o])
      /\ \A o \in Row : MapIndex(o, at, insert) \in Row =>
            v.sheets[i].cells[MapIndex(o, at, insert)] = New(i, wb.sheets[i].cells[o])
  BY <1>1, ShiftedIs DEF Shifted
<1>4. Ids(v) = Ids(wb) /\ \A j \in Ids(wb) : v.sheets[j].name = wb.sheets[j].name
  BY <1>3 DEF Frame
<1> HIDE DEF v
<1>5. \A j, c : RefSheet(v, j, c) = RefSheet(wb, j, c)
  BY <1>1, <1>3, <1>4, RefSheetFrame
<1>6. ASSUME NEW j, NEW c \in Content, c.kind = "ref", RefSheet(wb, j, c) # 0
      PROVE  LET target == M(PointsAt(wb, j, c))
                 new == New(j, c)
             IN \/ target = Nowhere /\ new = Broken
                \/ target # Nowhere /\ new.kind = "ref" /\ PointsAt(v, j, new) = target
  <2> DEFINE k == RefSheet(wb, j, c)
             t == PointsAt(wb, j, c)
             m == MapIndex(c.row, at, insert)
             new == New(j, c)
  <2>1. t = <<k, c.row>> /\ t[1] = k /\ t[2] = c.row
    BY DEF PointsAt
  <2>2. m \in Nat
    BY MapIndexTyped, ContentFields
  <2>3. CASE k # i
    <3>1. new = c
      BY <2>3 DEF ShiftedContent
    <3>2. M(t) = t
      BY <2>1, <2>3
    <3>3. t # Nowhere
      BY <2>1, <1>6 DEF Nowhere
    <3>4. PointsAt(v, j, c) = t
      BY <1>5 DEF PointsAt
    <3> HIDE DEF new, t
    <3>5. new.kind = "ref" /\ PointsAt(v, j, new) = M(t) /\ M(t) # Nowhere
      BY <1>6, <3>1, <3>2, <3>3, <3>4
    <3> QED
      BY <3>5 DEF new, t
  <2>4. CASE k = i /\ m = 0
    <3>1. new = Broken
      BY <1>6, <2>4 DEF ShiftedContent
    <3>2. M(t) = Nowhere
      BY <2>1, <2>4
    <3> QED
      BY <3>1, <3>2
  <2>5. CASE k = i /\ m # 0
    <3>1. new = [c EXCEPT !.row = m]
      BY <1>6, <2>5 DEF ShiftedContent
    <3>2. M(t) = <<i, m>>
      BY <2>1, <2>5
    <3>3. new.kind = "ref" /\ PointsAt(v, j, new) = <<RefSheet(v, j, c), m>>
      BY <1>6, <2>2, <3>1, RefSheetOfRow
    <3>4. M(t) # Nowhere
      BY <3>2, <1>1 DEF Nowhere
    <3> HIDE DEF new, t
    <3>5. PointsAt(v, j, new) = M(t)
      BY <1>5, <2>5, <3>2, <3>3
    <3> QED
      BY <3>3, <3>4, <3>5 DEF new, t
  <2> QED
    BY <2>3, <2>4, <2>5
<1>7. ASSUME NEW p \in Cells(wb), M(p) \in Cells(wb')
      PROVE  CellAt(wb', M(p)) = New(p[1], CellAt(wb, p)) /\ M(p)[1] = p[1]
  <2>1. p[1] \in Ids(wb) /\ p[2] \in Row /\ CellAt(wb, p) = wb.sheets[p[1]].cells[p[2]]
    BY CellsOf
  <2>2. Nowhere \notin Cells(wb')
    BY <1>1, <1>2, <1>4 DEF Cells, Nowhere
  <2> HIDE DEF New
  <2>3. CASE p[1] # i
    <3>1. M(p) = p
      BY <2>3
    <3>2. v.sheets[p[1]].cells[p[2]] = New(p[1], wb.sheets[p[1]].cells[p[2]])
      BY <1>3, <2>1, <2>3
    <3> QED
      BY <1>2, <2>1, <3>1, <3>2 DEF CellAt
  <2>4. CASE p[1] = i
    <3> DEFINE m == MapIndex(p[2], at, insert)
    <3>1. M(p) = <<i, m>>
      BY <1>7, <2>2, <2>4
    <3>2. m \in Row
      BY <1>7, <3>1 DEF Cells
    <3>3. v.sheets[i].cells[m] = New(i, wb.sheets[i].cells[p[2]])
      BY <1>3, <2>1, <3>2
    <3> HIDE DEF m, M
    <3> QED
      BY <1>2, <2>1, <2>4, <3>1, <3>3 DEF CellAt
  <2> QED
    BY <2>3, <2>4
<1> SUFFICES ASSUME NEW p \in Cells(wb), CellAt(wb, p).kind = "ref",
                    RefSheet(wb, p[1], CellAt(wb, p)) # 0, M(p) \in Cells(wb')
             PROVE  LET target == M(PointsAt(wb, p[1], CellAt(wb, p)))
                        new == CellAt(wb', M(p))
                    IN /\ target = Nowhere => new = Broken
                       /\ target \in Cells(wb') =>
                             new.kind = "ref" /\ PointsAt(wb', M(p)[1], new) = target
  BY DEF FormulasFollow
<1> DEFINE c == CellAt(wb, p)
           new == CellAt(wb', M(p))
           target == M(PointsAt(wb, p[1], c))
<1>8. c \in Content
  BY <1>1, CellsOf, BookFields
<1>9. new = New(p[1], c) /\ M(p)[1] = p[1]
  BY <1>7
<1>10. Nowhere \notin Cells(wb')
  BY <1>1, <1>2, <1>4 DEF Cells, Nowhere
<1>11. c.kind = "ref" /\ RefSheet(wb, p[1], c) # 0
  OBVIOUS
<1> HIDE DEF c, New
<1>12. \/ target = Nowhere /\ New(p[1], c) = Broken
       \/ /\ target # Nowhere
          /\ New(p[1], c).kind = "ref" /\ PointsAt(v, p[1], New(p[1], c)) = target
  BY <1>6, <1>8, <1>11
<1> HIDE DEF new, target
<1>13. /\ target = Nowhere => new = Broken
       /\ target \in Cells(wb') => new.kind = "ref" /\ PointsAt(wb', M(p)[1], new) = target
  BY <1>2, <1>9, <1>10, <1>12
<1> QED
  BY <1>13 DEF target, new, c

(* What emptying a row changes.                                             *)
Emptied(w, i, r) == PutRow(w, i, r, Blank, FALSE)

LEMMA RowEmptied ==
    ASSUME NEW w \in Book, NEW i \in Ids(w), NEW r \in Row
    PROVE  LET v == Emptied(w, i, r) IN
           /\ v \in Book /\ Frame(v, w)
           /\ \A j \in Ids(w), o \in Row : v.sheets[j].cells[o] =
                 IF j = i /\ o = r THEN Blank ELSE w.sheets[j].cells[o]
<1>1. Blank \in Content /\ FALSE \in BOOLEAN
  BY ContentFields
<1>2. \A c \in Content, bold \in BOOLEAN :
        LET v == PutRow(w, i, r, c, bold) IN
        /\ v \in Book /\ Frame(v, w)
        /\ \A j \in Ids(w), o \in Row : v.sheets[j].cells[o] =
              IF j = i /\ o = r THEN c ELSE w.sheets[j].cells[o]
  BY RowPut
<1> QED
  BY <1>1, <1>2 DEF Emptied

(* Cutting a cell and pasting it on its sheet takes the references along.   *)
LEMMA CutKeepsReferences == IInv => CutFollows
<1> SUFFICES ASSUME IInv, NEW i \in Ids(wb), NEW r \in Row, NEW q \in Row,
                    CutPaste(i, r, i, q)
             PROVE  LET M(p) == IF p = <<i, r>> THEN <<i, q>> ELSE p IN
                    FormulasFollow(M, {<<i, q>>} \ {<<i, r>>})
  BY DEF CutFollows
<1> DEFINE cut == wb.sheets[i].cells[r]
           bold == r \in wb.sheets[i].formats
           emptied == Emptied(wb, i, r)
           written == PutRow(emptied, i, q, cut, bold)
           v == Moved(written, i, r, q - r)
           M(p) == IF p = <<i, r>> THEN <<i, q>> ELSE p
           lost == {<<i, q>>} \ {<<i, r>>}
           New(j, c) == MovedContent(written, j, c, i, r, q - r)
<1>1. wb \in Book /\ 0 \notin Ids(wb) /\ cut \in Content
  BY BookFields DEF IInv, Typed
<1>2. wb' = v
  BY DEF CutPaste, Apply, Emptied
<1>3. bold \in BOOLEAN /\ r \in Int /\ q \in Int /\ r \in Nat /\ q \in Nat
  BY DEF Row
<1>4. /\ emptied \in Book /\ Frame(emptied, wb)
      /\ \A j \in Ids(wb), o \in Row : emptied.sheets[j].cells[o] =
            IF j = i /\ o = r THEN Blank ELSE wb.sheets[j].cells[o]
  BY <1>1, RowEmptied
<1>5. Ids(emptied) = Ids(wb)
  BY <1>4 DEF Frame
<1> HIDE DEF emptied, bold, cut
<1>6. /\ written \in Book /\ Frame(written, emptied)
      /\ \A j \in Ids(wb), o \in Row : written.sheets[j].cells[o] =
            IF j = i /\ o = q THEN cut ELSE emptied.sheets[j].cells[o]
  BY <1>1, <1>3, <1>4, <1>5, RowPut
<1>7. Ids(written) = Ids(wb)
  BY <1>5, <1>6 DEF Frame
<1> HIDE DEF written
<1>8. /\ v \in Book /\ Frame(v, written)
      /\ \A j \in Ids(wb), o \in Row :
            v.sheets[j].cells[o] = New(j, written.sheets[j].cells[o])
  <2>1. q - r \in Int /\ r + (q - r) \in Nat
    BY <1>3
  <2> QED
    BY <1>6, <1>7, <2>1, MovedIs
<1> HIDE DEF v
<1>9. /\ Ids(v) = Ids(wb)
      /\ \A j, c : RefSheet(v, j, c) = RefSheet(wb, j, c)
      /\ \A j, c : RefSheet(written, j, c) = RefSheet(wb, j, c)
  <2>1. \A j \in Ids(wb) : emptied.sheets[j].name = wb.sheets[j].name
    BY <1>4, <1>5 DEF Frame
  <2>2. \A j \in Ids(wb) : written.sheets[j].name = wb.sheets[j].name
    BY <1>5, <1>6, <1>7, <2>1 DEF Frame
  <2>3. Ids(v) = Ids(wb) /\ \A j \in Ids(wb) : v.sheets[j].name = wb.sheets[j].name
    BY <1>7, <1>8, <2>2 DEF Frame
  <2> QED
    BY <1>1, <1>6, <1>7, <1>8, <2>2, <2>3, RefSheetFrame
<1>10. ASSUME NEW j, NEW c \in Content, c.kind = "ref", RefSheet(wb, j, c) # 0
       PROVE  LET target == M(PointsAt(wb, j, c))
                  new == New(j, c)
              IN target # Nowhere /\ new.kind = "ref" /\ PointsAt(v, j, new) = target
  <2> DEFINE k == RefSheet(wb, j, c)
             t == PointsAt(wb, j, c)
             new == New(j, c)
  <2>1. t = <<k, c.row>>
    BY DEF PointsAt
  <2>2. CASE k = i /\ c.row = r
    <3>1. M(t) = <<i, q>>
      BY <2>1, <2>2
    <3>2. c.row + (q - r) = q
      BY <1>3, <2>2
    <3>3. new = [c EXCEPT !.row = q]
      BY <1>9, <1>10, <2>2, <3>2 DEF MovedContent
    <3>4. new.kind = "ref" /\ PointsAt(v, j, new) = <<RefSheet(v, j, c), q>>
      <4>1. q \in Nat
        BY <1>3
      <4>2. LET d == [c EXCEPT !.row = q] IN
            d.kind = c.kind /\ PointsAt(v, j, d) = <<RefSheet(v, j, c), q>>
        BY <4>1, RefSheetOfRow
      <4> HIDE DEF new
      <4> QED
        BY <1>10, <3>3, <4>2
    <3>5. M(t) # Nowhere
      BY <1>1, <3>1 DEF Nowhere
    <3> HIDE DEF new, t
    <3>6. PointsAt(v, j, new) = M(t)
      BY <1>9, <2>2, <3>1, <3>4
    <3> QED
      BY <3>4, <3>5, <3>6 DEF new, t
  <2>3. CASE ~(k = i /\ c.row = r)
    <3>1. M(t) = t
      BY <2>1, <2>3
    <3>2. new = c
      BY <1>9, <2>3 DEF MovedContent
    <3>3. t # Nowhere
      BY <1>10, <2>1 DEF Nowhere
    <3>4. PointsAt(v, j, c) = t
      BY <1>9 DEF PointsAt
    <3> HIDE DEF new, t
    <3>5. new.kind = "ref" /\ PointsAt(v, j, new) = M(t) /\ M(t) # Nowhere
      BY <1>10, <3>1, <3>2, <3>3, <3>4
    <3> QED
      BY <3>5 DEF new, t
  <2> QED
    BY <2>2, <2>3
<1>11. ASSUME NEW p \in Cells(wb) \ lost
       PROVE  CellAt(wb', M(p)) = New(p[1], CellAt(wb, p)) /\ M(p)[1] = p[1]
  <2>1. /\ p = <<p[1], p[2]>> /\ p[1] \in Ids(wb) /\ p[2] \in Row
        /\ CellAt(wb, p) = wb.sheets[p[1]].cells[p[2]]
    BY CellsOf
  <2> HIDE DEF New
  <2>2. CASE p = <<i, r>>
    <3>1. p[1] = i /\ p[2] = r /\ M(p) = <<i, q>>
      BY <2>2
    <3>2. CellAt(wb, p) = cut
      BY <2>1, <3>1 DEF cut
    <3>3. v.sheets[i].cells[q] = New(i, cut)
      BY <1>6, <1>8
    <3> HIDE DEF M
    <3>4. CellAt(wb', M(p)) = v.sheets[i].cells[q]
      BY <1>2, <3>1 DEF CellAt
    <3> QED
      BY <3>1, <3>2, <3>3, <3>4
  <2>3. CASE p # <<i, r>>
    <3>1. M(p) = p
      BY <2>3
    <3>2. ~(p[1] = i /\ p[2] = r) /\ ~(p[1] = i /\ p[2] = q)
      BY <2>1, <2>3
    <3>3. written.sheets[p[1]].cells[p[2]] = wb.sheets[p[1]].cells[p[2]]
      BY <1>4, <1>6, <2>1, <3>2
    <3>4. v.sheets[p[1]].cells[p[2]] = New(p[1], wb.sheets[p[1]].cells[p[2]])
      BY <1>8, <2>1, <3>3
    <3> QED
      BY <1>2, <2>1, <3>1, <3>4 DEF CellAt
  <2> QED
    BY <2>2, <2>3
<1> SUFFICES ASSUME NEW p \in Cells(wb) \ lost, CellAt(wb, p).kind = "ref",
                    RefSheet(wb, p[1], CellAt(wb, p)) # 0, M(p) \in Cells(wb')
             PROVE  LET target == M(PointsAt(wb, p[1], CellAt(wb, p)))
                        new == CellAt(wb', M(p))
                    IN /\ target = Nowhere => new = Broken
                       /\ target \in Cells(wb') =>
                             new.kind = "ref" /\ PointsAt(wb', M(p)[1], new) = target
  BY DEF FormulasFollow
<1> DEFINE c == CellAt(wb, p)
           new == CellAt(wb', M(p))
           target == M(PointsAt(wb, p[1], c))
<1>12. c \in Content
  BY <1>1, CellsOf, BookFields
<1>13. new = New(p[1], c) /\ M(p)[1] = p[1]
  BY <1>11
<1>14. c.kind = "ref" /\ RefSheet(wb, p[1], c) # 0
  OBVIOUS
<1> HIDE DEF c, New
<1>15. /\ target # Nowhere
       /\ New(p[1], c).kind = "ref" /\ PointsAt(v, p[1], New(p[1], c)) = target
  BY <1>10, <1>12, <1>14
<1> HIDE DEF new, target
<1>16. target # Nowhere /\ new.kind = "ref" /\ PointsAt(wb', M(p)[1], new) = target
  BY <1>2, <1>13, <1>15
<1> QED
  BY <1>16 DEF target, new, c

(* A reference keeps its cell: no renaming, no deletion of a sheet, no       *)
(* insertion or deletion of rows and no cut within a sheet makes a formula  *)
(* point at anything but where its target went, and what points at a       *)
(* deleted cell or sheet, and nothing else, becomes an error.               *)
THEOREM ReferencesAlwaysFollow == Spec => ReferencesFollow
<1>1. IInv /\ [Next]_vars =>
        [actions' # actions =>
            RenameFollows /\ DeleteFollows /\ ShiftFollows /\ CutFollows]_vars
  BY RenameKeepsReferences, DeleteKeepsReferences, ShiftKeepsReferences, CutKeepsReferences
<1> QED
  BY <1>1, AlwaysIInv, PTL DEF Spec, ReferencesFollow

================================================================================
