---------------------------- MODULE AgentRun_proofs ----------------------------
(***************************************************************************)
(* What the agent's loop promises for every size of sheet, every task, every *)
(* plan and every budget: a run resumes from where it stands, its record    *)
(* replays, formulas stay formulas, and errors do not grow.                 *)
(*                                                                          *)
(* The library's induction theorems take an operator, which no backend can  *)
(* instantiate; what is proved by induction here is proved by the least     *)
(* number it would fail for.                                                *)
(***************************************************************************)
EXTENDS AgentRun, SequenceTheorems, FiniteSetTheorems, WellFoundedInduction, TLAPS

----------------------------------------------------------------------------
(* Numbers and sequences.                                                   *)

(* A set of numbers that is not empty has a least one.                      *)
LEMMA LeastNumber ==
    ASSUME NEW T, T \subseteq Nat, T # {}
    PROVE  \E x \in T : \A y \in T : x <= y
<1> DEFINE R == {ss \in Nat \X Nat : ss[1] < ss[2]}
<1>1. IsWellFoundedOn(R, Nat)
  BY NatLessThanWellFounded DEF OpToRel
<1>2. \A x, y \in Nat : y < x => <<y, x>> \in R
  OBVIOUS
<1> HIDE DEF R
<1>3. PICK x \in T : \A y \in T : ~(<<y, x>> \in R)
  BY <1>1, WFMin
<1>4. \A y \in T : ~(y < x)
  BY <1>2, <1>3
<1>5. \A y \in T : x <= y
  BY <1>4
<1> QED
  BY <1>5

(* The least number of a set is one of it.                                  *)
LEMMA MinIsMember ==
    ASSUME NEW S, S \subseteq Nat, S # {}
    PROVE  Min(S) \in S
<1>1. \E x \in S : \A y \in S : x <= y
  BY LeastNumber
<1> QED
  BY <1>1 DEF Min

(* The greatest number of a bounded set is one of it.                       *)
LEMMA MaxIsMember ==
    ASSUME NEW n \in Nat, NEW S, S \subseteq 1..n, S # {}
    PROVE  Max(S) \in S
<1> DEFINE T == {n - x : x \in S}
<1>1. T \subseteq Nat /\ T # {}
  <2>1. \A x \in S : n - x \in Nat
    OBVIOUS
  <2> QED
    BY <2>1
<1>2. PICK t \in T : \A u \in T : t <= u
  BY <1>1, LeastNumber
<1>3. PICK x \in S : t = n - x
  BY <1>2
<1>4. \A y \in S : n - x <= n - y
  BY <1>2, <1>3
<1>5. \A y \in S : x >= y
  BY <1>4
<1> QED
  BY <1>5 DEF Max

(* A sequence, of whatever it is one of. *)
IsSeq(s) == Len(s) \in Nat /\ s = [i \in 1..Len(s) |-> s[i]]

(* A sequence is one of its own elements.                                   *)
LEMMA SeqOfItsOwn ==
    ASSUME NEW s, IsSeq(s)
    PROVE  s \in Seq({s[i] : i \in 1..Len(s)}) /\ DOMAIN s = 1..Len(s)
<1> DEFINE S == {s[i] : i \in 1..Len(s)}
<1>1. s \in [1..Len(s) -> S] /\ Len(s) \in Nat
  BY DEF IsSeq
<1> HIDE DEF S
<1> QED
  BY <1>1, SeqDef DEF S

(* A sequence of some set is a sequence.                                    *)
LEMMA SeqIsSeq ==
    ASSUME NEW S, NEW s \in Seq(S)
    PROVE  IsSeq(s)
BY LenProperties DEF IsSeq

(* A function on the numbers up to n is a sequence as long.                 *)
LEMMA FunctionIsSeq ==
    ASSUME NEW n \in Nat, NEW s, s = [i \in 1..n |-> s[i]]
    PROVE  IsSeq(s) /\ Len(s) = n
<1> DEFINE S == {s[i] : i \in 1..n}
<1>1. s \in [1..n -> S]
  OBVIOUS
<1> HIDE DEF S
<1>2. s \in Seq(S)
  BY <1>1, SeqDef
<1> QED
  BY <1>1, <1>2, LenProperties DEF IsSeq

(* The empty sequence is one.                                               *)
LEMMA EmptyIsSeq == IsSeq(<<>>) /\ Len(<<>>) = 0 /\ DOMAIN <<>> = {}
<1> DEFINE s == <<>>
<1>1. s \in Seq({}) /\ Len(s) = 0
  BY EmptySeq
<1> HIDE DEF s
<1>2. IsSeq(s) /\ DOMAIN s = 1..Len(s)
  BY <1>1, SeqIsSeq, LenProperties
<1> QED
  BY <1>1, <1>2 DEF s

(* What is appended comes last and moves nothing.                           *)
LEMMA AppendIsSeq ==
    ASSUME NEW s, IsSeq(s), NEW e
    PROVE  /\ IsSeq(Append(s, e)) /\ Len(Append(s, e)) = Len(s) + 1 /\ Append(s, e) # <<>>
           /\ DOMAIN Append(s, e) = 1..(Len(s) + 1)
           /\ \A i \in 1..Len(s) : Append(s, e)[i] = s[i]
           /\ Append(s, e)[Len(s) + 1] = e
<1> DEFINE S == {s[i] : i \in 1..Len(s)} \union {e}
<1>1. s \in Seq(S)
  <2> DEFINE T == {s[i] : i \in 1..Len(s)}
  <2>1. s \in Seq(T) /\ T \subseteq S
    BY SeqOfItsOwn
  <2> HIDE DEF T, S
  <2> QED
    BY <2>1, SeqMonotonic
<1>2. e \in S
  OBVIOUS
<1> HIDE DEF S
<1>3. /\ Append(s, e) \in Seq(S)
      /\ Append(s, e) # <<>>
      /\ Len(Append(s, e)) = Len(s) + 1
      /\ \A i \in 1..Len(s) : Append(s, e)[i] = s[i]
      /\ Append(s, e)[Len(s) + 1] = e
  BY <1>1, <1>2, AppendProperties
<1>4. IsSeq(Append(s, e)) /\ DOMAIN Append(s, e) = 1..Len(Append(s, e))
  BY <1>3, SeqIsSeq, LenProperties
<1> QED
  BY <1>3, <1>4

(* The tail is the rest, one place further up.                              *)
LEMMA TailIsSeq ==
    ASSUME NEW s, IsSeq(s), s # <<>>
    PROVE  /\ Len(s) >= 1 /\ Head(s) = s[1]
           /\ IsSeq(Tail(s)) /\ Len(Tail(s)) = Len(s) - 1
           /\ \A i \in 1..(Len(s) - 1) : Tail(s)[i] = s[i + 1]
<1> DEFINE S == {s[i] : i \in 1..Len(s)}
<1>1. s \in Seq(S)
  BY SeqOfItsOwn
<1> HIDE DEF S
<1>2. Len(s) \in Nat \ {0}
  BY <1>1, EmptySeq
<1>3. /\ Tail(s) \in Seq(S)
      /\ Len(Tail(s)) = Len(s) - 1
      /\ \A i \in 1..Len(Tail(s)) : Tail(s)[i] = s[i + 1]
  BY <1>1, HeadTailProperties
<1>4. IsSeq(Tail(s))
  BY <1>3, SeqIsSeq
<1>5. Head(s) = s[1]
  BY <1>1
<1> QED
  BY <1>2, <1>3, <1>4, <1>5

----------------------------------------------------------------------------
(* Taking actions one after the other.                                      *)

(* The workbooks between the actions. *)
IsChain(g, book, actions) ==
    g = [n \in 0..Len(actions) |-> IF n = 0 THEN book ELSE Apply(g[n - 1], actions[n])]

(* Taking all actions goes through a chain of workbooks to its last.        *)
LEMMA ApplyAllIsAChain ==
    ASSUME NEW book, NEW actions, IsSeq(actions)
    PROVE  \E g : IsChain(g, book, actions) /\ ApplyAll(book, actions) = g[Len(actions)]
<1> DEFINE Rec(g, m) == g = [n \in 0..m |-> IF n = 0 THEN book ELSE Apply(g[n - 1], actions[n])]
           Bad == {m \in Nat : ~ \E g : Rec(g, m)}
<1>1. Bad = {}
  <2> SUFFICES ASSUME Bad # {} PROVE FALSE
    OBVIOUS
  <2>1. PICK m \in Bad : \A k \in Bad : m <= k
    BY LeastNumber
  <2>2. m # 0
    <3>1. Rec([n \in 0..0 |-> book], 0)
      OBVIOUS
    <3> QED
      BY <3>1
  <2>3. m \in Nat /\ m - 1 \in Nat /\ m - 1 \notin Bad
    BY <2>1, <2>2
  <2>4. PICK g : Rec(g, m - 1)
    BY <2>3
  <2> DEFINE h == [n \in 0..m |-> IF n = 0 THEN book ELSE Apply(g[n - 1], actions[n])]
  <2>5. \A n \in 0..(m - 1) : h[n] = g[n]
    BY <2>3, <2>4
  <2>6. \A n \in 0..m : n # 0 => n - 1 \in 0..(m - 1) /\ h[n - 1] = g[n - 1]
    <3>1. \A n \in 0..m : n # 0 => n - 1 \in 0..(m - 1)
      BY <2>3
    <3> HIDE DEF h
    <3> QED
      BY <2>5, <3>1
  <2>7. Rec(h, m)
    BY <2>6
  <2> QED
    BY <2>1, <2>7
<1>2. Len(actions) \in Nat
  BY DEF IsSeq
<1>3. \E g : Rec(g, Len(actions))
  BY <1>1, <1>2
<1> QED
  BY <1>3 DEF ApplyAll, IsChain

(* Two chains that meet stay together for as long as they take the same     *)
(* actions.                                                                 *)
LEMMA ChainsAgree ==
    ASSUME NEW g, NEW v, NEW a, IsSeq(a), IsChain(g, v, a),
           NEW h, NEW w, NEW b, IsSeq(b), IsChain(h, w, b),
           NEW k \in Nat, NEW l \in Nat, NEW m \in Nat, k + m <= Len(a), l + m <= Len(b),
           g[k] = h[l], \A i \in 1..m : a[k + i] = b[l + i]
    PROVE  g[k + m] = h[l + m]
<1> DEFINE Apart == {i \in 0..m : g[k + i] # h[l + i]}
<1>0. Len(a) \in Nat /\ Len(b) \in Nat
  BY DEF IsSeq
<1>1. Apart = {}
  <2> SUFFICES ASSUME Apart # {} PROVE FALSE
    OBVIOUS
  <2>0. Apart \subseteq Nat
    OBVIOUS
  <2> HIDE DEF Apart
  <2>1. PICK i \in Apart : \A j \in Apart : i <= j
    BY <2>0, LeastNumber
  <2> USE DEF Apart
  <2>2. i # 0 /\ i \in 1..m
    <3>1. g[k + 0] = h[l + 0]
      OBVIOUS
    <3>2. i \in 0..m /\ g[k + i] # h[l + i]
      BY <2>1
    <3> HIDE DEF Apart
    <3> QED
      BY <3>1, <3>2
  <2>3. i - 1 \in 0..m /\ i - 1 \notin Apart
    <3> HIDE DEF Apart
    <3>1. i - 1 \in 0..m /\ ~(i <= i - 1)
      BY <2>2
    <3> QED
      BY <2>1, <3>1
  <2>4. g[k + (i - 1)] = h[l + (i - 1)]
    BY <2>3
  <2>5. /\ k + i \in 0..Len(a) /\ k + i # 0 /\ (k + i) - 1 = k + (i - 1)
        /\ l + i \in 0..Len(b) /\ l + i # 0 /\ (l + i) - 1 = l + (i - 1)
    BY <1>0, <2>2
  <2>6. g[k + i] = Apply(g[k + (i - 1)], a[k + i])
    BY <2>5 DEF IsChain
  <2>7. h[l + i] = Apply(h[l + (i - 1)], b[l + i])
    BY <2>5 DEF IsChain
  <2> QED
    BY <2>1, <2>2, <2>4, <2>6, <2>7
<1>2. m \in 0..m
  OBVIOUS
<1> QED
  BY <1>1, <1>2

(* No action leaves the workbook as it is.                                  *)
LEMMA ApplyNone == ASSUME NEW book PROVE ApplyAll(book, <<>>) = book
<1>1. PICK g : IsChain(g, book, <<>>) /\ ApplyAll(book, <<>>) = g[0]
  BY EmptyIsSeq, ApplyAllIsAChain
<1> QED
  BY <1>1, EmptyIsSeq DEF IsChain

(* One more action is taken on what the others left.                        *)
LEMMA ApplyOneMore ==
    ASSUME NEW book, NEW actions, IsSeq(actions), NEW action
    PROVE  ApplyAll(book, Append(actions, action)) = Apply(ApplyAll(book, actions), action)
<1> DEFINE all == Append(actions, action)
           n == Len(actions)
<1>1. /\ IsSeq(all) /\ Len(all) = n + 1 /\ n \in Nat
      /\ \A i \in 1..n : all[i] = actions[i]
      /\ all[n + 1] = action
  BY AppendIsSeq DEF IsSeq
<1> HIDE DEF all
<1>2. PICK g : IsChain(g, book, actions) /\ ApplyAll(book, actions) = g[n]
  BY ApplyAllIsAChain
<1>3. PICK h : IsChain(h, book, all) /\ ApplyAll(book, all) = h[n + 1]
  BY <1>1, ApplyAllIsAChain
<1>4. g[0] = book /\ h[0] = book
  BY <1>1, <1>2, <1>3 DEF IsChain
<1>5. g[n] = h[n]
  <2> DEFINE z == 0
  <2>1. /\ z \in Nat /\ z + n = n /\ z + n <= Len(actions) /\ z + n <= Len(all)
        /\ g[z] = h[z]
        /\ \A i \in 1..n : actions[z + i] = all[z + i]
    BY <1>1, <1>4
  <2>2. IsChain(g, book, actions) /\ IsChain(h, book, all) /\ IsSeq(all) /\ n \in Nat
    BY <1>1, <1>2, <1>3
  <2> HIDE DEF n, z
  <2>3. g[z + n] = h[z + n]
    BY <2>1, <2>2, ChainsAgree, SMTT(120)
  <2> QED
    BY <2>1, <2>3
<1>6. h[n + 1] = Apply(h[n], action)
  BY <1>1, <1>3 DEF IsChain
<1> QED
  BY <1>1, <1>2, <1>3, <1>5, <1>6 DEF all

(* All actions are the first one and then the rest.                         *)
LEMMA ApplyHeadFirst ==
    ASSUME NEW book, NEW actions, IsSeq(actions), actions # <<>>
    PROVE  ApplyAll(book, actions) = ApplyAll(Apply(book, Head(actions)), Tail(actions))
<1> DEFINE first == Apply(book, Head(actions))
           rest == Tail(actions)
           n == Len(rest)
<1>1. /\ IsSeq(rest) /\ n \in Nat /\ Len(actions) = n + 1 /\ Head(actions) = actions[1]
      /\ \A i \in 1..n : rest[i] = actions[1 + i]
  BY TailIsSeq DEF IsSeq
<1> HIDE DEF rest, n
<1>2. PICK g : IsChain(g, book, actions) /\ ApplyAll(book, actions) = g[n + 1]
  BY <1>1, ApplyAllIsAChain
<1>3. PICK h : IsChain(h, first, rest) /\ ApplyAll(first, rest) = h[n]
  BY <1>1, ApplyAllIsAChain DEF n
<1>4. h[0] = first /\ g[0] = book
  BY <1>1, <1>2, <1>3 DEF IsChain, n
<1>5. g[1] = Apply(g[0], actions[1])
  BY <1>1, <1>2 DEF IsChain
<1>6. g[1 + n] = h[0 + n]
  <2>1. 1 + n <= Len(actions) /\ 0 + n <= Len(rest) /\ \A i \in 1..n : actions[1 + i] = rest[0 + i]
    BY <1>1 DEF n
  <2>2. g[1] = h[0]
    BY <1>1, <1>4, <1>5
  <2>3. n \in Nat /\ 0 \in Nat /\ 1 \in Nat /\ IsSeq(rest)
    BY <1>1
  <2> HIDE DEF first
  <2> QED
    BY <1>2, <1>3, <2>1, <2>2, <2>3, ChainsAgree
<1> QED
  BY <1>1, <1>2, <1>3, <1>6 DEF rest

----------------------------------------------------------------------------
(* What an action does to a workbook.                                       *)

(* An action leaves a workbook.                                             *)
LEMMA ApplyIsBook ==
    ASSUME NEW book, IsBook(book), NEW action
    PROVE  IsBook(Apply(book, action))
<1>1. CASE ~Applies(action)
  BY <1>1 DEF Apply
<1>2. CASE Applies(action) /\ action.op = "edit"
  <2>1. Apply(book, action) = [book EXCEPT ![action.at] = action.input]
    BY <1>2 DEF Apply
  <2> QED
    BY <2>1 DEF IsBook
<1>3. CASE Applies(action) /\ action.op = "fill"
  <2> DEFINE content(c) == IF c \in Targets(action)
                           THEN MovedDown(book[action.at], c[1] - action.at[1]) ELSE book[c]
  <2>1. Apply(book, action) = [c \in Cell |-> content(c)]
    BY <1>3 DEF Apply
  <2> HIDE DEF content
  <2> QED
    BY <2>1 DEF IsBook
<1>4. CASE Applies(action) /\ action.op \notin {"edit", "fill"}
  BY <1>4 DEF Apply
<1> QED
  BY <1>1, <1>2, <1>3, <1>4

(* A table whose rows can be counted. *)
Bounded(table) == table.header \in Int /\ table.last \in Int

(* The rows of the table that is detected are numbers.                      *)
LEMMA DetectedIsBounded == ASSUME NEW book PROVE Bounded(DetectTable(book))
<1> DEFINE shown == Shown(book)
           headers == {r \in 1..Rows : MayBeHeader(shown, r)}
           header == Min(headers)
           firstCol == Min({c \in 1..Cols : shown[<<header, c>>] # Empty})
           lastCol == Max({c \in firstCol..Cols : \A d \in firstCol..c : shown[<<header, d>>] # Empty})
           body == {r \in (header + 1)..Rows :
                        \E c \in firstCol..lastCol : shown[<<r, c>>] # Empty}
           last == Max(body)
           table == DetectTable(book)
<1>1. Rows \in Nat
  BY SheetAssumption
<1>2. CASE headers = {}
  BY <1>2 DEF DetectTable, NoTable, Bounded
<1>3. CASE headers # {} /\ body = {}
  BY <1>3 DEF DetectTable, NoTable, Bounded
<1>4. CASE headers # {} /\ body # {}
  <2>1. headers \subseteq Nat /\ headers \subseteq 1..Rows
    BY <1>1
  <2>2. header \in headers
    <3> HIDE DEF headers
    <3> QED
      BY <1>4, <2>1, MinIsMember
  <2>3. header \in 1..Rows
    BY <2>1, <2>2
  <2>4. body \subseteq 1..Rows
    <3> HIDE DEF header, firstCol, lastCol, shown
    <3> QED
      BY <1>1, <2>3
  <2>5. last \in body
    <3> HIDE DEF body
    <3> QED
      BY <1>1, <1>4, <2>4, MaxIsMember
  <2>6. last \in 1..Rows
    BY <2>4, <2>5
  <2>7. table.header = header /\ table.last = last
    BY <1>4 DEF DetectTable
  <2> HIDE DEF table, header, last
  <2> QED
    BY <1>1, <2>3, <2>6, <2>7 DEF Bounded, table
<1> QED
  BY <1>2, <1>3, <1>4

----------------------------------------------------------------------------
(* What a step compiles to.                                                 *)

(* A fill comes alone and copies a formula. *)
FillsCopyFormulas(actions, book) ==
    \A i \in 1..Len(actions) :
        actions[i].op = "fill" => Len(actions) = 1 /\ actions[i].at \in FormulaCells(book)

(* A sequence of one.                                                       *)
LEMMA OneIsSeq == ASSUME NEW a PROVE IsSeq(<<a>>) /\ Len(<<a>>) = 1 /\ <<a>>[1] = a
<1> DEFINE s == <<a>>
<1>1. s \in Seq({a}) /\ Len(s) = 1 /\ s[1] = a
  OBVIOUS
<1> HIDE DEF s
<1>2. IsSeq(s)
  BY <1>1, SeqIsSeq
<1> QED
  BY <1>1, <1>2 DEF s

(* What a step compiles to: a sequence of actions, fills alone and of a     *)
(* formula.                                                                 *)
LEMMA CompiledIsSound ==
    ASSUME NEW step \in PlanSteps, NEW book, NEW table, Bounded(table), NEW current, Bounded(current)
    PROVE  LET compiled == Compile(step, book, table, current) IN
           /\ IsSeq(compiled.actions)
           /\ FillsCopyFormulas(compiled.actions, book)
           /\ Bounded(compiled.subject) /\ "actions" \in DOMAIN compiled
<1> DEFINE Sound(compiled) ==
                /\ IsSeq(compiled.actions)
                /\ FillsCopyFormulas(compiled.actions, book)
                /\ Bounded(compiled.subject) /\ "actions" \in DOMAIN compiled
<1>1. step.do \in StepKind
  BY RunAssumption
<1>2. ASSUME NEW scope, NEW subj, Bounded(subj) PROVE Sound(Compiled(<<>>, scope, subj))
  BY <1>2, EmptyIsSeq DEF Compiled, FillsCopyFormulas
<1>3. ASSUME NEW action, action.op # "fill" \/ action.at \in FormulaCells(book), NEW scope
      PROVE  Sound(Compiled(<<action>>, scope, NoSubject))
  <2> DEFINE one == <<action>>
  <2>1. IsSeq(one) /\ Len(one) = 1 /\ one[1] = action
    BY OneIsSeq
  <2> HIDE DEF one
  <2>2. FillsCopyFormulas(one, book)
    BY <1>3, <2>1 DEF FillsCopyFormulas
  <2>3. Bounded(NoSubject)
    BY DEF Bounded, NoSubject, NoTable
  <2>4. Sound(Compiled(one, scope, NoSubject))
    BY <2>1, <2>2, <2>3 DEF Compiled
  <2> QED
    BY <2>4 DEF one
<1>4. Bounded(NoSubject)
  BY DEF Bounded, NoSubject, NoTable
<1>5. Sound(Refused) /\ Sound(Nothing)
  BY <1>4, EmptyIsSeq DEF Refused, Nothing, Compiled, FillsCopyFormulas
<1> SUFFICES Sound(Compile(step, book, table, current))
  OBVIOUS
<1> HIDE DEF Sound
<1>6. CASE step.do = "locate_table"
  BY <1>2, <1>5, <1>6 DEF Compile, Locate
<1>7. CASE step.do = "export_workbook"
  BY <1>5, <1>7 DEF Compile
<1>8. CASE current = NoSubject /\ step.do \notin {"locate_table", "export_workbook"}
  BY <1>5, <1>8 DEF Compile
<1>9. CASE current # NoSubject /\ step.do = "create_derived_column"
  <2> DEFINE col == ColumnFor(current, step.column)
             rows == RowsOf(current, step.rows)
             n == rows[2] - rows[1] + 2
             cell(i) == IF i = 1 THEN <<current.header, col>> ELSE <<rows[1] + i - 2, col>>
             input(i) == IF i = 1 THEN Text(step.header)
                         ELSE Substituted(current, step.formula, rows[1] + i - 2)
             actions == [i \in 1..n |-> Edit(cell(i), input(i))]
  <2>1. Compile(step, book, table, current) = DerivedColumn(step, current)
    BY <1>9 DEF Compile
  <2>2. CASE ~RowsAreSound(current, step.rows)
    BY <1>5, <2>1, <2>2 DEF DerivedColumn
  <2>3. CASE RowsAreSound(current, step.rows)
    <3>1. step.rows \in Int \X Int
      BY <1>9, RunAssumption
    <3>2. n \in Nat
      BY <2>3, <3>1 DEF RowsAreSound, RowsOf, Bounded
    <3>3. \A i \in 1..n : actions[i].op = "edit"
      BY DEF Edit
    <3>4. actions = [i \in 1..n |-> actions[i]]
      OBVIOUS
    <3> HIDE DEF actions
    <3>5. IsSeq(actions) /\ Len(actions) = n
      BY <3>2, <3>4, FunctionIsSeq
    <3>6. FillsCopyFormulas(actions, book)
      BY <3>3, <3>5 DEF FillsCopyFormulas
    <3>7. Bounded(Widened(current, col, step.header))
      BY DEF Widened, Bounded
    <3>8. \A scope : Sound(Compiled(actions, scope, Widened(current, col, step.header)))
      BY <3>5, <3>6, <3>7 DEF Sound, Compiled
    <3>9. \/ DerivedColumn(step, current) = Refused
          \/ \E scope : DerivedColumn(step, current) = Compiled(actions, scope, Widened(current, col, step.header))
      BY DEF DerivedColumn, actions
    <3> QED
      BY <1>5, <2>1, <3>8, <3>9
  <2> QED
    BY <2>2, <2>3
<1>10. CASE current # NoSubject /\ step.do = "apply_formula"
  <2>1. \A at, input : Edit(at, input).op = "edit" /\ EditElsewhere(at, input).op = "edit"
    BY DEF Edit, EditElsewhere
  <2>2. Compile(step, book, table, current) = ApplyFormula(step, current)
    BY <1>10 DEF Compile
  <2>3. \/ ApplyFormula(step, current) = Refused
        \/ \E at, input, scope :
                \/ ApplyFormula(step, current) = Compiled(<<Edit(at, input)>>, scope, NoSubject)
                \/ ApplyFormula(step, current) = Compiled(<<EditElsewhere(at, input)>>, scope, NoSubject)
    BY DEF ApplyFormula
  <2> QED
    BY <1>3, <1>5, <2>1, <2>2, <2>3
<1>11. CASE current # NoSubject /\ step.do = "fill_range"
  <2>1. \A from, to : FillDown(from, to).at = from
    BY DEF FillDown
  <2>2. Compile(step, book, table, current) = Fill(step, current, book)
    BY <1>11 DEF Compile
  <2>3. \/ Fill(step, current, book) \in {Refused, Nothing}
        \/ \E from \in FormulaCells(book) : \E to, scope :
                Fill(step, current, book) = Compiled(<<FillDown(from, to)>>, scope, NoSubject)
    BY DEF Fill
  <2> QED
    BY <1>3, <1>5, <2>1, <2>2, <2>3
<1>12. CASE current # NoSubject /\ step.do = "filter_rows"
  <2>1. \A from, to : HideRows(from, to).op = "filter"
    BY DEF HideRows
  <2>2. Compile(step, book, table, current) = Filter(step, current)
    BY <1>12 DEF Compile
  <2>3. \/ Filter(step, current) = Refused
        \/ \E from, to, scope : Filter(step, current) = Compiled(<<HideRows(from, to)>>, scope, NoSubject)
    BY DEF Filter
  <2> QED
    BY <1>3, <1>5, <2>1, <2>2, <2>3
<1>13. CASE current # NoSubject /\ step.do = "reconcile_totals"
  <2>1. \A at, input : Edit(at, input).op = "edit"
    BY DEF Edit
  <2>2. Compile(step, book, table, current) = Reconcile(step, current)
    BY <1>13 DEF Compile
  <2>3. \/ Reconcile(step, current) \in {Refused, Nothing}
        \/ \E at, input, scope : Reconcile(step, current) = Compiled(<<Edit(at, input)>>, scope, NoSubject)
    BY DEF Reconcile
  <2> QED
    BY <1>3, <1>5, <2>1, <2>2, <2>3
<1> QED
  BY <1>1, <1>6, <1>7, <1>8, <1>9, <1>10, <1>11, <1>12, <1>13 DEF StepKind

----------------------------------------------------------------------------
(* Type correctness.                                                        *)

(* What the next step needs beside the types: sequences are sequences, the  *)
(* tables can be counted in, the budget is not spent before the end, and    *)
(* refusals are counted when a plan is asked for.                           *)
Shape ==
    /\ TypeOK
    /\ IsSeq(trajectory) /\ IsSeq(applied)
    /\ Bounded(seen) /\ Bounded(subject) /\ Bounded(committing.compiled.subject)
    /\ "compiled" \in DOMAIN committing /\ "actions" \in DOMAIN committing.compiled
    /\ IsSeq(committing.compiled.actions)
    /\ phase \in {"attempting", "committing"} => replans <= MaxReplans
    /\ phase # "ended" => steps < MaxSteps

(* The actions that leave the workbook and the checkpoints alone.           *)
Quiet == OutOfReplans \/ PlannerGivesUp \/ Propose \/ PlanRunsOut

(* The quiet actions leave the workbook and its record alone.               *)
LEMMA QuietKeeps ==
    ASSUME Quiet
    PROVE  /\ UNCHANGED <<task, base, wb, steps, trajectory, subject, committing, applied, resumes>>
           /\ phase \in {"proposing", "attempting"}
           /\ phase' # "committing"
BY DEF Quiet, OutOfReplans, PlannerGivesUp, Propose, PlanRunsOut, End, AskAgain, Episode, World

(* A run starts in shape.                                                   *)
LEMMA ShapeStart ==
    ASSUME NEW book, IsBook(book), IsBook(task), StartAt(book), resumes \in 0..MaxResumes
    PROVE  Shape
<1>1. /\ base = book /\ wb = book /\ steps = 0 /\ trajectory = <<>> /\ phase = "proposing" /\ left = 0
      /\ seen = NoTable /\ subject = NoSubject /\ committing = NoStep /\ applied = <<>> /\ replans = 0
      /\ ending = "none"
  BY DEF StartAt
<1>2. /\ IsSeq(trajectory) /\ IsSeq(applied) /\ Len(trajectory) = 0 /\ DOMAIN applied = {}
      /\ IsSeq(committing.compiled.actions)
  BY <1>1, EmptyIsSeq DEF NoStep, Nothing, Compiled
<1>3. /\ Bounded(seen) /\ Bounded(subject) /\ Bounded(committing.compiled.subject)
      /\ "compiled" \in DOMAIN committing /\ "actions" \in DOMAIN committing.compiled
  BY <1>1 DEF Bounded, NoTable, NoSubject, NoStep, Nothing, Compiled
<1>4. TypeOK
  BY <1>1, <1>2, RunAssumption DEF TypeOK
<1> QED
  BY <1>1, <1>2, <1>3, <1>4, RunAssumption DEF Shape

(* The first run starts in shape.                                           *)
LEMMA ShapeInit == Init => Shape
<1> SUFFICES ASSUME Init PROVE Shape
  OBVIOUS
<1>1. IsBook(task) /\ StartAt(task) /\ resumes \in 0..MaxResumes
  BY RunAssumption DEF Init
<1> QED
  BY <1>1, ShapeStart

(* What an attempt may come to.                                             *)
LEMMA AttemptOutcome ==
    ASSUME Shape, Attempt
    PROVE  /\ UNCHANGED <<task, base, wb, steps, trajectory, resumes>>
           /\ phase = "attempting"
           /\ \/ /\ phase' = "proposing" /\ replans' = replans + 1
                 /\ UNCHANGED <<left, seen, subject, committing, applied, ending>>
              \/ \E step \in PlanSteps :
                    LET compiled == Compile(step, wb, seen, subject) IN
                    /\ MayCommit(compiled, wb)
                    /\ left > 0 /\ left' = left - 1 /\ UNCHANGED <<seen, replans>>
                    /\ \/ /\ compiled.actions = <<>>
                          /\ Committed([compiled |-> compiled, terminal |-> IsTerminal(step)], wb, wb)
                       \/ /\ compiled.actions # <<>>
                          /\ phase' = "committing"
                          /\ committing' = [compiled |-> compiled, terminal |-> IsTerminal(step)]
                          /\ UNCHANGED <<subject, applied, ending>>
BY DEF Attempt, AskAgain, Episode, World

(* What a step that is committed leaves.                                    *)
LEMMA CommittedKeeps ==
    ASSUME Shape, NEW step, NEW before, NEW after, Committed(step, before, after),
           IsBook(after), Bounded(step.compiled.subject)
    PROVE  /\ IsSeq(applied') /\ Len(applied') = Len(applied) + 1
           /\ \A n \in 1..Len(applied) : applied'[n] = applied[n]
           /\ applied'[Len(applied')] = after /\ applied' # <<>>
           /\ \A n \in DOMAIN applied' : IsBook(applied'[n])
           /\ Bounded(subject') /\ committing' = NoStep
           /\ \/ phase' = "ended" /\ ending' = "Declared"
              \/ phase' = "attempting" /\ UNCHANGED ending
<1>1. applied' = Append(applied, after) /\ IsSeq(applied) /\ Bounded(subject)
  BY DEF Committed, Shape
<1>2. /\ IsSeq(applied') /\ Len(applied') = Len(applied) + 1 /\ applied' # <<>>
      /\ DOMAIN applied' = 1..(Len(applied) + 1)
      /\ \A n \in 1..Len(applied) : applied'[n] = applied[n]
      /\ applied'[Len(applied) + 1] = after
  BY <1>1, AppendIsSeq
<1>3. \A n \in 1..Len(applied) : IsBook(applied[n])
  <2>1. DOMAIN applied = 1..Len(applied)
    BY <1>1, SeqOfItsOwn
  <2> QED
    BY <2>1 DEF Shape, TypeOK
<1>4. Len(applied) \in Nat
  BY <1>1 DEF IsSeq
<1>5. \A n \in DOMAIN applied' : IsBook(applied'[n])
  <2>1. \A n \in 1..(Len(applied) + 1) : n \in 1..Len(applied) \/ n = Len(applied) + 1
    BY <1>4
  <2> QED
    BY <1>2, <1>3, <2>1
<1> QED
  BY <1>1, <1>2, <1>5 DEF Committed

(* The step in hand after an action of it was taken.                        *)
LEMMA CommitOutcome ==
    ASSUME Shape, Commit
    PROVE  LET actions == committing.compiled.actions
               after == Apply(wb, Head(actions))
           IN /\ phase = "committing" /\ ending = "none" /\ actions # <<>> /\ IsSeq(actions)
              /\ UNCHANGED <<task, base, resumes, left, seen, replans>>
              /\ wb' = after /\ IsBook(after) /\ steps' = steps + 1
              /\ trajectory' = Append(trajectory, [action |-> Head(actions), state |-> after])
              /\ \/ /\ steps + 1 >= MaxSteps /\ phase' = "ended" /\ ending' = "OutOfSteps"
                    /\ UNCHANGED <<subject, applied, committing>>
                 \/ /\ ~(steps + 1 >= MaxSteps) /\ Len(actions) = 1
                    /\ Committed(committing, wb, after)
                 \/ /\ ~(steps + 1 >= MaxSteps) /\ Len(actions) > 1
                    /\ phase' = "committing" /\ ending' = "none"
                    /\ committing' = [committing EXCEPT !.compiled.actions = Tail(actions)]
                    /\ UNCHANGED <<subject, applied>>
<1>1. /\ phase = "committing" /\ ending = "none" /\ IsBook(wb)
      /\ committing.compiled.actions # <<>> /\ IsSeq(committing.compiled.actions)
  BY DEF Commit, Shape, TypeOK
<1>2. IsBook(Apply(wb, Head(committing.compiled.actions)))
  BY <1>1, ApplyIsBook
<1> QED
  BY <1>1, <1>2 DEF Commit, Spent, Episode

(* A run that is resumed starts afresh.                                     *)
LEMMA ResumeOutcome ==
    ASSUME Shape, Resume
    PROVE  /\ UNCHANGED task
           /\ \E n \in 1..Len(applied) : base' = applied[n] /\ wb' = applied[n] /\ IsBook(applied[n])
           /\ steps' = 0 /\ trajectory' = <<>> /\ applied' = <<>> /\ phase' = "proposing"
           /\ committing' = NoStep /\ ending' = "none" /\ left' = 0 /\ replans' = 0
           /\ seen' = NoTable /\ subject' = NoSubject /\ resumes' \in 0..MaxResumes
<1>1. DOMAIN applied = 1..Len(applied)
  BY SeqOfItsOwn DEF Shape
<1>2. resumes' \in 0..MaxResumes
  BY RunAssumption DEF Resume, Shape, TypeOK
<1> QED
  BY <1>1, <1>2 DEF Resume, Fresh, Shape, TypeOK

(* Every action keeps the shape.                                            *)
LEMMA ShapeNext == Shape /\ [Next]_vars => Shape'
<1> SUFFICES ASSUME Shape, [Next]_vars PROVE Shape'
  OBVIOUS
<1>0. /\ TypeOK /\ IsSeq(trajectory) /\ IsSeq(applied) /\ IsSeq(committing.compiled.actions)
      /\ Bounded(seen) /\ Bounded(subject) /\ Bounded(committing.compiled.subject)
      /\ Bounded(NoTable) /\ Bounded(NoSubject) /\ Bounded(NoStep.compiled.subject)
      /\ IsSeq(NoStep.compiled.actions) /\ IsSeq(<<>>) /\ Len(<<>>) = 0
      /\ "compiled" \in DOMAIN committing /\ "actions" \in DOMAIN committing.compiled
      /\ "compiled" \in DOMAIN NoStep /\ "actions" \in DOMAIN NoStep.compiled
  BY EmptyIsSeq DEF Shape, Bounded, NoTable, NoSubject, NoStep, Nothing, Compiled
<1>1. CASE Quiet
  <2>1. /\ UNCHANGED <<task, base, wb, steps, trajectory, subject, committing, applied, resumes>>
        /\ phase' # "committing" /\ phase \in {"proposing", "attempting"}
    BY <1>1, QuietKeeps
  <2>2. /\ phase' \in {"proposing", "attempting", "ended"}
        /\ ending' \in {"none", "Declared", "PlannerGaveUp", "OutOfReplans", "OutOfSteps"}
        /\ (phase' = "ended") = (ending' # "none")
        /\ left' \in 0..MaxPlanLength /\ replans' \in 0..(MaxReplans + 1)
        /\ phase' = "attempting" => replans' <= MaxReplans
    BY <1>1, RunAssumption DEF Quiet, OutOfReplans, PlannerGivesUp, Propose, PlanRunsOut, End, AskAgain, Shape, TypeOK
  <2>3. Bounded(seen') /\ steps < MaxSteps
    BY <1>1, <2>1, DetectedIsBounded
       DEF Quiet, OutOfReplans, PlannerGivesUp, Propose, PlanRunsOut, End, AskAgain, Shape
  <2> QED
    BY <2>1, <2>2, <2>3 DEF Shape, TypeOK, Bounded
<1>2. CASE Attempt
  <2>1. UNCHANGED <<task, base, wb, steps, trajectory, resumes>> /\ phase = "attempting"
    BY <1>2, AttemptOutcome
  <2>2. CASE /\ phase' = "proposing" /\ replans' = replans + 1
             /\ UNCHANGED <<left, seen, subject, committing, applied, ending>>
    <3>1. replans' \in 0..(MaxReplans + 1)
      BY <2>1, <2>2, RunAssumption DEF Shape, TypeOK
    <3> QED
      BY <2>1, <2>2, <3>1 DEF Shape, TypeOK, Bounded
  <2>3. ASSUME NEW step \in PlanSteps, NEW compiled, compiled = Compile(step, wb, seen, subject),
               left > 0, left' = left - 1, UNCHANGED <<seen, replans>>, compiled.actions = <<>>,
               Committed([compiled |-> compiled, terminal |-> IsTerminal(step)], wb, wb)
        PROVE  Shape'
    <3> DEFINE inHand == [compiled |-> compiled, terminal |-> IsTerminal(step)]
    <3>1. Bounded(compiled.subject)
      BY <1>0, <2>3, CompiledIsSound
    <3>2. Bounded(inHand.compiled.subject) /\ IsBook(wb) /\ Committed(inHand, wb, wb)
      BY <1>0, <2>3, <3>1 DEF TypeOK
    <3> HIDE DEF inHand
    <3>3. /\ IsSeq(applied') /\ \A n \in DOMAIN applied' : IsBook(applied'[n])
          /\ Bounded(subject') /\ committing' = NoStep
          /\ \/ phase' = "ended" /\ ending' = "Declared"
             \/ phase' = "attempting" /\ UNCHANGED ending
      BY <3>2, CommittedKeeps
    <3>4. left' \in 0..MaxPlanLength /\ ending = "none" /\ replans <= MaxReplans /\ steps < MaxSteps
      BY <2>1, <2>3, RunAssumption DEF Shape, TypeOK
    <3> QED
      BY <1>0, <2>1, <2>3, <3>3, <3>4 DEF Shape, TypeOK, Bounded
  <2>4. ASSUME NEW step \in PlanSteps, NEW compiled, compiled = Compile(step, wb, seen, subject),
               left > 0, left' = left - 1, UNCHANGED <<seen, replans>>, compiled.actions # <<>>,
               phase' = "committing",
               committing' = [compiled |-> compiled, terminal |-> IsTerminal(step)],
               UNCHANGED <<subject, applied, ending>>
        PROVE  Shape'
    <3>1. IsSeq(compiled.actions) /\ Bounded(compiled.subject) /\ "actions" \in DOMAIN compiled
      BY <1>0, <2>4, CompiledIsSound
    <3>2. left' \in 0..MaxPlanLength /\ ending = "none" /\ replans <= MaxReplans /\ steps < MaxSteps
      BY <2>1, <2>4, RunAssumption DEF Shape, TypeOK
    <3>3. committing'.compiled = compiled /\ "compiled" \in DOMAIN committing'
      BY <2>4
    <3> QED
      BY <1>0, <2>1, <2>4, <3>1, <3>2, <3>3 DEF Shape, TypeOK, Bounded
  <2> QED
    BY <1>2, <2>2, <2>3, <2>4, AttemptOutcome
<1>3. CASE Commit
  <2> DEFINE actions == committing.compiled.actions
             after == Apply(wb, Head(actions))
  <2>1. /\ phase = "committing" /\ ending = "none" /\ actions # <<>> /\ IsSeq(actions)
        /\ UNCHANGED <<task, base, resumes, left, seen, replans>>
        /\ wb' = after /\ IsBook(after) /\ steps' = steps + 1
        /\ trajectory' = Append(trajectory, [action |-> Head(actions), state |-> after])
        /\ \/ /\ steps + 1 >= MaxSteps /\ phase' = "ended" /\ ending' = "OutOfSteps"
              /\ UNCHANGED <<subject, applied, committing>>
           \/ /\ ~(steps + 1 >= MaxSteps) /\ Len(actions) = 1
              /\ Committed(committing, wb, after)
           \/ /\ ~(steps + 1 >= MaxSteps) /\ Len(actions) > 1
              /\ phase' = "committing" /\ ending' = "none"
              /\ committing' = [committing EXCEPT !.compiled.actions = Tail(actions)]
              /\ UNCHANGED <<subject, applied>>
    BY <1>3, CommitOutcome
  <2>2. IsSeq(trajectory') /\ Len(trajectory') = steps'
    <3>1. Len(trajectory) = steps
      BY <1>0 DEF TypeOK
    <3> HIDE DEF actions, after
    <3> QED
      BY <1>0, <2>1, <3>1, AppendIsSeq
  <2>3. steps \in Nat /\ steps < MaxSteps /\ steps' \in 0..MaxSteps /\ replans <= MaxReplans
    BY <2>1, RunAssumption DEF Shape, TypeOK
  <2>4. CASE steps + 1 >= MaxSteps /\ phase' = "ended" /\ ending' = "OutOfSteps"
             /\ UNCHANGED <<subject, applied, committing>>
    <3> HIDE DEF after
    <3> QED
      BY <1>0, <2>1, <2>2, <2>3, <2>4 DEF Shape, TypeOK, Bounded
  <2>5. CASE ~(steps + 1 >= MaxSteps) /\ Committed(committing, wb, after)
    <3> HIDE DEF after
    <3>1. /\ IsSeq(applied') /\ \A n \in DOMAIN applied' : IsBook(applied'[n])
          /\ Bounded(subject') /\ committing' = NoStep
          /\ \/ phase' = "ended" /\ ending' = "Declared"
             \/ phase' = "attempting" /\ UNCHANGED ending
      BY <1>0, <2>1, <2>5, CommittedKeeps
    <3>2. steps' < MaxSteps
      BY <2>1, <2>3, <2>5, RunAssumption
    <3> QED
      BY <1>0, <2>1, <2>2, <2>3, <3>1, <3>2 DEF Shape, TypeOK, Bounded
  <2>6. CASE /\ ~(steps + 1 >= MaxSteps) /\ Len(actions) > 1
             /\ phase' = "committing" /\ ending' = "none"
             /\ committing' = [committing EXCEPT !.compiled.actions = Tail(actions)]
             /\ UNCHANGED <<subject, applied>>
    <3>1. IsSeq(Tail(actions)) /\ Len(Tail(actions)) = Len(actions) - 1
      <4> HIDE DEF actions
      <4> QED
        BY <2>1, TailIsSeq
    <3>2. Tail(actions) # <<>>
      <4>1. Len(Tail(actions)) # 0
        BY <2>1, <2>6, <3>1 DEF IsSeq
      <4> HIDE DEF actions
      <4> QED
        BY <1>0, <4>1
    <3>3. /\ committing'.compiled.actions = Tail(actions) /\ committing'.compiled.subject = committing.compiled.subject
          /\ "compiled" \in DOMAIN committing' /\ "actions" \in DOMAIN committing'.compiled
      <4> DEFINE rest == Tail(actions)
      <4>1. committing' = [committing EXCEPT !.compiled.actions = rest]
        BY <2>6
      <4> HIDE DEF actions, rest
      <4>2. committing'.compiled = [committing.compiled EXCEPT !.actions = rest]
        BY <1>0, <4>1
      <4>3. "compiled" \in DOMAIN committing'
        BY <1>0, <4>1
      <4> QED
        BY <1>0, <4>2, <4>3 DEF rest
    <3>4. steps' < MaxSteps
      BY <2>1, <2>3, <2>6, RunAssumption
    <3> HIDE DEF after, actions
    <3> QED
      BY <1>0, <2>1, <2>2, <2>3, <2>6, <3>1, <3>2, <3>3, <3>4 DEF Shape, TypeOK, Bounded
  <2> QED
    BY <2>1, <2>4, <2>5, <2>6
<1>4. CASE Resume
  <2>1. /\ UNCHANGED task /\ IsBook(base') /\ IsBook(wb')
        /\ steps' = 0 /\ trajectory' = <<>> /\ applied' = <<>> /\ phase' = "proposing"
        /\ committing' = NoStep /\ ending' = "none" /\ left' = 0 /\ replans' = 0
        /\ seen' = NoTable /\ subject' = NoSubject /\ resumes' \in 0..MaxResumes
    BY <1>4, ResumeOutcome
  <2>2. DOMAIN applied' = {} /\ Len(trajectory') = 0 /\ IsSeq(trajectory') /\ IsSeq(applied')
    BY <2>1, EmptyIsSeq
  <2> QED
    BY <1>0, <2>1, <2>2, RunAssumption DEF Shape, TypeOK
<1>5. CASE UNCHANGED vars
  BY <1>5 DEF vars, Shape, TypeOK, Bounded
<1> QED
  BY <1>1, <1>2, <1>3, <1>4, <1>5 DEF Next, Step, Quiet

(* The shape is an invariant.                                               *)
LEMMA ShapeHolds == Spec => []Shape
BY ShapeInit, ShapeNext, PTL DEF Spec

(* The state is what it is declared to be, whatever the planner writes.     *)
THEOREM TypeCorrect == Spec => []TypeOK
<1>1. Shape => TypeOK
  BY DEF Shape
<1> QED
  BY <1>1, ShapeHolds, PTL

----------------------------------------------------------------------------
(* A run is resumed from where it stands.                                   *)

(* Every action keeps a boundary resumable.                                 *)
LEMMA ResumableNext == Shape /\ BoundaryIsResumable /\ [Next]_vars => BoundaryIsResumable'
<1> SUFFICES ASSUME Shape, BoundaryIsResumable, [Next]_vars PROVE BoundaryIsResumable'
  OBVIOUS
<1> USE DEF BoundaryIsResumable
<1>1. CASE Quiet
  BY <1>1, QuietKeeps DEF AtBoundary
<1>2. CASE Attempt
  <2>1. UNCHANGED <<base, wb>> /\ phase = "attempting" /\ AtBoundary /\ IsBook(wb)
    BY <1>2, AttemptOutcome DEF AtBoundary, Shape, TypeOK
  <2>2. ASSUME UNCHANGED applied PROVE BoundaryIsResumable'
    BY <2>1, <2>2
  <2>3. ASSUME NEW step \in PlanSteps, NEW compiled, compiled = Compile(step, wb, seen, subject),
               Committed([compiled |-> compiled, terminal |-> IsTerminal(step)], wb, wb)
        PROVE  BoundaryIsResumable'
    <3> DEFINE inHand == [compiled |-> compiled, terminal |-> IsTerminal(step)]
    <3>1. Bounded(compiled.subject)
      BY <2>3, CompiledIsSound DEF Shape
    <3>2. Bounded(inHand.compiled.subject) /\ Committed(inHand, wb, wb)
      BY <2>3, <3>1
    <3> HIDE DEF inHand
    <3>3. applied'[Len(applied')] = wb /\ applied' # <<>>
      BY <2>1, <3>2, CommittedKeeps
    <3> QED
      BY <2>1, <3>3
  <2> QED
    BY <1>2, <2>2, <2>3, AttemptOutcome
<1>3. CASE Commit
  <2> DEFINE after == Apply(wb, Head(committing.compiled.actions))
  <2>1. /\ wb' = after /\ IsBook(after)
        /\ \/ ~AtBoundary'
           \/ Committed(committing, wb, after)
    BY <1>3, CommitOutcome DEF AtBoundary
  <2>2. ASSUME Committed(committing, wb, after) PROVE BoundaryIsResumable'
    <3> HIDE DEF after
    <3>1. applied'[Len(applied')] = after /\ applied' # <<>>
      BY <2>1, <2>2, CommittedKeeps DEF Shape
    <3> QED
      BY <2>1, <3>1
  <2> QED
    BY <2>1, <2>2
<1>4. CASE Resume
  BY <1>4, ResumeOutcome
<1>5. CASE UNCHANGED vars
  BY <1>5 DEF vars, AtBoundary
<1> QED
  BY <1>1, <1>2, <1>3, <1>4, <1>5 DEF Next, Step, Quiet

(* Between steps the last checkpoint is the workbook: what a crash there    *)
(* would lose is nothing, and what is resumed is what was left.             *)
THEOREM ResumesWhereItStood == Spec => []BoundaryIsResumable
<1>1. Init => BoundaryIsResumable
  BY DEF Init, StartAt, BoundaryIsResumable
<1> QED
  BY <1>1, ResumableNext, ShapeHolds, PTL DEF Spec

----------------------------------------------------------------------------
(* The record replays.                                                      *)

(* What is appended is in no shorter prefix.                                *)
LEMMA PrefixOfAppend ==
    ASSUME NEW s, IsSeq(s), NEW e, NEW n \in 1..Len(s)
    PROVE  SubSeq(Append(s, e), 1, n) = SubSeq(s, 1, n)
<1> DEFINE S == {s[i] : i \in 1..Len(s)} \union {e}
           T == {s[i] : i \in 1..Len(s)}
<1>1. s \in Seq(T) /\ T \subseteq S /\ e \in S
  BY SeqOfItsOwn
<1> HIDE DEF S, T
<1>2. s \in Seq(S) /\ <<e>> \in Seq(S)
  BY <1>1, SeqMonotonic
<1>3. Append(s, e) = s \o <<e>>
  BY <1>1, <1>2, AppendIsConcat
<1>4. SubSeq(s \o <<e>>, 1, n) = SubSeq(s, 1, n)
  <2>1. Len(s) \in Nat
    BY DEF IsSeq
  <2>2. 1 \in 1..Len(s)
    BY <2>1
  <2> QED
    BY <1>2, <2>2, SubSeqOfConcat1
<1> QED
  BY <1>3, <1>4

(* The longest prefix is the sequence.                                      *)
LEMMA WholeSequence == ASSUME NEW s, IsSeq(s) PROVE SubSeq(s, 1, Len(s)) = s
<1> DEFINE T == {s[i] : i \in 1..Len(s)}
<1>1. s \in Seq(T)
  BY SeqOfItsOwn
<1> HIDE DEF T
<1> QED
  BY <1>1, SubSeqFull

(* The actions of a record. *)
ActionsOf(record) == [n \in DOMAIN record |-> record[n].action]

(* The actions of a record are as many as it has entries.                   *)
LEMMA ActionsOfIsSeq ==
    ASSUME NEW record, IsSeq(record)
    PROVE  IsSeq(ActionsOf(record)) /\ Len(ActionsOf(record)) = Len(record)
<1> DEFINE s == ActionsOf(record)
<1>1. DOMAIN record = 1..Len(record) /\ Len(record) \in Nat
  BY SeqOfItsOwn DEF IsSeq
<1>2. s = [i \in 1..Len(record) |-> s[i]]
  BY <1>1 DEF ActionsOf
<1> HIDE DEF s
<1>3. IsSeq(s) /\ Len(s) = Len(record)
  BY <1>1, <1>2, FunctionIsSeq
<1> QED
  BY <1>3 DEF s

(* One more entry is one more action.                                       *)
LEMMA ActionsOfOneMore ==
    ASSUME NEW record, IsSeq(record), NEW action, NEW state
    PROVE  ActionsOf(Append(record, [action |-> action, state |-> state])) = Append(ActionsOf(record), action)
<1> DEFINE entry == [action |-> action, state |-> state]
           longer == Append(record, entry)
           old == ActionsOf(record)
           new == Append(old, action)
           n == Len(record)
<1>1. entry.action = action
  OBVIOUS
<1> HIDE DEF entry
<1>2. /\ DOMAIN longer = 1..(n + 1) /\ n \in Nat
      /\ \A i \in 1..n : longer[i] = record[i]
      /\ longer[n + 1] = entry
  BY AppendIsSeq DEF IsSeq
<1>3. IsSeq(old) /\ Len(old) = n /\ \A i \in 1..n : old[i] = record[i].action
  <2>1. DOMAIN record = 1..n
    BY SeqOfItsOwn
  <2>2. \A i \in 1..n : old[i] = record[i].action
    BY <2>1 DEF ActionsOf
  <2> QED
    BY <2>2, ActionsOfIsSeq
<1> HIDE DEF old, longer
<1>4. /\ IsSeq(new) /\ Len(new) = n + 1
      /\ \A i \in 1..n : new[i] = old[i]
      /\ new[n + 1] = action
  BY <1>3, AppendIsSeq
<1> HIDE DEF new, n
<1>5. \A i \in 1..(n + 1) : longer[i].action = new[i]
  <2>1. \A i \in 1..(n + 1) : i \in 1..n \/ i = n + 1
    BY <1>2
  <2> QED
    BY <1>1, <1>2, <1>3, <1>4, <2>1
<1>6. new = [i \in 1..(n + 1) |-> new[i]]
  BY <1>4 DEF IsSeq
<1>7. ActionsOf(longer) = [i \in 1..(n + 1) |-> longer[i].action]
  BY <1>2 DEF ActionsOf
<1>8. ActionsOf(longer) = new
  BY <1>5, <1>6, <1>7
<1> QED
  BY <1>8 DEF longer, new, old, entry

(* Every action keeps the record replayable.                                *)
LEMMA ReplaysNext == Shape /\ TrajectoryReplays /\ [Next]_vars => TrajectoryReplays'
<1> SUFFICES ASSUME Shape, TrajectoryReplays, [Next]_vars PROVE TrajectoryReplays'
  OBVIOUS
<1>0. /\ Len(trajectory) = steps /\ IsSeq(trajectory) /\ steps \in Nat
      /\ DOMAIN trajectory = 1..steps
      /\ \A n \in DOMAIN trajectory :
            ApplyAll(base, SubSeq(ActionsOf(trajectory), 1, n)) = trajectory[n].state
      /\ wb = ApplyAll(base, ActionsOf(trajectory))
  BY SeqOfItsOwn DEF TrajectoryReplays, Shape, IsSeq, ActionsOf
<1>1. ASSUME UNCHANGED <<base, wb, steps, trajectory>> PROVE TrajectoryReplays'
  BY <1>1 DEF TrajectoryReplays
<1>2. CASE Quiet \/ Attempt
  BY <1>1, <1>2, QuietKeeps, AttemptOutcome
<1>3. CASE Commit
  <2> DEFINE action == Head(committing.compiled.actions)
             after == Apply(wb, action)
             old == ActionsOf(trajectory)
             new == Append(old, action)
  <2>1. /\ UNCHANGED base /\ wb' = after /\ steps' = steps + 1
        /\ trajectory' = Append(trajectory, [action |-> action, state |-> after])
        /\ phase = "committing"
    BY <1>3, CommitOutcome
  <2>2. steps + 1 <= MaxSteps
    BY <1>0, <2>1, RunAssumption DEF Shape
  <2> HIDE DEF action, after
  <2>3. ActionsOf(trajectory') = new
    BY <1>0, <2>1, ActionsOfOneMore
  <2>4. IsSeq(old) /\ Len(old) = steps
    BY <1>0, ActionsOfIsSeq
  <2>5. /\ DOMAIN trajectory' = 1..(steps + 1) /\ Len(trajectory') = steps + 1
        /\ \A n \in 1..steps : trajectory'[n] = trajectory[n]
        /\ trajectory'[steps + 1] = [action |-> action, state |-> after]
    BY <1>0, <2>1, AppendIsSeq
  <2>6. ApplyAll(base, new) = after
    <3> HIDE DEF old
    <3>1. ApplyAll(base, new) = Apply(ApplyAll(base, old), action)
      BY <2>4, ApplyOneMore
    <3> QED
      BY <1>0, <3>1 DEF after, old
  <2>7. \A n \in 1..steps : SubSeq(new, 1, n) = SubSeq(old, 1, n)
    BY <2>4, PrefixOfAppend
  <2>8. SubSeq(new, 1, steps + 1) = new
    <3> HIDE DEF old
    <3>1. IsSeq(new) /\ Len(new) = steps + 1
      BY <2>4, AppendIsSeq
    <3> HIDE DEF new
    <3> QED
      BY <3>1, WholeSequence
  <2>9. \A n \in 1..(steps + 1) : ApplyAll(base, SubSeq(new, 1, n)) = trajectory'[n].state
    <3>1. \A n \in 1..(steps + 1) : n \in 1..steps \/ n = steps + 1
      BY <1>0
    <3>2. \A n \in 1..steps : ApplyAll(base, SubSeq(new, 1, n)) = trajectory'[n].state
      <4>1. \A n \in 1..steps : ApplyAll(base, SubSeq(old, 1, n)) = trajectory[n].state
        BY <1>0
      <4> HIDE DEF old, new
      <4> QED
        BY <2>5, <2>7, <4>1
    <3>3. ApplyAll(base, SubSeq(new, 1, steps + 1)) = trajectory'[steps + 1].state
      <4>1. trajectory'[steps + 1].state = after
        BY <2>5
      <4> HIDE DEF old, new
      <4> QED
        BY <2>6, <2>8, <4>1
    <3> QED
      BY <3>1, <3>2, <3>3
  <2> HIDE DEF old, new
  <2> QED
    BY <2>1, <2>2, <2>3, <2>5, <2>6, <2>9 DEF TrajectoryReplays, ActionsOf
<1>4. CASE Resume
  <2>1. base' = wb' /\ steps' = 0 /\ trajectory' = <<>>
    BY <1>4, ResumeOutcome
  <2>2. ActionsOf(trajectory') = <<>>
    BY <2>1, EmptyIsSeq DEF ActionsOf
  <2>3. ApplyAll(base', <<>>) = wb'
    BY <2>1, ApplyNone
  <2> QED
    BY <2>1, <2>2, <2>3, EmptyIsSeq, RunAssumption DEF TrajectoryReplays, ActionsOf
<1>5. CASE UNCHANGED vars
  BY <1>1, <1>5 DEF vars
<1> QED
  BY <1>2, <1>3, <1>4, <1>5 DEF Next, Step, Quiet

(* The actions a run recorded, taken again from the workbook it started     *)
(* from, give every workbook it recorded and the one it left, and there are *)
(* no more of them than its budget.                                         *)
THEOREM RecordReplays == Spec => []TrajectoryReplays
<1>1. Init => TrajectoryReplays
  <2> SUFFICES ASSUME Init PROVE TrajectoryReplays
    OBVIOUS
  <2>1. wb = base /\ steps = 0 /\ trajectory = <<>>
    BY DEF Init, StartAt
  <2>2. ActionsOf(trajectory) = <<>> /\ ApplyAll(base, <<>>) = wb
    BY <2>1, EmptyIsSeq, ApplyNone DEF ActionsOf
  <2> QED
    BY <2>1, <2>2, EmptyIsSeq, RunAssumption DEF TrajectoryReplays, ActionsOf
<1> QED
  BY <1>1, ReplaysNext, ShapeHolds, PTL DEF Spec

(* What a run leaves is enough to go on from and to go over it again:       *)
(* between steps its last checkpoint is the workbook, which is what its     *)
(* recorded actions make of the one it started from.                        *)
THEOREM RunStaysOnRecord == Spec => []RunIsOnRecord
<1>1. BoundaryIsResumable /\ TrajectoryReplays => RunIsOnRecord
  BY DEF RunIsOnRecord
<1> QED
  BY <1>1, ResumesWhereItStood, RecordReplays, PTL

----------------------------------------------------------------------------
(* Formulas stay formulas.                                                  *)

Keeps(book) == ~AllowOverwriting => \A c \in Cell : IsFormula(task[c]) => IsFormula(book[c])

(* An action that puts no literal where the task had a formula. *)
Gentle(action) ==
    action.op = "edit" /\ action.sheet /\ ~IsFormula(action.input) =>
        AllowOverwriting \/ action.at \notin FormulaCells(task)

(* What was checked when the step was attempted still holds of what is left *)
(* of it: the workbook has changed since, but the task's formulas have not. *)
FormulasKept ==
    /\ Keeps(wb)
    /\ \A n \in 1..Len(applied) : Keeps(applied[n])
    /\ phase = "committing" =>
        /\ \A i \in 1..Len(committing.compiled.actions) : Gentle(committing.compiled.actions[i])
        /\ FillsCopyFormulas(committing.compiled.actions, wb)

(* A formula that is filled down is one.                                    *)
LEMMA MovedStaysFormula ==
    ASSUME NEW content, IsFormula(content), NEW by PROVE IsFormula(MovedDown(content, by))
BY DEF IsFormula, MovedDown, FormulaOf

(* An action that was checked leaves the task's formulas formulas.          *)
LEMMA GentleKeeps ==
    ASSUME Keeps(wb), IsBook(wb), NEW action, Gentle(action),
           action.op = "fill" => action.at \in FormulaCells(wb)
    PROVE  Keeps(Apply(wb, action))
<1> SUFFICES ASSUME ~AllowOverwriting, NEW c \in Cell, IsFormula(task[c])
             PROVE  IsFormula(Apply(wb, action)[c])
  BY DEF Keeps
<1>1. IsFormula(wb[c]) /\ c \in DOMAIN wb
  BY DEF Keeps, IsBook
<1>2. CASE ~Applies(action)
  BY <1>1, <1>2 DEF Apply
<1>3. CASE Applies(action) /\ action.op = "edit"
  <2>1. Apply(wb, action) = [wb EXCEPT ![action.at] = action.input]
    BY <1>3 DEF Apply
  <2>2. c # action.at \/ IsFormula(action.input)
    BY <1>3 DEF Gentle, FormulaCells, Applies
  <2> QED
    BY <1>1, <2>1, <2>2
<1>4. CASE Applies(action) /\ action.op = "fill"
  <2> DEFINE content(d) == IF d \in Targets(action)
                           THEN MovedDown(wb[action.at], d[1] - action.at[1]) ELSE wb[d]
  <2>1. Apply(wb, action) = [d \in Cell |-> content(d)]
    BY <1>4 DEF Apply
  <2>2. IsFormula(wb[action.at])
    BY <1>4 DEF FormulaCells
  <2>3. IsFormula(content(c))
    BY <1>1, <2>2, MovedStaysFormula
  <2> HIDE DEF content
  <2> QED
    BY <2>1, <2>3
<1>5. CASE Applies(action) /\ action.op \notin {"edit", "fill"}
  BY <1>1, <1>5 DEF Apply
<1> QED
  BY <1>2, <1>3, <1>4, <1>5

(* The actions of a step that may be committed were all checked.            *)
LEMMA ValidIsGentle ==
    ASSUME Keeps(wb), NEW compiled, IsSeq(compiled.actions), MayCommit(compiled, wb)
    PROVE  \A i \in 1..Len(compiled.actions) : Gentle(compiled.actions[i])
<1> SUFFICES ASSUME NEW i \in 1..Len(compiled.actions) PROVE Gentle(compiled.actions[i])
  OBVIOUS
<1> DEFINE action == compiled.actions[i]
<1>1. i \in DOMAIN compiled.actions
  BY SeqOfItsOwn
<1>2. ~OverwritesFormula(wb, action)
  BY <1>1 DEF MayCommit, Valid
<1> HIDE DEF action
<1>3. ~AllowOverwriting => FormulaCells(task) \subseteq FormulaCells(wb)
  BY DEF Keeps, FormulaCells
<1>4. Gentle(action)
  BY <1>2, <1>3 DEF OverwritesFormula, Gentle
<1> QED
  BY <1>4 DEF action

(* Every action keeps the formulas, and what was checked of the step in     *)
(* hand.                                                                    *)
LEMMA FormulasNext == Shape /\ FormulasKept /\ [Next]_vars => FormulasKept'
<1> SUFFICES ASSUME Shape, FormulasKept, [Next]_vars PROVE FormulasKept'
  OBVIOUS
<1>1. ASSUME UNCHANGED <<task, wb, applied, committing>>, phase' # "committing" \/ UNCHANGED phase
      PROVE  FormulasKept'
  BY <1>1 DEF FormulasKept, Keeps, Gentle, FormulaCells
<1>2. CASE Quiet
  BY <1>1, <1>2, QuietKeeps
<1>3. CASE Attempt
  <2>1. UNCHANGED <<task, wb>> /\ phase = "attempting" /\ IsBook(wb)
    BY <1>3, AttemptOutcome DEF Shape, TypeOK
  <2>2. ASSUME NEW step \in PlanSteps, NEW compiled, compiled = Compile(step, wb, seen, subject),
               Committed([compiled |-> compiled, terminal |-> IsTerminal(step)], wb, wb)
        PROVE  FormulasKept'
    <3> DEFINE inHand == [compiled |-> compiled, terminal |-> IsTerminal(step)]
    <3>1. Bounded(compiled.subject)
      BY <2>2, CompiledIsSound DEF Shape
    <3>2. Bounded(inHand.compiled.subject) /\ Committed(inHand, wb, wb)
      BY <2>2, <3>1
    <3> HIDE DEF inHand
    <3>3. /\ Len(applied') = Len(applied) + 1 /\ applied'[Len(applied')] = wb /\ phase' # "committing"
          /\ \A n \in 1..Len(applied) : applied'[n] = applied[n]
      BY <2>1, <3>2, CommittedKeeps
    <3>4. \A n \in 1..Len(applied') : n \in 1..Len(applied) \/ n = Len(applied')
      BY <3>3 DEF Shape, IsSeq
    <3> QED
      BY <2>1, <3>3, <3>4 DEF FormulasKept, Keeps
  <2>3. ASSUME NEW step \in PlanSteps, NEW compiled, compiled = Compile(step, wb, seen, subject),
               MayCommit(compiled, wb), UNCHANGED applied,
               committing' = [compiled |-> compiled, terminal |-> IsTerminal(step)]
        PROVE  FormulasKept'
    <3>1. IsSeq(compiled.actions) /\ FillsCopyFormulas(compiled.actions, wb)
      BY <2>3, CompiledIsSound DEF Shape
    <3>2. committing'.compiled = compiled
      BY <2>3
    <3>3. \A i \in 1..Len(compiled.actions) : Gentle(compiled.actions[i])
      BY <2>3, <3>1, ValidIsGentle DEF FormulasKept
    <3> QED
      BY <2>1, <2>3, <3>1, <3>2, <3>3 DEF FormulasKept, Keeps, Gentle, FormulaCells, FillsCopyFormulas
  <2> QED
    BY <1>1, <1>3, <2>1, <2>2, <2>3, AttemptOutcome
<1>4. CASE Commit
  <2> DEFINE actions == committing.compiled.actions
             action == Head(actions)
             after == Apply(wb, action)
  <2>1. /\ phase = "committing" /\ actions # <<>> /\ IsSeq(actions)
        /\ UNCHANGED task /\ wb' = after /\ IsBook(after)
        /\ \/ phase' = "ended" /\ UNCHANGED applied
           \/ Committed(committing, wb, after)
           \/ /\ Len(actions) > 1 /\ UNCHANGED applied
              /\ committing' = [committing EXCEPT !.compiled.actions = Tail(actions)]
    BY <1>4, CommitOutcome
  <2>2. Len(actions) \in Nat \ {0} /\ action = actions[1] /\ 1 \in 1..Len(actions)
    <3> HIDE DEF actions
    <3> QED
      BY <2>1, TailIsSeq DEF IsSeq
  <2>3. /\ Gentle(action)
        /\ action.op = "fill" => Len(actions) = 1 /\ action.at \in FormulaCells(wb)
    <3> HIDE DEF action
    <3> QED
      BY <2>1, <2>2 DEF FormulasKept, FillsCopyFormulas
  <2>4. Keeps(after)
    <3> HIDE DEF action
    <3> QED
      BY <2>3, GentleKeeps DEF FormulasKept, Shape, TypeOK
  <2> HIDE DEF after, action
  <2>5. Keeps(wb)' /\ \A n \in 1..Len(applied) : Keeps(applied[n])
    BY <2>1, <2>4 DEF Keeps, FormulasKept
  <2>6. CASE phase' = "ended" /\ UNCHANGED applied
    BY <2>1, <2>5, <2>6 DEF FormulasKept, Keeps
  <2>7. CASE Committed(committing, wb, after)
    <3>1. /\ Len(applied') = Len(applied) + 1 /\ applied'[Len(applied')] = after /\ phase' # "committing"
          /\ \A n \in 1..Len(applied) : applied'[n] = applied[n]
      BY <2>1, <2>7, CommittedKeeps DEF Shape
    <3>2. \A n \in 1..Len(applied') : n \in 1..Len(applied) \/ n = Len(applied')
      BY <3>1 DEF Shape, IsSeq
    <3> QED
      BY <2>1, <2>4, <2>5, <3>1, <3>2 DEF FormulasKept, Keeps
  <2>8. CASE /\ Len(actions) > 1 /\ UNCHANGED applied
             /\ committing' = [committing EXCEPT !.compiled.actions = Tail(actions)]
    <3> DEFINE rest == Tail(actions)
    <3>1. Len(rest) = Len(actions) - 1 /\ \A i \in 1..Len(rest) : rest[i] = actions[i + 1]
      <4> HIDE DEF actions
      <4> QED
        BY <2>1, <2>2, TailIsSeq
    <3>2. committing'.compiled.actions = rest
      <4>1. committing' = [committing EXCEPT !.compiled.actions = rest]
        BY <2>8
      <4> HIDE DEF actions, rest
      <4>2. committing'.compiled = [committing.compiled EXCEPT !.actions = rest]
        BY <4>1 DEF Shape
      <4> QED
        BY <4>2 DEF Shape
    <3>3. \A i \in 1..Len(actions) : Gentle(actions[i]) /\ actions[i].op # "fill"
      BY <2>1, <2>8, <2>2 DEF FormulasKept, FillsCopyFormulas
    <3> HIDE DEF actions, rest
    <3>4. \A i \in 1..Len(rest) : i + 1 \in 1..Len(actions)
      BY <2>2, <3>1
    <3>5. \A i \in 1..Len(rest) : Gentle(rest[i]) /\ rest[i].op # "fill"
      BY <3>1, <3>3, <3>4
    <3> QED
      BY <2>1, <2>5, <2>8, <3>2, <3>5 DEF FormulasKept, Keeps, Gentle, FormulaCells, FillsCopyFormulas
  <2> QED
    BY <2>1, <2>6, <2>7, <2>8
<1>5. CASE Resume
  <2>1. PICK n \in 1..Len(applied) : wb' = applied[n]
    BY <1>5, ResumeOutcome
  <2>2. UNCHANGED task /\ Len(applied') = 0 /\ phase' = "proposing"
    BY <1>5, ResumeOutcome, EmptyIsSeq
  <2> QED
    BY <2>1, <2>2 DEF FormulasKept, Keeps
<1>6. CASE UNCHANGED vars
  BY <1>1, <1>6 DEF vars
<1> QED
  BY <1>2, <1>3, <1>4, <1>5, <1>6 DEF Next, Step, Quiet

(* No plan puts a literal where the task had a formula, not even one that   *)
(* is cut off by the budget, and not across resumed runs.                   *)
THEOREM FormulasSurvive == Spec => []FormulasStay
<1>1. Init => FormulasKept
  <2> SUFFICES ASSUME Init PROVE FormulasKept
    OBVIOUS
  <2>1. wb = task /\ phase = "proposing" /\ Len(applied) = 0
    BY EmptyIsSeq DEF Init, StartAt
  <2> QED
    BY <2>1 DEF FormulasKept, Keeps
<1>2. FormulasKept => FormulasStay
  BY DEF FormulasKept, Keeps, FormulasStay
<1> QED
  BY <1>1, <1>2, FormulasNext, ShapeHolds, PTL DEF Spec

----------------------------------------------------------------------------
(* Errors do not grow.                                                      *)

(* No more cells in error than the task began with. *)
Limit(book) == Cardinality(ErrorCells(book)) <= Cardinality(ErrorCells(task))

(* In the middle of a step it is what the step will come to that is within  *)
(* the limit: the rehearsal was of the same actions on the same workbook.   *)
ErrorsBounded ==
    /\ AtBoundary => Limit(wb)
    /\ \A n \in 1..Len(applied) : Limit(applied[n])
    /\ phase = "committing" => Limit(ApplyAll(wb, committing.compiled.actions))

(* The cells in error are finitely many.                                    *)
LEMMA ErrorsAreCounted == ASSUME NEW book PROVE Cardinality(ErrorCells(book)) \in Nat
<1>1. IsFiniteSet(1..Rows) /\ IsFiniteSet(1..Cols)
  BY SheetAssumption, FS_Interval
<1>2. IsFiniteSet(Cell)
  BY <1>1, FS_Product DEF Cell
<1>3. ErrorCells(book) \subseteq Cell
  BY DEF ErrorCells
<1> QED
  BY <1>2, <1>3, FS_Subset, FS_CardinalityType

(* Every action keeps what the step in hand will come to within the limit.  *)
LEMMA ErrorsNext == Shape /\ ErrorsBounded /\ [Next]_vars => ErrorsBounded'
<1> SUFFICES ASSUME Shape, ErrorsBounded, [Next]_vars PROVE ErrorsBounded'
  OBVIOUS
<1>1. ASSUME UNCHANGED <<task, wb, applied>>, phase \in {"proposing", "attempting"}, phase' # "committing"
      PROVE  ErrorsBounded'
  BY <1>1 DEF ErrorsBounded, Limit, AtBoundary
<1>2. CASE Quiet
  BY <1>1, <1>2, QuietKeeps
<1>3. CASE Attempt
  <2>1. UNCHANGED <<task, wb>> /\ phase = "attempting" /\ IsBook(wb) /\ Limit(wb)
    BY <1>3, AttemptOutcome DEF Shape, TypeOK, ErrorsBounded, AtBoundary
  <2>2. ASSUME NEW step \in PlanSteps, NEW compiled, compiled = Compile(step, wb, seen, subject),
               Committed([compiled |-> compiled, terminal |-> IsTerminal(step)], wb, wb)
        PROVE  ErrorsBounded'
    <3> DEFINE inHand == [compiled |-> compiled, terminal |-> IsTerminal(step)]
    <3>1. Bounded(compiled.subject)
      BY <2>2, CompiledIsSound DEF Shape
    <3>2. Bounded(inHand.compiled.subject) /\ Committed(inHand, wb, wb)
      BY <2>2, <3>1
    <3> HIDE DEF inHand
    <3>3. /\ Len(applied') = Len(applied) + 1 /\ applied'[Len(applied')] = wb /\ phase' # "committing"
          /\ \A n \in 1..Len(applied) : applied'[n] = applied[n]
      BY <2>1, <3>2, CommittedKeeps
    <3>4. \A n \in 1..Len(applied') : n \in 1..Len(applied) \/ n = Len(applied')
      BY <3>3 DEF Shape, IsSeq
    <3> QED
      BY <2>1, <3>3, <3>4 DEF ErrorsBounded, Limit
  <2>3. ASSUME NEW step \in PlanSteps, NEW compiled, compiled = Compile(step, wb, seen, subject),
               MayCommit(compiled, wb), compiled.actions # <<>>, UNCHANGED <<applied, ending>>,
               phase' = "committing",
               committing' = [compiled |-> compiled, terminal |-> IsTerminal(step)]
        PROVE  ErrorsBounded'
    <3> DEFINE planned == ApplyAll(wb, compiled.actions)
    <3>1. Cardinality(ErrorCells(planned)) <= Cardinality(ErrorCells(wb))
      BY <2>3 DEF MayCommit, Rehearsed
    <3>2. committing'.compiled = compiled
      BY <2>3
    <3> HIDE DEF planned
    <3>3. Limit(planned)
      BY <2>1, <3>1, ErrorsAreCounted DEF Limit
    <3>4. ~AtBoundary'
      <4>1. ending = "none"
        BY <2>1 DEF Shape, TypeOK
      <4> QED
        BY <2>3, <4>1 DEF AtBoundary
    <3>5. ApplyAll(wb', committing'.compiled.actions) = planned
      BY <2>1, <3>2 DEF planned
    <3> QED
      BY <2>1, <2>3, <3>3, <3>4, <3>5 DEF ErrorsBounded, Limit
  <2> QED
    BY <1>1, <1>3, <2>1, <2>2, <2>3, AttemptOutcome
<1>4. CASE Commit
  <2> DEFINE actions == committing.compiled.actions
             rest == Tail(actions)
             after == Apply(wb, Head(actions))
             planned == ApplyAll(wb, actions)
  <2>1. /\ phase = "committing" /\ actions # <<>> /\ IsSeq(actions)
        /\ UNCHANGED task /\ wb' = after /\ IsBook(after)
        /\ \/ phase' = "ended" /\ ending' = "OutOfSteps" /\ UNCHANGED applied
           \/ Len(actions) = 1 /\ Committed(committing, wb, after)
           \/ /\ Len(actions) > 1 /\ phase' = "committing" /\ ending' = "none" /\ UNCHANGED applied
              /\ committing' = [committing EXCEPT !.compiled.actions = rest]
    BY <1>4, CommitOutcome
  <2>2. Limit(planned) /\ \A n \in 1..Len(applied) : Limit(applied[n])
    BY <2>1 DEF ErrorsBounded
  <2>3. planned = ApplyAll(after, rest) /\ IsSeq(rest) /\ Len(rest) = Len(actions) - 1
    <3> HIDE DEF actions
    <3> QED
      BY <2>1, ApplyHeadFirst, TailIsSeq
  <2>4. CASE phase' = "ended" /\ ending' = "OutOfSteps" /\ UNCHANGED applied
    BY <2>1, <2>2, <2>4 DEF ErrorsBounded, AtBoundary, Limit
  <2>5. CASE Len(actions) = 1 /\ Committed(committing, wb, after)
    <3>1. rest = <<>>
      <4>1. Len(rest) = 0
        BY <2>3, <2>5
      <4> HIDE DEF rest
      <4> QED
        BY <2>3, <4>1, SeqOfItsOwn, EmptySeq
    <3>2. planned = after
      <4> HIDE DEF planned, after, rest
      <4> QED
        BY <2>3, <3>1, ApplyNone
    <3> HIDE DEF planned, after, rest, actions
    <3>3. /\ Len(applied') = Len(applied) + 1 /\ applied'[Len(applied')] = after /\ phase' # "committing"
          /\ \A n \in 1..Len(applied) : applied'[n] = applied[n]
      BY <2>1, <2>5, CommittedKeeps DEF Shape
    <3>4. \A n \in 1..Len(applied') : n \in 1..Len(applied) \/ n = Len(applied')
      BY <3>3 DEF Shape, IsSeq
    <3> QED
      BY <2>1, <2>2, <3>2, <3>3, <3>4 DEF ErrorsBounded, Limit
  <2>6. CASE /\ Len(actions) > 1 /\ phase' = "committing" /\ ending' = "none" /\ UNCHANGED applied
             /\ committing' = [committing EXCEPT !.compiled.actions = rest]
    <3> HIDE DEF planned, after, rest, actions
    <3>1. committing'.compiled.actions = rest
      <4>1. committing'.compiled = [committing.compiled EXCEPT !.actions = rest]
        BY <2>6 DEF Shape
      <4> QED
        BY <4>1 DEF Shape
    <3>2. ~AtBoundary'
      BY <2>6 DEF AtBoundary
    <3>3. ApplyAll(wb', committing'.compiled.actions) = planned
      BY <2>1, <2>3, <3>1
    <3> QED
      BY <2>1, <2>2, <2>6, <3>2, <3>3 DEF ErrorsBounded, Limit
  <2> QED
    BY <2>1, <2>4, <2>5, <2>6
<1>5. CASE Resume
  <2>1. PICK n \in 1..Len(applied) : wb' = applied[n]
    BY <1>5, ResumeOutcome
  <2>2. UNCHANGED task /\ Len(applied') = 0 /\ phase' = "proposing"
    BY <1>5, ResumeOutcome, EmptyIsSeq
  <2> QED
    BY <2>1, <2>2 DEF ErrorsBounded, Limit
<1>6. CASE UNCHANGED vars
  BY <1>6 DEF vars, ErrorsBounded, AtBoundary, Limit
<1> QED
  BY <1>2, <1>3, <1>4, <1>5, <1>6 DEF Next, Step, Quiet

(* Whenever the loop stands between two steps, and when it ends there, no   *)
(* more cells are in error than when the task began.                        *)
THEOREM ErrorsDoNotGrow == Spec => []ErrorsNeverGrow
<1>1. Init => ErrorsBounded
  <2> SUFFICES ASSUME Init PROVE ErrorsBounded
    OBVIOUS
  <2>1. wb = task /\ phase = "proposing" /\ Len(applied) = 0
    BY EmptyIsSeq DEF Init, StartAt
  <2> QED
    BY <2>1, ErrorsAreCounted DEF ErrorsBounded, Limit
<1>2. ErrorsBounded => ErrorsNeverGrow
  BY DEF ErrorsBounded, Limit, ErrorsNeverGrow
<1> QED
  BY <1>1, <1>2, ErrorsNext, ShapeHolds, PTL DEF Spec
================================================================================
