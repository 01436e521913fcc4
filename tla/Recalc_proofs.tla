----------------------------- MODULE Recalc_proofs -----------------------------
(***************************************************************************)
(* What recalculation promises, for every grid and every language of        *)
(* formulas whose evaluation looks only at the cells the graph has for it:  *)
(* the type invariant, that formulas hold what they make of the cells, that *)
(* blocks are whole once their layout has settled, and that recalculating   *)
(* everything then changes nothing.                                         *)
(***************************************************************************)
EXTENDS Recalc, FiniteSetTheorems, WellFoundedInduction, TLAPS

(* A cell's row and column are numbers. *)
LEMMA PlacesAreNumbers ==
    ASSUME NEW c \in Cell
    PROVE  Row(c) \in Nat /\ Col(c) \in Nat
BY RecalcAssumption DEF Cell, Row, Col

(* A formula makes a block of what is shown. *)
LEMMA BlocksAreArrays ==
    ASSUME TypeOK, NEW c \in Cell, IsFormula(c)
    PROVE  IsArray(Block(c)) /\ Block(c) # None
<1>1. formula[c] \in Formula
  BY DEF TypeOK, IsFormula
<1>2. \A d \in Cell : Shown[d] \in Value
  BY RecalcAssumption DEF TypeOK, Shown, IsFormula
<1>3. [d \in Sees(formula[c]) |-> Shown[d]] \in [Sees(formula[c]) -> Value]
  BY <1>1, <1>2, RecalcAssumption
<1> QED
  BY <1>1, <1>3, RecalcAssumption DEF Block

(* The first value of a block, and the one at a covered cell. *)
LEMMA ValuesOfBlocks ==
    ASSUME NEW b, IsArray(b)
    PROVE  /\ b.values[<<0, 0>>] \in Value
           /\ \A c \in Cell : \A d \in Covered(c, b) : ValueAt(c, b, d) \in Value
<1>1. b.rows \in Nat \ {0} /\ b.cols \in Nat \ {0}
  BY DEF IsArray
<1>2. ASSUME NEW i \in 0..(b.rows - 1), NEW j \in 0..(b.cols - 1)
      PROVE  b.values[<<i, j>>] \in Value
  BY DEF IsArray
<1>3. b.values[<<0, 0>>] \in Value
  <2>1. 0 \in 0..(b.rows - 1) /\ 0 \in 0..(b.cols - 1)
    BY <1>1
  <2> QED
    BY <2>1, <1>2
<1>4. ASSUME NEW c \in Cell, NEW d \in Covered(c, b)
      PROVE  ValueAt(c, b, d) \in Value
  <2>1. d \in Cell
    BY DEF Covered
  <2>2. Row(c) \in Nat /\ Col(c) \in Nat /\ Row(d) \in Nat /\ Col(d) \in Nat
    BY <2>1, PlacesAreNumbers
  <2>3. Row(d) - Row(c) \in 0..(b.rows - 1) /\ Col(d) - Col(c) \in 0..(b.cols - 1)
    BY <1>1, <2>2 DEF Covered
  <2> QED
    BY <2>3, <1>2 DEF ValueAt
<1> QED
  BY <1>3, <1>4

(* A set of cells is counted by a number. *)
LEMMA CellsAreCounted ==
    ASSUME NEW S \in SUBSET Cell
    PROVE  Rows * Cols - Cardinality(S) \in Int
<1> DEFINE n == Rows * Cols
<1>1. n \in Nat
  BY RecalcAssumption
<1>2. IsFiniteSet(1..n)
  BY <1>1, FS_Interval
<1>3. IsFiniteSet(S)
  BY <1>2, FS_Subset DEF Cell
<1>4. Cardinality(S) \in Nat
  BY <1>3, FS_CardinalityType
<1> QED
  BY <1>1, <1>4

(* What is dirty are formulas. *)
LEMMA DirtyType ==
    ASSUME NEW seeds
    PROVE  /\ Dirty(seeds) \in SUBSET {c \in Cell : IsFormula(c)}
           /\ Dirty(seeds)' \in SUBSET {c \in Cell : IsFormula(c)'}
BY DEF Dirty, Downstream

----------------------------------------------------------------------------
(* The type invariant.                                                      *)

(* A new workbook. *)
LEMMA TypeInit == Init => TypeOK
BY RecalcAssumption DEF Init, TypeOK, IsFormula

(* An edit. *)
LEMMA TypeEdit ==
    ASSUME TypeOK, NEW c \in Cell, Edit(c)
    PROVE  TypeOK'
<1>1. /\ formula' \in [Cell -> Formula \union {None}]
      /\ literal' \in [Cell -> Literal \union {None}]
      /\ \A d \in Cell : formula'[d] = None \/ literal'[d] = None
      /\ Edited(c)
  BY DEF TypeOK, Edit, EditFormula, EditLiteral, CellClear, IsFormula
<1>2. cached' \in [Cell -> Value]
  BY <1>1, RecalcAssumption DEF TypeOK, Edited
<1>3. todo' \in SUBSET {d \in Cell : IsFormula(d)'}
  BY <1>1, DirtyType DEF Edited, BeginPass
<1>4. freed' \in [Cell -> Int] /\ again' \in SUBSET Cell
  BY <1>1 DEF Edited, BeginPass
<1>5. edits' \in 0..MaxEdits
  BY <1>1, RecalcAssumption DEF TypeOK, Edited
<1> QED
  BY <1>1, <1>2, <1>3, <1>4, <1>5 DEF TypeOK, Edited, IsFormula

(* A full recalculation begins. *)
LEMMA TypeRecalcAll == TypeOK /\ RecalcAll => TypeOK'
<1> SUFFICES ASSUME TypeOK, RecalcAll PROVE TypeOK'
  OBVIOUS
<1>1. /\ UNCHANGED <<formula, literal, cached, arrays, overlay, blocked, edits>>
      /\ stage' = "first" /\ rounds' = 0 /\ changed' = {} /\ again' = {} /\ calm' = FALSE
      /\ todo' = {c \in Cell : IsFormula(c)} /\ freed' = [c \in Cell |-> 0]
  BY DEF RecalcAll, BeginPass, sheetVars
<1>2. todo' \in SUBSET {c \in Cell : IsFormula(c)'}
  BY <1>1 DEF IsFormula
<1>3. freed' \in [Cell -> Int] /\ again' \in SUBSET Cell /\ changed' \in SUBSET Cell
  BY <1>1
<1>4. stage' \in {"idle", "first", "spill", "dynamic"} /\ rounds' \in Nat /\ calm' \in BOOLEAN
  BY <1>1
<1> QED
  BY <1>1, <1>2, <1>3, <1>4 DEF TypeOK, IsFormula

(* One formula is evaluated. *)
LEMMA TypeEvaluate ==
    ASSUME TypeOK, NEW c \in Cell, Evaluate(c)
    PROVE  TypeOK'
<1>1. c \in todo /\ IsFormula(c)
  BY DEF Evaluate, NextReady, ReadyIn, TypeOK
<1>2. IsArray(Block(c)) /\ Block(c) # None
  BY <1>1, BlocksAreArrays
<1>3. Holds(c, Block(c)) \in Value
  BY <1>2, ValuesOfBlocks, RecalcAssumption DEF Holds
<1>4. cached' \in [Cell -> Value]
  BY <1>3 DEF TypeOK, Evaluate
<1>5. /\ arrays' = [d \in Cell |-> arrays'[d]]
      /\ \A d \in Cell : arrays'[d] = None \/ (IsArray(arrays'[d]) /\ ~IsSingle(arrays'[d]))
  BY <1>2 DEF TypeOK, Evaluate
<1>6. freed' \in [Cell -> Int]
  <2>1. todo \ {c} \in SUBSET Cell
    BY DEF TypeOK
  <2>2. Rows * Cols - Cardinality(todo \ {c}) \in Int
    BY <2>1, CellsAreCounted
  <2>3. DEFINE n == Rows * Cols - Cardinality(todo \ {c})
  <2> HIDE DEF n
  <2>4. n \in Int
    BY <2>2 DEF n
  <2>5. freed' = [d \in Cell |-> IF d \in ReadyIn(todo \ {c}) \ ReadyIn(todo) THEN n ELSE freed[d]]
    BY DEF Evaluate, n
  <2> QED
    BY <2>4, <2>5 DEF TypeOK
<1>7. again' \in SUBSET Cell /\ todo' \in SUBSET {d \in Cell : IsFormula(d)}
  BY DEF TypeOK, Evaluate
<1> QED
  BY <1>4, <1>5, <1>6, <1>7 DEF TypeOK, Evaluate, IsFormula, historyVars

(* The cycles get their error. *)
LEMMA TypePinCycles == TypeOK /\ PinCycles => TypeOK'
<1> SUFFICES ASSUME TypeOK, PinCycles PROVE TypeOK'
  OBVIOUS
<1>1. CyclicWithin(todo) \subseteq Cell
  BY DEF CyclicWithin, TypeOK
<1>2. cached' \in [Cell -> Value]
  BY RecalcAssumption DEF TypeOK, PinCycles
<1>3. again' \in SUBSET Cell /\ todo' \in SUBSET {d \in Cell : IsFormula(d)}
  BY <1>1 DEF TypeOK, PinCycles
<1> QED
  BY <1>2, <1>3 DEF TypeOK, PinCycles, IsFormula, historyVars

(* A pass is over, and no block is laid out. *)
LEMMA TypePassOver ==
    ASSUME TypeOK, FirstPassDone \/ SpillsDone \/ FollowDynamic
    PROVE  TypeOK'
<1>1. CASE FirstPassDone
  BY <1>1 DEF TypeOK, FirstPassDone, PassDone, IsFormula, sheetVars
<1>2. CASE SpillsDone
  BY <1>2 DEF TypeOK, SpillsDone, PassDone, IsFormula, sheetVars, historyVars
<1>3. CASE FollowDynamic
  <2>1. /\ UNCHANGED <<formula, literal, cached, arrays, overlay, blocked, calm, edits>>
        /\ changed' = changed \union again
        /\ stage' \in {stage, "idle"} /\ rounds' \in {rounds, rounds + 1}
        /\ again' = {}
        /\ \/ UNCHANGED <<todo, freed>>
           \/ \E S : todo' = Dirty(S) /\ freed' = [c \in Cell |-> 0]
    BY <1>3 DEF FollowDynamic, NextRound, BeginPass, sheetVars, historyVars
  <2>2. todo' \in SUBSET {c \in Cell : IsFormula(c)} /\ freed' \in [Cell -> Int]
    BY <2>1, DirtyType DEF TypeOK
  <2> QED
    BY <2>1, <2>2 DEF TypeOK, IsFormula
<1> QED
  BY <1>1, <1>2, <1>3

(* The cells whose block gets its place have a block. *)
LEMMA PlacedHaveBlocks ==
    \A c \in Placed(Blocks) : c \in Cell /\ Blocks[c] # None
BY DEF Placed

(* The blocks are laid out. *)
LEMMA TypePlaceSpills == TypeOK /\ PlaceSpills => TypeOK'
<1> SUFFICES ASSUME TypeOK, PlaceSpills PROVE TypeOK'
  OBVIOUS
<1>1. \A c \in Cell : Blocks[c] = None \/ (IsArray(Blocks[c]) /\ ~IsSingle(Blocks[c]))
  BY DEF Blocks, TypeOK
<1>2. Blocks = [c \in Cell |-> Blocks[c]]
  BY DEF Blocks
<1>3. LaidOut \in [Cell -> Value \union {None}]
  <2> SUFFICES ASSUME NEW d \in Cell PROVE LaidOut[d] \in Value \union {None}
    BY DEF LaidOut
  <2> DEFINE over == {c \in Placed(Blocks) : d \in Covered(c, Blocks[c])}
             e == CHOOSE c \in over : TRUE
  <2>1. CASE over = {}
    BY <2>1 DEF LaidOut
  <2>2. CASE over # {}
    <3>1. e \in over
      BY <2>2
    <3>2. e \in Cell /\ Blocks[e] # None /\ d \in Covered(e, Blocks[e])
      BY <3>1, PlacedHaveBlocks
    <3>3. IsArray(Blocks[e])
      BY <3>2, <1>1
    <3>4. LaidOut[d] = ValueAt(e, Blocks[e], d)
      BY <2>2 DEF LaidOut
    <3> QED
      BY <3>2, <3>3, <3>4, ValuesOfBlocks
  <2> QED
    BY <2>1, <2>2
<1>4. Anchored \in [Cell -> Value]
  <2> SUFFICES ASSUME NEW c \in Cell PROVE Anchored[c] \in Value
    BY DEF Anchored
  <2>1. CASE Blocks[c] = None
    BY <2>1 DEF Anchored, TypeOK
  <2>2. CASE Blocks[c] # None
    <3>1. Blocks[c].values[<<0, 0>>] \in Value
      BY <2>2, <1>1, ValuesOfBlocks
    <3> QED
      BY <2>2, <3>1, RecalcAssumption DEF Anchored
  <2> QED
    BY <2>1, <2>2
<1> DEFINE moved == {c \in Cell : LaidOut[c] # overlay[c] \/ Anchored[c] # cached[c]}
<1>5. /\ UNCHANGED <<formula, literal, edits>>
      /\ arrays' = Blocks /\ overlay' = LaidOut /\ cached' = Anchored
      /\ blocked' \in SUBSET Cell
      /\ changed' = changed \union again \union moved
      /\ calm' \in BOOLEAN
      /\ stage' \in {stage, "dynamic"} /\ rounds' \in {0, rounds + 1}
      /\ again' = {}
      /\ \/ UNCHANGED <<todo, freed>>
         \/ todo' = Dirty(moved) /\ freed' = [c \in Cell |-> 0]
  BY DEF PlaceSpills, NextRound, BeginPass
<1>6. todo' \in SUBSET {c \in Cell : IsFormula(c)} /\ freed' \in [Cell -> Int]
  BY <1>5, DirtyType DEF TypeOK
<1>7. changed' \in SUBSET Cell
  BY <1>5 DEF TypeOK
<1> HIDE DEF moved
<1> QED
  BY <1>1, <1>2, <1>3, <1>4, <1>5, <1>6, <1>7 DEF TypeOK, IsFormula

(* Every step. *)
LEMMA TypeStep == TypeOK /\ [Next]_vars => TypeOK'
<1> SUFFICES ASSUME TypeOK, [Next]_vars PROVE TypeOK'
  OBVIOUS
<1>1. CASE \E c \in Cell : Edit(c)
  BY <1>1, TypeEdit
<1>2. CASE RecalcAll
  BY <1>2, TypeRecalcAll
<1>3. CASE Step
  BY <1>3, TypeEvaluate, TypePinCycles, TypePassOver, TypePlaceSpills DEF Step
<1>4. CASE UNCHANGED vars
  BY <1>4 DEF TypeOK, IsFormula, vars, sheetVars, passVars, historyVars
<1> QED
  BY <1>1, <1>2, <1>3, <1>4 DEF Next

(* The state of a recalculation is always well formed: blocks are           *)
(* rectangles of more than one value, what is dirty are formulas, and       *)
(* whatever is shown is a value, wherever the blocks were laid.             *)
THEOREM TypeCorrect == Spec => []TypeOK
<1> QED
  BY TypeInit, TypeStep, PTL DEF Spec

----------------------------------------------------------------------------
(* What recalculation does not touch is still right.                        *)

Formulas == {c \in Cell : IsFormula(c)}

Cyclic == CyclicWithin(Formulas)

(* What FormulasHold says of one formula, and the block it made with it.    *)
Sound(c) ==
    IF c \in Cyclic THEN cached[c] = Circ
    ELSE \/ IsDynamic(c)
         \/ /\ cached[c] = Holds(c, Block(c))
            /\ arrays[c] = IF IsSingle(Block(c)) THEN None ELSE Block(c)

(* A pass has nothing to do once it is over. *)
NoWorkIdle == stage = "idle" => todo = {}

(* Dirty formulas are all that depends on them, or the cycles are pinned. *)
CyclesComeWhole == Closed(todo, Cell) \/ todo \intersect Cyclic = {}

(* What depends on a dirty formula is dirty, or on a cycle. *)
NoneLeftBehind == \A c \in todo : Dependents(c) \subseteq todo \union Cyclic

(* What is not dirty is right. *)
RestIsSound == \A c \in Formulas \ todo : Sound(c)

IInv == TypeOK /\ NoWorkIdle /\ CyclesComeWhole /\ NoneLeftBehind /\ RestIsSound

(* What depends on something dirty is dirty; so are the dynamic formulas,   *)
(* and what depends on a seed.                                              *)
LEMMA DirtyIsClosed ==
    ASSUME NEW seeds \in SUBSET Cell
    PROVE  /\ \A c \in Dirty(seeds) : Dependents(c) \subseteq Dirty(seeds)
           /\ \A c \in seeds : Dependents(c) \subseteq Dirty(seeds)
           /\ \A c \in Formulas : c \in seeds \/ IsDynamic(c) => c \in Dirty(seeds)
<1> DEFINE D == Downstream(seeds \union {d \in Cell : IsDynamic(d)})
<1>1. ASSUME NEW c \in D, NEW e \in Dependents(c)
      PROVE  e \in D
  <2>1. c \in Cell /\ e \in Cell
    BY DEF Downstream, Dependents
  <2> SUFFICES ASSUME NEW S \in SUBSET Cell, Closed(S, Cell),
                      seeds \union {d \in Cell : IsDynamic(d)} \subseteq S
               PROVE  e \in S
    BY <2>1 DEF Downstream
  <2>2. c \in S
    BY DEF Downstream
  <2> QED
    BY <2>1, <2>2 DEF Closed
<1>2. seeds \union {d \in Cell : IsDynamic(d)} \subseteq D
  BY DEF Downstream
<1>3. Dirty(seeds) = {c \in D : IsFormula(c)}
  BY DEF Dirty
<1>4. \A c \in Cell : \A e \in Dependents(c) : e \in Cell /\ IsFormula(e)
  BY DEF Dependents
<1>5. D \subseteq Cell
  BY DEF Downstream
<1> HIDE DEF D
<1> QED
  BY <1>1, <1>2, <1>3, <1>4, <1>5 DEF Formulas

(* Formulas that nothing left behind is in are a good start of a pass. *)
LEMMA FreshPass ==
    ASSUME NEW seeds \in SUBSET Cell, todo' = Dirty(seeds), UNCHANGED formula
    PROVE  CyclesComeWhole' /\ NoneLeftBehind'
<1>1. \A c \in todo' : Dependents(c)' \subseteq todo'
  BY DirtyIsClosed DEF Dependents, IsFormula
<1> QED
  BY <1>1 DEF CyclesComeWhole, NoneLeftBehind, Closed

(* What a ready formula depends on is clean, so that it is on no cycle.     *)
LEMMA ReadyIsNotCyclic ==
    ASSUME IInv, NEW c \in ReadyIn(todo)
    PROVE  /\ c \in Formulas /\ c \notin Cyclic
           /\ \A d \in todo : c \notin Dependents(d)
           /\ c \notin Reads(formula[c])
<1>1. c \in todo /\ c \in Formulas /\ Reads(formula[c]) \intersect todo = {}
  BY DEF ReadyIn, IInv, TypeOK, Formulas
<1>2. \A d \in todo : c \notin Dependents(d)
  BY <1>1 DEF Dependents
<1>3. c \notin Reads(formula[c])
  BY <1>1
<1>4. c \notin Cyclic
  <2>1. CASE todo \intersect Cyclic = {}
    BY <1>1, <2>1
  <2>2. CASE Closed(todo, Cell)
    <3> DEFINE T == todo \ {c}
    <3>1. T \in SUBSET Formulas
      BY DEF IInv, TypeOK, Formulas
    <3>2. \A d \in todo : Dependents(d) \subseteq T
      BY <1>2, <2>2 DEF Closed, Dependents, IInv, TypeOK
    <3>3. Dependents(c) \intersect Formulas \subseteq T /\ Closed(T, Formulas)
      BY <1>1, <3>2 DEF Closed
    <3>4. c \notin T
      OBVIOUS
    <3> HIDE DEF T
    <3> QED
      BY <3>1, <3>3, <3>4 DEF Cyclic, CyclicWithin
  <2> QED
    BY <2>1, <2>2 DEF IInv, CyclesComeWhole
<1> QED
  BY <1>1, <1>2, <1>3, <1>4

(* A static formula sees the same, and makes the same of it, as long as     *)
(* what it reads shows the same.                                            *)
LEMMA SameBlock ==
    ASSUME TypeOK, NEW k \in Formulas, ~IsDynamic(k), formula'[k] = formula[k],
           \A d \in Reads(formula[k]) : Shown'[d] = Shown[d]
    PROVE  Block(k)' = Block(k)
<1>1. formula[k] \in Formula /\ formula[k] \notin Dynamic
  BY DEF TypeOK, Formulas, IsFormula, IsDynamic
<1>2. Sees(formula[k]) = Reads(formula[k])
  BY <1>1, RecalcAssumption
<1>3. [d \in Sees(formula[k]) |-> Shown[d]]' = [d \in Sees(formula[k]) |-> Shown[d]]
  BY <1>2
<1> QED
  BY <1>3 DEF Block

(* Without what has changed, the cycles are what they were. *)
LEMMA CyclesStay ==
    ASSUME UNCHANGED formula
    PROVE  Cyclic' = Cyclic /\ Formulas' = Formulas
BY DEF Cyclic, CyclicWithin, Formulas, Closed, Dependents, IsFormula

(* A full recalculation takes every formula in. *)
LEMMA InvRecalcAll == IInv /\ RecalcAll => IInv'
<1> SUFFICES ASSUME IInv, RecalcAll PROVE IInv'
  OBVIOUS
<1>1. TypeOK'
  BY TypeRecalcAll DEF IInv
<1>2. todo' = Formulas /\ stage' = "first" /\ UNCHANGED formula
  BY DEF RecalcAll, BeginPass, Formulas, sheetVars
<1>3. Formulas' = Formulas
  BY <1>2, CyclesStay
<1>4. \A c \in Cell : Dependents(c)' \subseteq Formulas
  BY <1>2 DEF Dependents, Formulas, IsFormula
<1>5. \A c \in Formulas : c \in Cell
  BY DEF Formulas
<1> QED
  BY <1>1, <1>2, <1>3, <1>4, <1>5
  DEF IInv, NoWorkIdle, CyclesComeWhole, NoneLeftBehind, RestIsSound, Closed

(* One formula is evaluated. *)
LEMMA InvEvaluate ==
    ASSUME IInv, NEW c \in Cell, Evaluate(c)
    PROVE  IInv'
<1>1. TypeOK'
  BY TypeEvaluate DEF IInv
<1>2. /\ UNCHANGED <<formula, literal, overlay, blocked, stage>>
      /\ c \in ReadyIn(todo) /\ stage # "idle" /\ todo' = todo \ {c}
      /\ cached' = [cached EXCEPT ![c] = Holds(c, Block(c))]
      /\ arrays' = [arrays EXCEPT ![c] = IF IsSingle(Block(c)) THEN None ELSE Block(c)]
  BY DEF Evaluate, NextReady
<1>3. /\ c \in Formulas /\ c \notin Cyclic /\ c \notin Reads(formula[c])
      /\ \A d \in todo : c \notin Dependents(d)
  BY <1>2, ReadyIsNotCyclic
<1>4. Cyclic' = Cyclic /\ Formulas' = Formulas
  BY <1>2, CyclesStay
<1>5. \A d \in Cell : Dependents(d)' = Dependents(d)
  BY <1>2 DEF Dependents, IsFormula
<1>6. todo \subseteq Cell
  BY DEF IInv, TypeOK
<1>7. CyclesComeWhole'
  BY <1>2, <1>3, <1>4, <1>5, <1>6 DEF IInv, CyclesComeWhole, Closed
<1>8. NoneLeftBehind'
  BY <1>2, <1>3, <1>4, <1>5, <1>6 DEF IInv, NoneLeftBehind
<1>9. ASSUME NEW k \in Formulas, k \notin todo \ {c}, k \notin Cyclic, ~IsDynamic(k)
      PROVE  Block(k)' = Block(k)
  <2>1. c \notin Reads(formula[k])
    <3>1. CASE k = c
      BY <3>1, <1>3
    <3>2. CASE k # c
      BY <3>2, <1>2, <1>9 DEF IInv, NoneLeftBehind, Dependents, Formulas, ReadyIn
    <3> QED
      BY <3>1, <3>2
  <2>2. Reads(formula[k]) \subseteq Cell
    BY RecalcAssumption DEF IInv, TypeOK, Formulas, IsFormula
  <2>3. \A d \in Reads(formula[k]) : Shown'[d] = Shown[d]
    BY <1>2, <2>1, <2>2 DEF Shown, IsFormula, IInv, TypeOK
  <2> QED
    BY <1>2, <1>9, <2>3, SameBlock DEF IInv
<1>10. ASSUME NEW k \in Formulas, k \notin todo \ {c}
       PROVE  Sound(k)'
  <2>1. IsDynamic(k)' = IsDynamic(k) /\ k \in Cell
    BY <1>2 DEF IsDynamic, Formulas
  <2>2. \A b : Holds(k, b)' = Holds(k, b)
    BY <1>2 DEF Holds
  <2>3. CASE k = c
    <3>1. cached'[c] = Holds(c, Block(c))
      BY <1>2 DEF IInv, TypeOK
    <3>2. arrays'[c] = IF IsSingle(Block(c)) THEN None ELSE Block(c)
      <4>1. arrays = [d \in Cell |-> arrays[d]]
        BY DEF IInv, TypeOK
      <4> QED
        BY <1>2, <4>1
    <3>3. IsDynamic(c) \/ Block(c)' = Block(c)
      BY <1>3, <1>9
    <3> QED
      BY <2>1, <2>2, <2>3, <3>1, <3>2, <3>3, <1>3, <1>4 DEF Sound
  <2>4. CASE k # c
    <3>1. k \in Formulas \ todo
      BY <1>10, <2>4
    <3>2. Sound(k)
      BY <3>1 DEF IInv, RestIsSound
    <3>3. cached'[k] = cached[k]
      BY <1>2, <2>1, <2>4 DEF IInv, TypeOK
    <3>4. arrays'[k] = arrays[k]
      <4>1. arrays = [d \in Cell |-> arrays[d]]
        BY DEF IInv, TypeOK
      <4> QED
        BY <1>2, <2>1, <2>4, <4>1
    <3>5. CASE k \in Cyclic
      BY <3>2, <3>3, <3>5, <1>4 DEF Sound
    <3>6. CASE k \notin Cyclic /\ IsDynamic(k)
      BY <3>6, <2>1, <1>4 DEF Sound
    <3>7. CASE k \notin Cyclic /\ ~IsDynamic(k)
      <4>1. Block(k)' = Block(k)
        BY <3>7, <1>9, <1>10
      <4> QED
        BY <3>2, <3>3, <3>4, <3>7, <4>1, <2>1, <2>2, <1>4 DEF Sound
    <3> QED
      BY <3>5, <3>6, <3>7
  <2> QED
    BY <2>3, <2>4
<1>11. RestIsSound' /\ NoWorkIdle'
  BY <1>2, <1>4, <1>10 DEF RestIsSound, NoWorkIdle
<1> QED
  BY <1>1, <1>7, <1>8, <1>11 DEF IInv

(* What is pinned is on a cycle, and no cycle is left half pinned. *)
LEMMA PinnedIsCyclic ==
    ASSUME IInv
    PROVE  /\ CyclicWithin(todo) \subseteq Cyclic \intersect todo
           /\ (todo \ CyclicWithin(todo)) \intersect Cyclic = {}
<1>1. todo \subseteq Formulas
  BY DEF IInv, TypeOK, Formulas
<1>2. ASSUME NEW k \in CyclicWithin(todo)
      PROVE  k \in Cyclic
  <2>1. k \in todo /\ k \in Formulas
    BY <1>1 DEF CyclicWithin
  <2> SUFFICES ASSUME NEW T \in SUBSET Formulas,
                      Dependents(k) \intersect Formulas \subseteq T, Closed(T, Formulas)
               PROVE  k \in T
    BY <2>1 DEF Cyclic, CyclicWithin
  <2> DEFINE W == T \intersect todo
  <2>2. W \in SUBSET todo
    OBVIOUS
  <2>3. Dependents(k) \intersect todo \subseteq W /\ Closed(W, todo)
    BY <1>1 DEF Closed
  <2>4. k \in W
    <3> HIDE DEF W
    <3> QED
      BY <2>2, <2>3 DEF CyclicWithin
  <2> QED
    BY <2>4
<1>3. ASSUME NEW k \in todo, k \in Cyclic
      PROVE  k \in CyclicWithin(todo)
  <2>1. Closed(todo, Cell)
    BY <1>3 DEF IInv, CyclesComeWhole
  <2>2. \A d \in todo : Dependents(d) \subseteq todo
    BY <2>1 DEF Closed, Dependents
  <2> SUFFICES ASSUME NEW T \in SUBSET todo,
                      Dependents(k) \intersect todo \subseteq T, Closed(T, todo)
               PROVE  k \in T
    BY DEF CyclicWithin
  <2>3. T \in SUBSET Formulas
    BY <1>1
  <2>4. Dependents(k) \intersect Formulas \subseteq T /\ Closed(T, Formulas)
    BY <2>2 DEF Closed
  <2> QED
    BY <1>3, <2>3, <2>4 DEF Cyclic, CyclicWithin
<1>4. CyclicWithin(todo) \subseteq todo
  BY DEF CyclicWithin
<1> QED
  BY <1>2, <1>3, <1>4

(* The cycles get their error. *)
LEMMA InvPinCycles == IInv /\ PinCycles => IInv'
<1> SUFFICES ASSUME IInv, PinCycles PROVE IInv'
  OBVIOUS
<1> DEFINE cyclic == CyclicWithin(todo)
<1>1. TypeOK'
  BY TypePinCycles DEF IInv
<1>2. /\ UNCHANGED <<formula, literal, arrays, overlay, blocked, stage>>
      /\ todo # {} /\ todo' = todo \ cyclic
      /\ cached' = [d \in Cell |-> IF d \in cyclic THEN Circ ELSE cached[d]]
  BY DEF PinCycles
<1>3. cyclic \subseteq Cyclic \intersect todo /\ (todo \ cyclic) \intersect Cyclic = {}
  BY PinnedIsCyclic
<1> HIDE DEF cyclic
<1>4. Cyclic' = Cyclic /\ Formulas' = Formulas
  BY <1>2, CyclesStay
<1>5. \A d \in Cell : Dependents(d)' = Dependents(d)
  BY <1>2 DEF Dependents, IsFormula
<1>6. todo \subseteq Cell
  BY DEF IInv, TypeOK
<1>7. CyclesComeWhole' /\ NoneLeftBehind'
  BY <1>2, <1>3, <1>4, <1>5, <1>6 DEF IInv, CyclesComeWhole, NoneLeftBehind
<1>8. ASSUME NEW k \in Formulas, k \notin todo \ cyclic
      PROVE  Sound(k)'
  <2>1. IsDynamic(k)' = IsDynamic(k) /\ k \in Cell /\ (\A b : Holds(k, b)' = Holds(k, b))
    BY <1>2 DEF IsDynamic, Formulas, Holds
  <2>2. CASE k \in cyclic
    BY <1>2, <1>3, <1>4, <2>1, <2>2 DEF Sound
  <2>3. CASE k \notin cyclic
    <3>1. Sound(k) /\ cached'[k] = cached[k] /\ arrays'[k] = arrays[k]
      BY <1>2, <1>8, <2>1, <2>3 DEF IInv, RestIsSound
    <3>2. CASE k \in Cyclic
      BY <3>1, <3>2, <1>4 DEF Sound
    <3>3. CASE k \notin Cyclic /\ IsDynamic(k)
      BY <3>3, <2>1, <1>4 DEF Sound
    <3>4. CASE k \notin Cyclic /\ ~IsDynamic(k)
      <4>1. Reads(formula[k]) \intersect cyclic = {}
        BY <1>3, <1>6, <1>8, <2>1, <2>3, <3>4 DEF IInv, NoneLeftBehind, Dependents, Formulas
      <4>2. Reads(formula[k]) \subseteq Cell
        BY RecalcAssumption DEF IInv, TypeOK, Formulas, IsFormula
      <4>3. \A d \in Reads(formula[k]) : Shown'[d] = Shown[d]
        BY <1>2, <4>1, <4>2 DEF Shown, IsFormula
      <4>4. Block(k)' = Block(k)
        BY <1>2, <3>4, <4>3, SameBlock DEF IInv
      <4> QED
        BY <3>1, <3>4, <4>4, <2>1, <1>4 DEF Sound
    <3> QED
      BY <3>2, <3>3, <3>4
  <2> QED
    BY <2>2, <2>3
<1>9. RestIsSound' /\ NoWorkIdle'
  BY <1>2, <1>4, <1>8 DEF IInv, RestIsSound, NoWorkIdle
<1> QED
  BY <1>1, <1>7, <1>9 DEF IInv

(* Nothing changes but what is dirty, to nothing or to a fresh pass. *)
LEMMA InvPassOver ==
    ASSUME IInv, FirstPassDone \/ SpillsDone \/ FollowDynamic
    PROVE  IInv'
<1>1. TypeOK'
  BY TypePassOver DEF IInv
<1>2. /\ UNCHANGED sheetVars
      /\ todo = {}
      /\ \/ todo' = {}
         \/ stage' = stage /\ stage # "idle"
            /\ \E seeds \in SUBSET Cell : todo' = Dirty(seeds)
  <2>1. CASE FirstPassDone \/ SpillsDone
    BY <2>1 DEF FirstPassDone, SpillsDone, PassDone
  <2>2. CASE FollowDynamic
    <3> DEFINE moved == (changed \union again) \ {c \in Cell : IsDynamic(c)}
    <3>1. moved \in SUBSET Cell
      BY DEF IInv, TypeOK
    <3>2. /\ UNCHANGED sheetVars /\ todo = {} /\ stage = "dynamic"
          /\ todo' = todo \/ (stage' = stage /\ todo' = Dirty(moved))
      BY <2>2 DEF FollowDynamic, BeginPass
    <3> HIDE DEF moved
    <3> QED
      BY <3>1, <3>2
  <2> QED
    BY <2>1, <2>2
<1>3. CyclesComeWhole' /\ NoneLeftBehind'
  <2>1. CASE todo' = {}
    BY <2>1 DEF CyclesComeWhole, NoneLeftBehind
  <2>2. CASE \E seeds \in SUBSET Cell : todo' = Dirty(seeds)
    BY <2>2, <1>2, FreshPass DEF sheetVars
  <2> QED
    BY <1>2, <2>1, <2>2
<1>4. \A k \in Formulas : Sound(k)' = Sound(k)
  <2>1. UNCHANGED <<formula, literal, cached, arrays, overlay, blocked>>
    BY <1>2 DEF sheetVars
  <2>2. Cyclic' = Cyclic
    BY <2>1, CyclesStay
  <2>3. Shown' = Shown
    BY <2>1 DEF Shown, IsFormula
  <2>4. \A k : Block(k)' = Block(k) /\ IsDynamic(k)' = IsDynamic(k)
    BY <2>1, <2>3 DEF Block, IsDynamic
  <2>5. \A k, b : Holds(k, b)' = Holds(k, b)
    BY <2>1 DEF Holds
  <2> QED
    BY <2>1, <2>2, <2>4, <2>5 DEF Sound
<1>5. RestIsSound' /\ NoWorkIdle'
  <2>1. Formulas' = Formulas
    BY <1>2, CyclesStay DEF sheetVars
  <2> QED
    BY <2>1, <1>2, <1>4 DEF IInv, RestIsSound, NoWorkIdle
<1> QED
  BY <1>1, <1>3, <1>5 DEF IInv

(* The blocks are laid out: a formula that neither moves nor reads what     *)
(* moves is as right as it was, and says what became of its block.          *)
LEMMA InvPlaceSpills == IInv /\ PlaceSpills => IInv'
<1> SUFFICES ASSUME IInv, PlaceSpills PROVE IInv'
  OBVIOUS
<1> DEFINE moved == {c \in Cell : LaidOut[c] # overlay[c] \/ Anchored[c] # cached[c]}
<1>1. TypeOK'
  BY TypePlaceSpills DEF IInv
<1>2. /\ UNCHANGED <<formula, literal>> /\ todo = {}
      /\ arrays' = Blocks /\ overlay' = LaidOut /\ cached' = Anchored
      /\ blocked' = {c \in Cell \ Placed(Blocks) : Blocks[c] # None}
      /\ \/ moved = {} /\ todo' = {}
         \/ stage' = stage /\ stage # "idle" /\ todo' = Dirty(moved)
  BY DEF PlaceSpills, BeginPass
<1>3. moved \in SUBSET Cell
  OBVIOUS
<1>4. \A c \in Cell \ moved : overlay'[c] = overlay[c] /\ cached'[c] = cached[c]
  BY <1>2
<1> HIDE DEF moved
<1>5. Cyclic' = Cyclic /\ Formulas' = Formulas
  BY <1>2, CyclesStay
<1>6. CyclesComeWhole' /\ NoneLeftBehind'
  <2>1. CASE todo' = {}
    BY <2>1 DEF CyclesComeWhole, NoneLeftBehind
  <2>2. CASE todo' = Dirty(moved)
    BY <2>2, <1>2, <1>3, FreshPass
  <2> QED
    BY <1>2, <2>1, <2>2
<1>7. ASSUME NEW k \in Formulas, k \notin todo'
      PROVE  k \notin moved /\ Reads(formula[k]) \intersect moved = {}
  <2>1. CASE moved = {}
    BY <2>1
  <2>2. CASE todo' = Dirty(moved)
    BY <2>2, <1>3, <1>7, DirtyIsClosed DEF Dependents, Formulas
  <2> QED
    BY <1>2, <2>1, <2>2
<1>8. ASSUME NEW k \in Formulas, k \notin todo'
      PROVE  Sound(k)'
  <2>1. IsDynamic(k)' = IsDynamic(k) /\ k \in Cell /\ IsFormula(k)
    BY <1>2 DEF IsDynamic, Formulas
  <2>2. Sound(k) /\ cached'[k] = cached[k]
    BY <1>2, <1>4, <1>7, <1>8, <2>1 DEF IInv, RestIsSound
  <2>3. CASE k \in Cyclic
    BY <2>2, <2>3, <1>5 DEF Sound
  <2>4. CASE k \notin Cyclic /\ IsDynamic(k)
    BY <2>4, <2>1, <1>5 DEF Sound
  <2>5. CASE k \notin Cyclic /\ ~IsDynamic(k)
    <3>1. Reads(formula[k]) \subseteq Cell
      BY RecalcAssumption DEF IInv, TypeOK, Formulas, IsFormula
    <3>2. \A d \in Reads(formula[k]) : Shown'[d] = Shown[d]
      BY <1>2, <1>4, <1>7, <1>8, <3>1 DEF Shown, IsFormula
    <3>3. Block(k)' = Block(k)
      BY <1>2, <2>5, <3>2, SameBlock DEF IInv
    <3>4. cached[k] = Holds(k, Block(k))
          /\ arrays[k] = IF IsSingle(Block(k)) THEN None ELSE Block(k)
      BY <2>2, <2>5 DEF Sound
    <3>5. Block(k) # None
      BY <2>1, BlocksAreArrays DEF IInv
    <3>6. arrays'[k] = arrays[k]
      BY <1>2, <2>1 DEF Blocks
    <3>7. cached'[k] = Holds(k, Block(k))'
      <4>1. CASE IsSingle(Block(k))
        BY <4>1, <2>2, <3>3, <3>4 DEF Holds
      <4>2. CASE ~IsSingle(Block(k))
        <5>1. Blocks[k] = Block(k)
          BY <4>2, <3>4, <2>1 DEF Blocks
        <5>2. cached'[k] = IF k \in Placed(Blocks) THEN Block(k).values[<<0, 0>>] ELSE Spill
          BY <5>1, <3>5, <1>2, <2>1 DEF Anchored
        <5>3. k \in blocked' <=> k \notin Placed(Blocks)
          BY <5>1, <3>5, <1>2, <2>1
        <5> QED
          BY <4>2, <3>3, <5>2, <5>3 DEF Holds
      <4> QED
        BY <4>1, <4>2
    <3> QED
      BY <2>1, <2>5, <3>3, <3>4, <3>6, <3>7, <1>5 DEF Sound
  <2> QED
    BY <2>3, <2>4, <2>5
<1>9. RestIsSound' /\ NoWorkIdle'
  BY <1>2, <1>5, <1>8 DEF RestIsSound, NoWorkIdle
<1> QED
  BY <1>1, <1>6, <1>9 DEF IInv

(* What is dirty once a cell was edited, by what depends on what then. *)
LEMMA DirtyAfterEdit ==
    ASSUME NEW c \in Cell
    PROVE  /\ \A d \in Dirty({c})' : Dependents(d)' \subseteq Dirty({c})'
           /\ Dependents(c)' \subseteq Dirty({c})'
           /\ \A d \in Formulas' : d = c \/ IsDynamic(d)' => d \in Dirty({c})'
<1> DEFINE D == Downstream({c} \union {d \in Cell : IsDynamic(d)})'
<1>1. ASSUME NEW d \in D, NEW e \in Dependents(d)'
      PROVE  e \in D
  <2>1. d \in Cell /\ e \in Cell
    BY DEF Downstream, Dependents
  <2> SUFFICES ASSUME NEW S \in SUBSET Cell, Closed(S, Cell)',
                      {c} \union {x \in Cell : IsDynamic(x)'} \subseteq S
               PROVE  e \in S
    BY <2>1 DEF Downstream, Closed, Dependents, IsDynamic, IsFormula
  <2>2. d \in S
    BY DEF Downstream, Closed, Dependents, IsDynamic, IsFormula
  <2> QED
    BY <2>1, <2>2 DEF Closed
<1>2. {c} \union {d \in Cell : IsDynamic(d)'} \subseteq D
  BY DEF Downstream
<1>3. Dirty({c})' = {d \in D : IsFormula(d)'}
  BY DEF Dirty
<1>4. \A d \in Cell : \A e \in Dependents(d)' : e \in Cell /\ IsFormula(e)'
  BY DEF Dependents
<1>5. D \subseteq Cell
  BY DEF Downstream
<1> HIDE DEF D
<1> QED
  BY <1>1, <1>2, <1>3, <1>4, <1>5 DEF Formulas

(* A formula that is not dirty is on a cycle after the edit if, and only    *)
(* if, it was before.                                                       *)
LEMMA CyclesOfTheRestStay ==
    ASSUME NEW c \in Cell, \A d \in Cell \ {c} : formula'[d] = formula[d],
           NEW k \in Formulas', k \notin Dirty({c})'
    PROVE  k \in Formulas /\ (k \in Cyclic <=> k \in Cyclic')
<1> DEFINE D == Dirty({c})'
<1>1. /\ \A d \in D : Dependents(d)' \subseteq D
      /\ Dependents(c)' \subseteq D
      /\ c \in Formulas' => c \in D
      /\ D \subseteq Formulas'
  BY DirtyAfterEdit, DirtyType DEF Formulas
<1> HIDE DEF D
<1>2. k \notin D /\ k # c /\ k \in Cell
  BY <1>1 DEF D, Formulas
<1>3. k \in Formulas
  BY <1>2 DEF Formulas, IsFormula
<1>4. \A d \in Cell : \A e \in Cell \ {c} : e \in Dependents(d) <=> e \in Dependents(d)'
  BY DEF Dependents, IsFormula
<1>5. \A d \in Cell : (d \in Formulas /\ d # c) <=> (d \in Formulas' /\ d # c)
  BY DEF Formulas, IsFormula
<1>6. /\ Formulas \subseteq Cell /\ Formulas' \subseteq Cell
      /\ \A d \in Cell : Dependents(d) \subseteq Formulas /\ Dependents(d)' \subseteq Formulas'
  BY DEF Formulas, Dependents
<1>7. ASSUME k \in Cyclic'
      PROVE  k \in Cyclic
  <2> SUFFICES ASSUME NEW T \in SUBSET Formulas,
                      Dependents(k) \intersect Formulas \subseteq T, Closed(T, Formulas)
               PROVE  k \in T
    BY <1>3 DEF Cyclic, CyclicWithin
  <2> DEFINE W == (T \ {c}) \union D
  <2>1. W \in SUBSET Formulas'
    BY <1>1, <1>5, <1>6
  <2>2. \A d \in W : Dependents(d)' \subseteq W
    <3> SUFFICES ASSUME NEW d \in W, NEW e \in Dependents(d)' PROVE e \in W
      OBVIOUS
    <3>1. CASE d \in D
      BY <3>1, <1>1
    <3>2. CASE d \in T /\ e = c
      BY <3>2, <1>1, <1>6
    <3>3. CASE d \in T /\ e # c
      BY <3>3, <1>4, <1>6 DEF Closed
    <3> QED
      BY <3>1, <3>2, <3>3
  <2>3. Dependents(k)' \subseteq W
    <3> SUFFICES ASSUME NEW e \in Dependents(k)' PROVE e \in W
      OBVIOUS
    <3>1. CASE e = c
      BY <3>1, <1>1, <1>2, <1>6
    <3>2. CASE e # c
      BY <3>2, <1>2, <1>4, <1>6
    <3> QED
      BY <3>1, <3>2
  <2> HIDE DEF W
  <2>4. k \in W
    BY <1>7, <2>1, <2>2, <2>3 DEF Cyclic, CyclicWithin, Closed
  <2> QED
    BY <2>4, <1>2 DEF W
<1>8. ASSUME k \in Cyclic
      PROVE  k \in Cyclic'
  <2> SUFFICES ASSUME NEW T \in SUBSET Formulas',
                      Dependents(k)' \intersect Formulas' \subseteq T,
                      \A d \in T : Dependents(d)' \intersect Formulas' \subseteq T
               PROVE  k \in T
    BY DEF Cyclic, CyclicWithin, Closed
  <2> DEFINE W == (T \union D \union {c}) \intersect Formulas
  <2>1. W \in SUBSET Formulas
    OBVIOUS
  <2>2. \A d \in W : Dependents(d) \subseteq W
    <3> SUFFICES ASSUME NEW d \in W, NEW e \in Dependents(d) PROVE e \in W
      OBVIOUS
    <3>1. d \in Cell /\ e \in Formulas /\ e \in Cell
      BY <1>6
    <3>2. CASE e = c
      BY <3>1, <3>2
    <3>3. CASE e # c
      <4>1. e \in Dependents(d)' /\ e \in Formulas'
        BY <3>1, <3>3, <1>4, <1>6
      <4> QED
        BY <3>1, <4>1, <1>1
    <3> QED
      BY <3>2, <3>3
  <2>3. Dependents(k) \subseteq W
    <3> SUFFICES ASSUME NEW e \in Dependents(k) PROVE e \in W
      OBVIOUS
    <3>1. e \in Formulas /\ e \in Cell
      BY <1>2, <1>6
    <3>2. e # c => e \in Dependents(k)' /\ e \in Formulas'
      BY <3>1, <1>2, <1>4, <1>6
    <3> QED
      BY <3>1, <3>2
  <2> HIDE DEF W
  <2>4. k \in W
    BY <1>8, <2>1, <2>2, <2>3 DEF Cyclic, CyclicWithin, Closed
  <2> QED
    BY <2>4, <1>2 DEF W
<1> QED
  BY <1>3, <1>7, <1>8

(* An edit: a formula that is not downstream of it is as right as it was.   *)
LEMMA InvEdit ==
    ASSUME IInv, NEW c \in Cell, Edit(c)
    PROVE  IInv'
<1>1. TypeOK'
  BY TypeEdit DEF IInv
<1>2. /\ \A d \in Cell \ {c} : formula'[d] = formula[d] /\ literal'[d] = literal[d]
      /\ Edited(c)
  BY DEF Edit, EditFormula, EditLiteral, CellClear, IInv, TypeOK
<1>3. /\ UNCHANGED <<arrays, overlay, blocked>> /\ stage = "idle" /\ stage' = "first"
      /\ todo' = Dirty({c})'
      /\ \A d \in Cell \ {c} : cached'[d] = cached[d]
  BY <1>2 DEF Edited, BeginPass, IInv, TypeOK
<1>4. todo = {}
  BY <1>3 DEF IInv, NoWorkIdle
<1>5. CyclesComeWhole' /\ NoneLeftBehind'
  BY <1>3, DirtyAfterEdit DEF CyclesComeWhole, NoneLeftBehind, Closed
<1>6. ASSUME NEW k \in Formulas', k \notin todo'
      PROVE  Sound(k)'
  <2>1. k \in Formulas /\ (k \in Cyclic <=> k \in Cyclic')
    BY <1>2, <1>3, <1>6, CyclesOfTheRestStay
  <2>2. k \in Cell /\ k # c /\ ~IsDynamic(k)' /\ c \notin Reads(formula'[k])
    BY <1>3, <1>6, DirtyAfterEdit DEF Formulas, Dependents
  <2>3. formula'[k] = formula[k] /\ cached'[k] = cached[k] /\ arrays'[k] = arrays[k]
    BY <1>2, <1>3, <2>2
  <2>4. Sound(k) /\ ~IsDynamic(k)
    BY <1>4, <2>1, <2>2, <2>3 DEF IInv, RestIsSound, IsDynamic
  <2>5. Reads(formula[k]) \subseteq Cell
    BY <2>1, RecalcAssumption DEF IInv, TypeOK, Formulas, IsFormula
  <2>6. \A d \in Reads(formula[k]) : Shown'[d] = Shown[d]
    BY <1>2, <1>3, <2>2, <2>3, <2>5 DEF Shown, IsFormula
  <2>7. Block(k)' = Block(k)
    BY <2>1, <2>3, <2>4, <2>6, SameBlock DEF IInv
  <2>8. \A b : Holds(k, b)' = Holds(k, b)
    BY <1>3 DEF Holds
  <2>9. CASE k \in Cyclic
    BY <2>9, <2>1, <2>3, <2>4 DEF Sound
  <2>10. CASE k \notin Cyclic
    BY <2>10, <2>1, <2>3, <2>4, <2>7, <2>8 DEF Sound
  <2> QED
    BY <2>9, <2>10
<1>7. RestIsSound' /\ NoWorkIdle'
  BY <1>3, <1>6 DEF RestIsSound, NoWorkIdle
<1> QED
  BY <1>1, <1>5, <1>7 DEF IInv

(* A new workbook has no formula. *)
LEMMA InvInit == Init => IInv
<1> SUFFICES ASSUME Init PROVE IInv
  OBVIOUS
<1>1. todo = {} /\ Formulas = {}
  BY DEF Init, Formulas, IsFormula
<1> QED
  BY <1>1, TypeInit
  DEF IInv, NoWorkIdle, CyclesComeWhole, NoneLeftBehind, RestIsSound

(* Every step. *)
LEMMA InvStep == IInv /\ [Next]_vars => IInv'
<1> SUFFICES ASSUME IInv, [Next]_vars PROVE IInv'
  OBVIOUS
<1>1. CASE \E c \in Cell : Edit(c)
  BY <1>1, InvEdit
<1>2. CASE RecalcAll
  BY <1>2, InvRecalcAll
<1>3. CASE Step
  BY <1>3, InvEvaluate, InvPinCycles, InvPassOver, InvPlaceSpills DEF Step
<1>4. CASE UNCHANGED vars
  <2>1. TypeOK'
    BY <1>4, TypeStep DEF IInv
  <2>2. UNCHANGED <<formula, literal, cached, arrays, overlay, blocked, stage, todo>>
    BY <1>4 DEF vars, sheetVars, passVars
  <2>3. Cyclic' = Cyclic /\ Formulas' = Formulas
    BY <2>2, CyclesStay
  <2>4. Shown' = Shown
    BY <2>2 DEF Shown, IsFormula
  <2>5. \A k : Block(k)' = Block(k) /\ IsDynamic(k)' = IsDynamic(k)
    BY <2>2, <2>4 DEF Block, IsDynamic
  <2>6. \A k, b : Holds(k, b)' = Holds(k, b)
    BY <2>2 DEF Holds
  <2>7. \A k : Sound(k)' = Sound(k) /\ Dependents(k)' = Dependents(k)
    BY <2>2, <2>3, <2>5, <2>6 DEF Sound, Dependents, IsFormula
  <2> QED
    BY <2>1, <2>2, <2>3, <2>7
    DEF IInv, NoWorkIdle, CyclesComeWhole, NoneLeftBehind, RestIsSound, Closed
<1> QED
  BY <1>1, <1>2, <1>3, <1>4 DEF Next

(* However little of the sheet the passes look at again, and however the    *)
(* layout moves what they have read, a recalculation leaves every formula   *)
(* with what it makes of the cells, and #CIRC! on every cycle and nowhere   *)
(* else for that reason: for every grid, every language of formulas, and    *)
(* every bound on the passes.                                               *)
THEOREM FormulasCorrect == Spec => []FormulasHold
<1>1. IInv => FormulasHold
  <2> SUFFICES ASSUME IInv, stage = "idle", NEW c \in Cell, IsFormula(c)
               PROVE  IF c \in CyclicWithin({d \in Cell : IsFormula(d)}) THEN cached[c] = Circ
                      ELSE IsDynamic(c) \/ cached[c] = Holds(c, Block(c))
    BY DEF FormulasHold
  <2>1. Sound(c)
    BY DEF IInv, NoWorkIdle, RestIsSound, Formulas
  <2> QED
    BY <2>1 DEF Sound, Cyclic, Formulas
<1> QED
  BY <1>1, InvInit, InvStep, PTL DEF Spec

----------------------------------------------------------------------------
(* Which blocks get their place.                                            *)

(* What holds of zero, and of every number's successor, holds of them all.  *)
LEMMA NumbersInduct ==
    ASSUME NEW G, 0 \in G, \A n \in Nat : n \in G => n + 1 \in G
    PROVE  \A n \in Nat : n \in G
<1> DEFINE R == {ss \in Nat \X Nat : ss[1] < ss[2]}
           T == Nat \ G
<1> SUFFICES ASSUME T # {} PROVE FALSE
  OBVIOUS
<1>1. IsWellFoundedOn(R, Nat)
  BY NatLessThanWellFounded DEF OpToRel
<1>2. \A x, y \in Nat : y < x => <<y, x>> \in R
  OBVIOUS
<1>3. T \subseteq Nat
  OBVIOUS
<1> HIDE DEF R, T
<1>4. PICK x \in T : \A y \in T : ~(<<y, x>> \in R)
  BY <1>1, <1>3, WFMin
<1>5. \A y \in T : ~(y < x)
  BY <1>2, <1>3, <1>4
<1> USE DEF T
<1>6. x # 0 /\ x \in Nat /\ x \notin G
  BY <1>4
<1>7. x - 1 \in Nat /\ x - 1 < x /\ (x - 1) + 1 = x
  BY <1>6
<1>8. x - 1 \in G
  <2> SUFFICES ASSUME x - 1 \notin G PROVE FALSE
    OBVIOUS
  <2>1. x - 1 \in T
    BY <1>7
  <2> HIDE DEF T
  <2> QED
    BY <2>1, <1>5, <1>7
<1> HIDE DEF T
<1> QED
  BY <1>6, <1>7, <1>8

(* P has, of the cells up to n, those whose block fits beside the ones of P *)
(* that come before it.                                                     *)
PlanUpTo(P, blocks, n) ==
    \A c \in Cell : c <= n => (c \in P <=> blocks[c] # None /\ Fits(c, blocks, {e \in P : e < c}))

(* The last cell. *)
LastCell == Rows * Cols

(* Every cell comes no later. *)
LEMMA CellsAreNumbers ==
    LastCell \in Nat /\ \A c \in Cell : c \in Nat /\ c # 0 /\ c <= LastCell
<1> DEFINE n == Rows * Cols
<1>1. n \in Nat
  BY RecalcAssumption
<1>2. Cell = 1..n
  BY DEF Cell
<1> HIDE DEF n
<1> QED
  BY <1>1, <1>2 DEF LastCell, n

(* A plan goes no further than what it has before a cell.                   *)
LEMMA PlansLookBack ==
    ASSUME NEW blocks, NEW P, NEW Q, NEW n \in Nat, PlanUpTo(P, blocks, n),
           \A c \in Cell : c <= n => (c \in P <=> c \in Q),
           P \subseteq Cell, Q \subseteq Cell
    PROVE  PlanUpTo(Q, blocks, n)
<1> SUFFICES ASSUME NEW c \in Cell, c <= n
             PROVE  c \in Q <=> blocks[c] # None /\ Fits(c, blocks, {e \in Q : e < c})
  BY DEF PlanUpTo
<1>1. {e \in Q : e < c} = {e \in P : e < c}
  BY CellsAreNumbers
<1>2. c \in P <=> blocks[c] # None /\ Fits(c, blocks, {e \in P : e < c})
  BY DEF PlanUpTo
<1> QED
  BY <1>1, <1>2

(* There is a plan. *)
LEMMA PlansExist ==
    ASSUME NEW blocks
    PROVE  \E P \in SUBSET Cell : PlanUpTo(P, blocks, LastCell)
<1> DEFINE G == {n \in Nat : \E P \in SUBSET Cell : PlanUpTo(P, blocks, n)}
<1>1. 0 \in G
  <2>1. PlanUpTo({}, blocks, 0)
    BY CellsAreNumbers DEF PlanUpTo
  <2> QED
    BY <2>1
<1>2. \A n \in Nat : n \in G => n + 1 \in G
  <2> SUFFICES ASSUME NEW n \in Nat, NEW P \in SUBSET Cell, PlanUpTo(P, blocks, n)
               PROVE  \E Q \in SUBSET Cell : PlanUpTo(Q, blocks, n + 1)
    OBVIOUS
  <2> DEFINE m == n + 1
             old == {e \in P : e <= n}
             fits == blocks[m] # None /\ Fits(m, blocks, old)
             Q == old \union {c \in Cell : c = m /\ fits}
  <2>1. m \in Nat /\ n < m /\ \A c \in Nat : c <= m <=> c <= n \/ c = m
    OBVIOUS
  <2>2. Q \in SUBSET Cell
    OBVIOUS
  <2>3. \A c \in Cell : c <= n => (c \in P <=> c \in Q)
    BY <2>1, CellsAreNumbers
  <2>4. PlanUpTo(Q, blocks, n)
    <3> HIDE DEF Q
    <3> QED
      BY <2>2, <2>3, PlansLookBack
  <2>5. {e \in Q : e < m} = old
    BY <2>1, CellsAreNumbers
  <2>6. m \in Cell => (m \in Q <=> fits)
    BY <2>1, CellsAreNumbers
  <2> HIDE DEF Q
  <2>7. m \in Cell => (m \in Q <=> blocks[m] # None /\ Fits(m, blocks, {e \in Q : e < m}))
    BY <2>5, <2>6
  <2> HIDE DEF m, old
  <2>8. PlanUpTo(Q, blocks, m)
    BY <2>1, <2>4, <2>7, CellsAreNumbers DEF PlanUpTo
  <2> QED
    BY <2>2, <2>8 DEF m
<1> HIDE DEF G
<1>3. LastCell \in G
  BY <1>1, <1>2, NumbersInduct, CellsAreNumbers
<1> QED
  BY <1>3 DEF G

(* There is no other. *)
LEMMA PlansAgree ==
    ASSUME NEW blocks, NEW P \in SUBSET Cell, NEW Q \in SUBSET Cell,
           PlanUpTo(P, blocks, LastCell), PlanUpTo(Q, blocks, LastCell)
    PROVE  P = Q
<1> DEFINE G == {n \in Nat : \A c \in Cell : c <= n => (c \in P <=> c \in Q)}
<1>1. 0 \in G
  BY CellsAreNumbers
<1>2. \A n \in Nat : n \in G => n + 1 \in G
  <2> SUFFICES ASSUME NEW n \in Nat, \A c \in Cell : c <= n => (c \in P <=> c \in Q),
                      NEW c \in Cell, c <= n + 1
               PROVE  c \in P <=> c \in Q
    OBVIOUS
  <2>1. CASE c <= n
    BY <2>1
  <2>2. CASE c = n + 1
    <3>1. {e \in P : e < c} = {e \in Q : e < c}
      <4>1. \A e \in Cell : e < c => e <= n
        BY <2>2, CellsAreNumbers
      <4> QED
        BY <4>1
    <3>2. c <= LastCell
      BY CellsAreNumbers
    <3> QED
      BY <3>1, <3>2 DEF PlanUpTo
  <2> QED
    BY <2>1, <2>2, CellsAreNumbers
<1> HIDE DEF G
<1>3. LastCell \in G
  BY <1>1, <1>2, NumbersInduct, CellsAreNumbers
<1> QED
  BY <1>3, CellsAreNumbers DEF G

(* The cells that get a place are those whose block fits beside the placed  *)
(* ones before it, and no two of these blocks meet.                         *)
LEMMA PlacedIsThePlan ==
    ASSUME NEW blocks
    PROVE  /\ Placed(blocks) \subseteq Cell
           /\ \A c \in Cell :
                c \in Placed(blocks)
                    <=> blocks[c] # None /\ Fits(c, blocks, {e \in Placed(blocks) : e < c})
<1> DEFINE IsPlan(P) ==
        \A c \in Cell : c \in P <=> blocks[c] # None /\ Fits(c, blocks, {e \in P : e < c})
<1>1. \A P : IsPlan(P) <=> PlanUpTo(P, blocks, LastCell)
  BY CellsAreNumbers DEF PlanUpTo
<1>2. PICK Q \in SUBSET Cell : PlanUpTo(Q, blocks, LastCell)
  BY PlansExist
<1>3. {P \in SUBSET Cell : IsPlan(P)} = {Q}
  <2> HIDE DEF IsPlan
  <2> QED
    BY <1>1, <1>2, PlansAgree
<1>4. Placed(blocks) = UNION {P \in SUBSET Cell : IsPlan(P)}
  BY DEF Placed
<1>5. Placed(blocks) = Q
  <2> HIDE DEF IsPlan
  <2> QED
    BY <1>3, <1>4
<1>6. IsPlan(Q)
  BY <1>1, <1>2
<1> QED
  BY <1>2, <1>5, <1>6

(* Blocks that are placed lie over blank cells, and apart from each other.  *)
LEMMA PlacedBlocksAreApart ==
    ASSUME NEW blocks, NEW c \in Placed(blocks), NEW d \in Covered(c, blocks[c])
    PROVE  ~Filled(d) /\ \A e \in Placed(blocks) : d \in Covered(e, blocks[e]) => e = c
<1>1. c \in Cell /\ Fits(c, blocks, {e \in Placed(blocks) : e < c})
  BY PlacedIsThePlan
<1>2. ~Filled(d)
  BY <1>1 DEF Fits
<1>3. ASSUME NEW e \in Placed(blocks), d \in Covered(e, blocks[e]), e # c
      PROVE  FALSE
  <2>1. e \in Cell /\ Fits(e, blocks, {x \in Placed(blocks) : x < e})
    BY PlacedIsThePlan
  <2>2. CASE e < c
    BY <1>1, <1>3, <2>2 DEF Fits
  <2>3. CASE c < e
    BY <1>3, <2>1, <2>3 DEF Fits
  <2> QED
    BY <1>1, <1>3, <2>1, <2>2, <2>3, CellsAreNumbers
<1> QED
  BY <1>2, <1>3

----------------------------------------------------------------------------
(* A layout that has settled stands, and a full recalculation after it      *)
(* finds nothing to change.                                                 *)

NoBlocks == \A c \in Cell : arrays[c] = None

(* Laying the blocks out once more would change nothing. *)
LayoutStands ==
    /\ arrays = Blocks /\ overlay = LaidOut /\ cached = Anchored
    /\ blocked = {c \in Cell \ Placed(Blocks) : Blocks[c] # None}

(* Once the layout has settled, no pass follows it. *)
CalmIsSettled ==
    calm => /\ stage \in {"idle", "dynamic"}
            /\ NoneDynamic => todo = {} /\ (NoBlocks \/ LayoutStands)

(* A full recalculation after that finds every formula right, whatever it   *)
(* has yet to evaluate, and every block where it would lay it.              *)
FullChangesNothing ==
    before # None /\ before.calm /\ NoneDynamic =>
        /\ cached = before.cached /\ overlay = before.overlay
        /\ \A c \in Formulas : Sound(c)
        /\ LayoutStands \/ (NoBlocks /\ stage # "spill")

QInv == IInv /\ CalmIsSettled /\ FullChangesNothing

(* A formula is right as long as the sheet is what it was. *)
LEMMA SoundStays ==
    ASSUME UNCHANGED sheetVars
    PROVE  /\ Formulas' = Formulas
           /\ \A k \in Formulas : Sound(k)' = Sound(k)
<1>1. UNCHANGED <<formula, literal, cached, arrays, overlay, blocked>>
  BY DEF sheetVars
<1>2. Cyclic' = Cyclic /\ Formulas' = Formulas
  BY <1>1, CyclesStay
<1>3. Shown' = Shown
  BY <1>1 DEF Shown, IsFormula
<1>4. \A k : Block(k)' = Block(k) /\ IsDynamic(k)' = IsDynamic(k)
  BY <1>1, <1>3 DEF Block, IsDynamic
<1>5. \A k, b : Holds(k, b)' = Holds(k, b)
  BY <1>1 DEF Holds
<1> QED
  BY <1>1, <1>2, <1>4, <1>5 DEF Sound

(* The places of the blocks are those of the blocks of formulas, over       *)
(* blank cells.                                                             *)
LEMMA PlacesStay ==
    ASSUME UNCHANGED <<formula, literal>>, Blocks' = Blocks
    PROVE  /\ Placed(Blocks)' = Placed(Blocks)
           /\ LaidOut' = LaidOut
<1>1. \A c : Filled(c)' = Filled(c)
  BY DEF Filled, IsFormula
<1>2. \A c, P : Fits(c, Blocks, P)' = Fits(c, Blocks, P)
  BY <1>1 DEF Fits
<1>3. Placed(Blocks)' = Placed(Blocks)
  BY <1>2 DEF Placed
<1>4. LaidOut' = LaidOut
  BY <1>3 DEF LaidOut
<1> QED
  BY <1>3, <1>4

(* A layout stands as long as the sheet is what it was. *)
LEMMA LayoutStays ==
    ASSUME UNCHANGED sheetVars
    PROVE  /\ LayoutStands' = LayoutStands
           /\ NoBlocks' = NoBlocks
           /\ NoneDynamic' = NoneDynamic
<1>1. UNCHANGED <<formula, literal, cached, arrays, overlay, blocked>>
  BY DEF sheetVars
<1>2. Blocks' = Blocks
  BY <1>1 DEF Blocks, IsFormula
<1>3. Placed(Blocks)' = Placed(Blocks) /\ LaidOut' = LaidOut
  BY <1>1, <1>2, PlacesStay
<1>4. Anchored' = Anchored
  BY <1>1, <1>2, <1>3 DEF Anchored
<1> QED
  BY <1>1, <1>2, <1>3, <1>4 DEF LayoutStands, NoBlocks, NoneDynamic, IsDynamic

(* Blocks that have just been laid out stand. *)
LEMMA LaidOutStands == PlaceSpills => LayoutStands'
<1> SUFFICES ASSUME PlaceSpills PROVE LayoutStands'
  OBVIOUS
<1>1. /\ UNCHANGED <<formula, literal>>
      /\ arrays' = Blocks /\ overlay' = LaidOut /\ cached' = Anchored
      /\ blocked' = {c \in Cell \ Placed(Blocks) : Blocks[c] # None}
  BY DEF PlaceSpills
<1>2. Blocks' = Blocks
  BY <1>1 DEF Blocks, IsFormula
<1>3. Placed(Blocks)' = Placed(Blocks) /\ LaidOut' = LaidOut
  BY <1>1, <1>2, PlacesStay
<1>4. Anchored' = Anchored
  BY <1>1, <1>2, <1>3 DEF Anchored
<1> QED
  BY <1>1, <1>2, <1>3, <1>4 DEF LayoutStands

(* Where the layout stands, laying it out changes nothing. *)
LEMMA StandingLayoutStays ==
    ASSUME LayoutStands, PlaceSpills
    PROVE  /\ UNCHANGED sheetVars
           /\ stage' = "dynamic" /\ todo' = {}
<1>1. {c \in Cell : LaidOut[c] # overlay[c] \/ Anchored[c] # cached[c]} = {}
  BY DEF LayoutStands
<1>2. stage' = "dynamic" /\ UNCHANGED todo /\ todo = {}
  BY <1>1 DEF PlaceSpills
<1>3. UNCHANGED <<formula, literal, arrays, overlay, cached, blocked>>
  BY DEF PlaceSpills, LayoutStands
<1> QED
  BY <1>2, <1>3 DEF sheetVars

(* What is right is evaluated to what it was. *)
LEMMA SoundEvaluates ==
    ASSUME IInv, NoneDynamic, \A k \in Formulas : Sound(k), NEW c \in Cell, Evaluate(c)
    PROVE  UNCHANGED sheetVars
<1>1. /\ UNCHANGED <<formula, literal, overlay, blocked>>
      /\ c \in ReadyIn(todo)
      /\ cached' = [cached EXCEPT ![c] = Holds(c, Block(c))]
      /\ arrays' = [arrays EXCEPT ![c] = IF IsSingle(Block(c)) THEN None ELSE Block(c)]
  BY DEF Evaluate, NextReady
<1>2. c \in Formulas /\ c \notin Cyclic
  BY <1>1, ReadyIsNotCyclic
<1>3. /\ cached[c] = Holds(c, Block(c))
      /\ arrays[c] = IF IsSingle(Block(c)) THEN None ELSE Block(c)
  BY <1>2 DEF Sound, NoneDynamic
<1>4. cached = [d \in Cell |-> cached[d]] /\ arrays = [d \in Cell |-> arrays[d]]
  BY DEF IInv, TypeOK
<1>5. cached' = cached
  BY <1>1, <1>3, <1>4
<1>6. arrays' = arrays
  BY <1>1, <1>3, <1>4
<1> QED
  BY <1>1, <1>5, <1>6 DEF sheetVars

(* Cycles that are pinned stay pinned. *)
LEMMA SoundIsPinned ==
    ASSUME IInv, \A k \in Formulas : Sound(k), PinCycles
    PROVE  UNCHANGED sheetVars
<1>1. /\ UNCHANGED <<formula, literal, arrays, overlay, blocked>>
      /\ cached' = [d \in Cell |-> IF d \in CyclicWithin(todo) THEN Circ ELSE cached[d]]
  BY DEF PinCycles
<1>2. CyclicWithin(todo) \subseteq Cyclic /\ Cyclic \subseteq Formulas
  BY PinnedIsCyclic DEF Cyclic, CyclicWithin
<1>3. \A d \in CyclicWithin(todo) : cached[d] = Circ
  BY <1>2 DEF Sound
<1>4. cached = [d \in Cell |-> cached[d]]
  BY DEF IInv, TypeOK
<1>5. cached' = cached
  BY <1>1, <1>3, <1>4
<1> QED
  BY <1>1, <1>5 DEF sheetVars

(* As long as the sheet is what it was, what a full recalculation changes   *)
(* is nothing, unless blocks are laid out.                                  *)
LEMMA NothingChanges ==
    ASSUME FullChangesNothing, UNCHANGED sheetVars, before' = before,
           before # None /\ before.calm /\ NoneDynamic
                => stage' # "spill" \/ stage' = stage \/ ~NoBlocks
    PROVE  FullChangesNothing'
<1> SUFFICES ASSUME before # None, before.calm, NoneDynamic
             PROVE  /\ cached' = before.cached /\ overlay' = before.overlay
                    /\ \A c \in Formulas' : Sound(c)'
                    /\ LayoutStands' \/ (NoBlocks' /\ stage' # "spill")
  BY LayoutStays DEF FullChangesNothing
<1>1. /\ cached = before.cached /\ overlay = before.overlay
      /\ \A c \in Formulas : Sound(c)
      /\ LayoutStands \/ (NoBlocks /\ stage # "spill")
  BY DEF FullChangesNothing
<1>2. cached' = before.cached /\ overlay' = before.overlay
  BY <1>1 DEF sheetVars
<1>3. \A c \in Formulas' : Sound(c)'
  BY <1>1, SoundStays
<1>4. LayoutStands' \/ (NoBlocks' /\ stage' # "spill")
  BY <1>1, LayoutStays
<1> QED
  BY <1>2, <1>3, <1>4

(* A full recalculation begins with what it must not change. *)
LEMMA SettledRecalcAll == QInv /\ RecalcAll => QInv'
<1> SUFFICES ASSUME QInv, RecalcAll PROVE QInv'
  OBVIOUS
<1>1. IInv'
  BY InvRecalcAll DEF QInv
<1>2. /\ UNCHANGED sheetVars /\ stage = "idle" /\ stage' = "first" /\ calm' = FALSE
      /\ before' = [cached |-> cached, overlay |-> overlay, calm |-> calm]
  BY DEF RecalcAll
<1>3. \A c \in Formulas : Sound(c)
  BY <1>2 DEF QInv, IInv, NoWorkIdle, RestIsSound
<1>4. \A c \in Formulas' : Sound(c)'
  BY <1>2, <1>3, SoundStays
<1>5. cached' = before'.cached /\ overlay' = before'.overlay
  BY <1>2 DEF sheetVars
<1>6. before'.calm /\ NoneDynamic' => LayoutStands' \/ (NoBlocks' /\ stage' # "spill")
  BY <1>2, LayoutStays DEF QInv, CalmIsSettled
<1>7. FullChangesNothing'
  BY <1>4, <1>5, <1>6 DEF FullChangesNothing
<1> QED
  BY <1>1, <1>2, <1>7 DEF QInv, CalmIsSettled

(* One formula is evaluated, or the cycles get their error. *)
LEMMA SettledPass ==
    ASSUME QInv, (\E c \in Cell : Evaluate(c)) \/ PinCycles
    PROVE  QInv'
<1>1. IInv'
  BY InvEvaluate, InvPinCycles DEF QInv
<1>2. todo # {} /\ UNCHANGED <<formula, calm, before, stage>>
  BY DEF Evaluate, NextReady, ReadyIn, PinCycles, historyVars
<1>3. NoneDynamic' = NoneDynamic
  BY <1>2 DEF NoneDynamic, IsDynamic
<1>4. CalmIsSettled'
  BY <1>2, <1>3 DEF QInv, CalmIsSettled
<1>5. FullChangesNothing'
  <2>1. CASE before # None /\ before.calm /\ NoneDynamic
    <3>1. \A c \in Formulas : Sound(c)
      BY <2>1 DEF QInv, FullChangesNothing
    <3>2. UNCHANGED sheetVars
      BY <2>1, <3>1, SoundEvaluates, SoundIsPinned DEF QInv
    <3> QED
      BY <1>2, <3>2, NothingChanges DEF QInv
  <2>2. CASE ~(before # None /\ before.calm /\ NoneDynamic)
    BY <1>2, <1>3, <2>2 DEF FullChangesNothing
  <2> QED
    BY <2>1, <2>2
<1> QED
  BY <1>1, <1>4, <1>5 DEF QInv

(* A pass is over, and no block is laid out. *)
LEMMA SettledPassOver ==
    ASSUME QInv, FirstPassDone \/ SpillsDone \/ FollowDynamic
    PROVE  QInv'
<1>1. IInv'
  BY InvPassOver DEF QInv
<1>2. UNCHANGED sheetVars /\ before' = before /\ todo = {}
  BY DEF FirstPassDone, SpillsDone, FollowDynamic, PassDone, historyVars
<1>3. LayoutStands' = LayoutStands /\ NoBlocks' = NoBlocks /\ NoneDynamic' = NoneDynamic
  BY <1>2, LayoutStays
<1>4. CASE FirstPassDone
  <2>1. /\ todo' = todo /\ calm' = NoBlocks
        /\ stage' = IF NoBlocks THEN "dynamic" ELSE "spill"
    BY <1>4 DEF FirstPassDone, NoBlocks
  <2>2. CalmIsSettled'
    BY <1>2, <1>3, <2>1 DEF CalmIsSettled
  <2>3. FullChangesNothing'
    BY <1>2, <2>1, NothingChanges DEF QInv
  <2> QED
    BY <1>1, <2>2, <2>3 DEF QInv
<1>5. CASE SpillsDone
  <2>1. stage = "spill" /\ stage' = "dynamic" /\ calm' = calm
    BY <1>5 DEF SpillsDone, historyVars
  <2>2. CalmIsSettled'
    BY <2>1 DEF QInv, CalmIsSettled
  <2>3. FullChangesNothing'
    BY <1>2, <2>1, NothingChanges DEF QInv
  <2> QED
    BY <1>1, <2>2, <2>3 DEF QInv
<1>6. CASE FollowDynamic
  <2>1. /\ stage = "dynamic" /\ stage' \in {"dynamic", "idle"} /\ calm' = calm
        /\ {c \in Cell : IsDynamic(c)} = {} => todo' = todo
    BY <1>6 DEF FollowDynamic, historyVars
  <2>2. CalmIsSettled'
    BY <1>2, <1>3, <2>1 DEF QInv, CalmIsSettled, NoneDynamic
  <2>3. FullChangesNothing'
    BY <1>2, <2>1, NothingChanges DEF QInv
  <2> QED
    BY <1>1, <2>2, <2>3 DEF QInv
<1> QED
  BY <1>4, <1>5, <1>6

(* The blocks are laid out. *)
LEMMA SettledPlaceSpills == QInv /\ PlaceSpills => QInv'
<1> SUFFICES ASSUME QInv, PlaceSpills PROVE QInv'
  OBVIOUS
<1> DEFINE moved == {c \in Cell : LaidOut[c] # overlay[c] \/ Anchored[c] # cached[c]}
<1>1. IInv'
  BY InvPlaceSpills DEF QInv
<1>2. /\ stage = "spill" /\ todo = {} /\ calm' = (moved = {})
      /\ moved = {} => stage' = "dynamic" /\ todo' = todo
      /\ UNCHANGED formula /\ before' = before
  BY DEF PlaceSpills
<1> HIDE DEF moved
<1>3. LayoutStands'
  BY LaidOutStands
<1>4. CalmIsSettled'
  BY <1>2, <1>3 DEF CalmIsSettled
<1>5. NoneDynamic' = NoneDynamic
  BY <1>2 DEF NoneDynamic, IsDynamic
<1>6. FullChangesNothing'
  <2>1. CASE before # None /\ before.calm /\ NoneDynamic
    <3>1. LayoutStands
      BY <1>2, <2>1 DEF QInv, FullChangesNothing
    <3>2. UNCHANGED sheetVars /\ stage' = "dynamic"
      BY <3>1, StandingLayoutStays
    <3> QED
      BY <1>2, <3>2, NothingChanges DEF QInv
  <2>2. CASE ~(before # None /\ before.calm /\ NoneDynamic)
    BY <1>2, <1>5, <2>2 DEF FullChangesNothing
  <2> QED
    BY <2>1, <2>2
<1> QED
  BY <1>1, <1>4, <1>6 DEF QInv

(* An edit forgets both. *)
LEMMA SettledEdit ==
    ASSUME QInv, NEW c \in Cell, Edit(c)
    PROVE  QInv'
<1>1. IInv'
  BY InvEdit DEF QInv
<1>2. calm' = FALSE /\ before' = None
  BY DEF Edit, EditFormula, EditLiteral, CellClear, Edited
<1> QED
  BY <1>1, <1>2 DEF QInv, CalmIsSettled, FullChangesNothing

(* A new workbook is calm. *)
LEMMA SettledInit == Init => QInv
<1> SUFFICES ASSUME Init PROVE QInv
  OBVIOUS
<1>1. IInv
  BY InvInit
<1>2. todo = {} /\ NoBlocks /\ stage = "idle" /\ before = None
  BY DEF Init, NoBlocks
<1> QED
  BY <1>1, <1>2 DEF QInv, CalmIsSettled, FullChangesNothing

(* Every step. *)
LEMMA SettledStep == QInv /\ [Next]_vars => QInv'
<1> SUFFICES ASSUME QInv, [Next]_vars PROVE QInv'
  OBVIOUS
<1>1. CASE \E c \in Cell : Edit(c)
  BY <1>1, SettledEdit
<1>2. CASE RecalcAll
  BY <1>2, SettledRecalcAll
<1>3. CASE Step
  BY <1>3, SettledPass, SettledPassOver, SettledPlaceSpills DEF Step
<1>4. CASE UNCHANGED vars
  <2>1. IInv'
    BY <1>4, InvStep DEF QInv
  <2>2. UNCHANGED sheetVars /\ stage' = stage /\ calm' = calm /\ before' = before /\ todo' = todo
    BY <1>4 DEF vars, passVars, historyVars
  <2>3. CalmIsSettled'
    BY <2>2, LayoutStays DEF QInv, CalmIsSettled
  <2>4. FullChangesNothing'
    BY <2>2, NothingChanges DEF QInv
  <2> QED
    BY <2>1, <2>3, <2>4 DEF QInv
<1> QED
  BY <1>1, <1>2, <1>3, <1>4 DEF Next

(* The settled invariant holds in every state. *)
LEMMA SettledAlways == Spec => []QInv
<1> QED
  BY SettledInit, SettledStep, PTL DEF Spec

(* Where blocks stand, each is whole on the grid or not there at all.       *)
LEMMA StandingBlocksAreWhole == LayoutStands => BlocksAreWhole
<1> DEFINE made == {c \in Cell : arrays[c] # None}
<1> SUFFICES ASSUME LayoutStands
             PROVE  /\ \A c \in made :
                        IF c \in blocked THEN cached[c] = Spill
                        ELSE \A d \in Covered(c, arrays[c]) :
                                /\ ~Filled(d) /\ overlay[d] = ValueAt(c, arrays[c], d)
                                /\ \A e \in made \ blocked :
                                        d \in Covered(e, arrays[e]) => e = c
                    /\ \A d \in Cell : overlay[d] # None =>
                            \E c \in made \ blocked : d \in Covered(c, arrays[c])
  BY DEF BlocksAreWhole
<1>1. arrays = Blocks /\ overlay = LaidOut /\ cached = Anchored
  BY DEF LayoutStands
<1>2. made \ blocked = Placed(Blocks)
  BY PlacedIsThePlan DEF LayoutStands
<1>3. \A c \in made \intersect blocked : cached[c] = Spill
  BY DEF LayoutStands, Anchored
<1> HIDE DEF made
<1>4. ASSUME NEW c \in Placed(Blocks), NEW d \in Covered(c, Blocks[c])
      PROVE  /\ ~Filled(d) /\ overlay[d] = ValueAt(c, Blocks[c], d)
             /\ \A e \in Placed(Blocks) : d \in Covered(e, Blocks[e]) => e = c
  <2> DEFINE over == {e \in Placed(Blocks) : d \in Covered(e, Blocks[e])}
  <2>1. ~Filled(d) /\ \A e \in Placed(Blocks) : d \in Covered(e, Blocks[e]) => e = c
    BY PlacedBlocksAreApart
  <2>2. over = {c}
    BY <2>1
  <2>3. d \in Cell
    BY DEF Covered
  <2>4. LaidOut[d] = IF over = {} THEN None
                     ELSE LET e == CHOOSE e \in over : TRUE IN ValueAt(e, Blocks[e], d)
    BY <2>3 DEF LaidOut
  <2> HIDE DEF over
  <2>5. (CHOOSE e \in over : TRUE) = c
    BY <2>2
  <2> QED
    BY <1>1, <2>1, <2>2, <2>4, <2>5
<1>5. ASSUME NEW d \in Cell, overlay[d] # None
      PROVE  \E c \in Placed(Blocks) : d \in Covered(c, Blocks[c])
  BY <1>1, <1>5 DEF LaidOut
<1> QED
  BY <1>1, <1>2, <1>3, <1>4, <1>5

(* Once the layout has settled, every block is on the grid from its first   *)
(* value to its last, over blank cells that no other block has, or its      *)
(* formula says that it found no room; and nothing is left on the grid of a *)
(* block that is gone: for every grid and every shape of blocks.            *)
THEOREM BlocksStayWhole == Spec => []BlocksAreWhole
<1>1. QInv => BlocksAreWhole
  <2> SUFFICES ASSUME QInv, stage = "idle", calm, NoneDynamic, ~NoBlocks PROVE BlocksAreWhole
    BY DEF BlocksAreWhole, NoBlocks
  <2>1. LayoutStands
    BY DEF QInv, CalmIsSettled
  <2> QED
    BY <2>1, StandingBlocksAreWhole
<1> QED
  BY <1>1, SettledAlways, PTL

(* A full recalculation, the other way the engine has of bringing a sheet   *)
(* up to date, agrees with the recalculations that only looked downstream   *)
(* of each edit: it changes no value and moves no block, wherever the       *)
(* layout had settled and no reference is computed.                         *)
THEOREM FullAgrees == Spec => []FullAgreesWhenSettled
<1>1. QInv => FullAgreesWhenSettled
  BY DEF QInv, FullChangesNothing, FullAgreesWhenSettled
<1> QED
  BY <1>1, SettledAlways, PTL
=============================================================================
