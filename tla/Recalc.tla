-------------------------------- MODULE Recalc --------------------------------
(***************************************************************************)
(* Recalculation in the engine (engine.rs): an edit dirties the formulas    *)
(* downstream of it, one pass evaluates them in the order of the dependency *)
(* graph and gives those on a cycle #CIRC!, blocks are laid out over the    *)
(* blank cells around their formulas, and passes follow until layout and    *)
(* computed references have settled, or a bound is reached.                 *)
(*                                                                         *)
(* The grid is that of one sheet, its cells numbered in the order of their  *)
(* addresses, row by row.  What a formula computes is a parameter.          *)
(* Formulas that read the clock or draw a random number, and conditional    *)
(* formats, are left out.                                                   *)
(***************************************************************************)
EXTENDS Integers, FiniteSets

CONSTANTS
    Rows, Cols,             \* the size of the grid (MAX_ROWS, MAX_COLS)
    Formula,                \* what may be typed as a formula,
    Literal,                \* and as a literal
    Value,                  \* what a cell can hold or show
    Dynamic,                \* formulas with OFFSET, INDIRECT or a name in them
    Reads(_),               \* the cells a formula has in the dependency graph
    Sees(_),                \* the cells its evaluation looks at
    Result(_, _),           \* the block it makes of them: one value, or more
    Empty, Circ, Spill,     \* nothing, #CIRC! and #SPILL!
    None,                   \* no formula, no literal, no value, no block
    MaxSpillPasses,         \* layouts in one recalculation (4 in the code)
    MaxDynamicPasses,       \* passes for computed references (3 in the code)
    MaxEdits                \* bound: cells edited

Cell == 1..(Rows * Cols)

(* A rectangle of values.                                                   *)
IsArray(b) ==
    /\ b = [rows |-> b.rows, cols |-> b.cols, values |-> b.values]
    /\ b.rows \in Nat \ {0} /\ b.cols \in Nat \ {0}
    /\ b.values \in [(0..(b.rows - 1)) \X (0..(b.cols - 1)) -> Value]

IsSingle(b) == b.rows = 1 /\ b.cols = 1

(* Only a dynamic formula looks at cells the graph does not know of.        *)
ASSUME RecalcAssumption ==
    /\ Rows \in Nat /\ Cols \in Nat \ {0}
    /\ MaxSpillPasses \in Nat /\ MaxDynamicPasses \in Nat /\ MaxEdits \in Nat
    /\ {Empty, Circ, Spill} \subseteq Value /\ Literal \subseteq Value
    /\ Dynamic \subseteq Formula
    /\ None \notin Formula /\ None \notin Value
    /\ \A f \in Formula :
        /\ Reads(f) \subseteq Cell /\ Sees(f) \subseteq Cell
        /\ f \notin Dynamic => Sees(f) = Reads(f)
        /\ \A seen \in [Sees(f) -> Value] : LET b == Result(f, seen) IN IsArray(b) /\ b # None

VARIABLES
    (* The workbook. *)
    formula,    \* the formula of each cell,
    literal,    \* or its literal
    cached,     \* the value a formula has
    arrays,     \* the block a formula made
    overlay,    \* the values that blocks lay over blank cells
    blocked,    \* formulas whose block found no room
    (* A recalculation. *)
    stage,      \* what it is at
    rounds,     \* layouts, or passes for computed references, so far
    todo,       \* dirty formulas this pass has yet to evaluate
    freed,      \* when each of them could be: the latest goes first
    again,      \* formulas this pass has changed
    changed,    \* cells the earlier passes have changed
    (* For the properties only. *)
    calm,       \* whether the last layout moved nothing
    before,     \* what a full recalculation started from
    edits       \* bound

sheetVars == <<formula, literal, cached, arrays, overlay, blocked>>
passVars == <<stage, rounds, todo, freed, again, changed>>
historyVars == <<calm, before, edits>>
vars == <<sheetVars, passVars, historyVars>>

----------------------------------------------------------------------------
IsFormula(c) == formula[c] # None

IsDynamic(c) == formula[c] \in Dynamic

Filled(c) == IsFormula(c) \/ literal[c] # None

(* What a cell shows.                                                       *)
Shown ==
    [c \in Cell |->
        IF IsFormula(c) THEN cached[c]
        ELSE IF literal[c] # None THEN literal[c]
        ELSE IF overlay[c] # None THEN overlay[c]
        ELSE Empty]

Block(c) == Result(formula[c], [d \in Sees(formula[c]) |-> Shown[d]])

(* What formula c holds when it makes block b: the cell of a block that     *)
(* found no room goes on saying so.                                         *)
Holds(c, b) == IF ~IsSingle(b) /\ c \in blocked THEN Spill ELSE b.values[<<0, 0>>]

Dependents(c) == {d \in Cell : IsFormula(d) /\ c \in Reads(formula[d])}

Closed(S, within) == \A c \in S : Dependents(c) \intersect within \subseteq S

(* Mutant: only the cells that read a seed directly. *)
DownstreamOnce(seeds) == seeds \union UNION {Dependents(c) : c \in seeds}

(* The seeds and all that depends on them: the least closed set with them.  *)
Downstream(seeds) ==
    {c \in Cell : \A S \in SUBSET Cell : seeds \subseteq S /\ Closed(S, Cell) => c \in S}

(* The cells of S that depend on themselves through S.                      *)
CyclicWithin(S) ==
    {c \in S : \A T \in SUBSET S :
        Dependents(c) \intersect S \subseteq T /\ Closed(T, S) => c \in T}

(* Every pass takes the dynamic formulas in, whatever it was started for.   *)
Dirty(seeds) ==
    {c \in Downstream(seeds \union {d \in Cell : IsDynamic(d)}) : IsFormula(c)}

(* Blocks are rectangles of more than one value; what is dirty are formulas. *)
TypeOK ==
    /\ formula \in [Cell -> Formula \union {None}]
    /\ literal \in [Cell -> Literal \union {None}]
    /\ \A c \in Cell : ~IsFormula(c) \/ literal[c] = None
    /\ cached \in [Cell -> Value]
    /\ arrays = [c \in Cell |-> arrays[c]]
    /\ \A c \in Cell : arrays[c] = None \/ (IsArray(arrays[c]) /\ ~IsSingle(arrays[c]))
    /\ overlay \in [Cell -> Value \union {None}]
    /\ blocked \in SUBSET Cell
    /\ stage \in {"idle", "first", "spill", "dynamic"}
    /\ rounds \in Nat
    /\ todo \in SUBSET {c \in Cell : IsFormula(c)}
    /\ freed \in [Cell -> Int]
    /\ again \in SUBSET Cell /\ changed \in SUBSET Cell
    /\ calm \in BOOLEAN
    /\ edits \in 0..MaxEdits

(* A new workbook.                                                          *)
Init ==
    /\ formula = [c \in Cell |-> None] /\ literal = [c \in Cell |-> None]
    /\ cached = [c \in Cell |-> Empty] /\ arrays = [c \in Cell |-> None]
    /\ overlay = [c \in Cell |-> None] /\ blocked = {}
    /\ stage = "idle" /\ rounds = 0 /\ todo = {} /\ freed = [c \in Cell |-> 0]
    /\ again = {} /\ changed = {}
    /\ calm = TRUE /\ before = None /\ edits = 0

----------------------------------------------------------------------------
(* The edits.                                                               *)

BeginPass(dirty) ==
    /\ todo' = dirty
    /\ freed' = [c \in Cell |-> 0]
    /\ again' = {}

Edited(c) ==
    /\ stage = "idle" /\ edits < MaxEdits
    /\ edits' = edits + 1
    /\ cached' = [cached EXCEPT ![c] = Empty]
    /\ stage' = "first" /\ rounds' = 0 /\ changed' = {}
    /\ BeginPass(Dirty({c})')
    /\ calm' = FALSE /\ before' = None
    /\ UNCHANGED <<arrays, overlay, blocked>>

EditFormula(c, f) ==
    /\ formula' = [formula EXCEPT ![c] = f]
    /\ literal' = [literal EXCEPT ![c] = None]
    /\ Edited(c)

EditLiteral(c, v) ==
    /\ formula' = [formula EXCEPT ![c] = None]
    /\ literal' = [literal EXCEPT ![c] = v]
    /\ Edited(c)

CellClear(c) ==
    /\ formula' = [formula EXCEPT ![c] = None]
    /\ literal' = [literal EXCEPT ![c] = None]
    /\ Edited(c)

(* What every operation on more than one cell ends with, and recalc_all is: *)
(* the graph is built anew, and every formula is dirty.                     *)
RecalcAll ==
    /\ stage = "idle"
    /\ stage' = "first" /\ rounds' = 0 /\ changed' = {}
    /\ BeginPass({c \in Cell : IsFormula(c)})
    /\ calm' = FALSE
    /\ before' = [cached |-> cached, overlay |-> overlay, calm |-> calm]
    /\ UNCHANGED <<sheetVars, edits>>

----------------------------------------------------------------------------
(* One pass.                                                                *)

ReadyIn(S) == {c \in S : Reads(formula[c]) \intersect S = {}}

(* Mutant: whichever dirty formula has the least address. *)
NextInAddressOrder(c) == c \in todo /\ \A d \in todo : c <= d

(* The next formula: none that is dirty feeds it, and it is the first of    *)
(* those that became ready last.                                            *)
NextReady(c) ==
    LET ready == ReadyIn(todo) IN
    /\ c \in ready
    /\ \A d \in ready : freed[d] < freed[c] \/ (freed[d] = freed[c] /\ c <= d)

(* eval_and_store: a block is put aside for the layout.                     *)
Evaluate(c) ==
    LET block == Block(c)
        rest == todo \ {c}
    IN
    /\ stage # "idle" /\ NextReady(c)
    /\ cached' = [cached EXCEPT ![c] = Holds(c, block)]
    /\ arrays' = [arrays EXCEPT ![c] = IF IsSingle(block) THEN None ELSE block]
    /\ todo' = rest
    /\ freed' = [d \in Cell |->
            IF d \in ReadyIn(rest) \ ReadyIn(todo) THEN Rows * Cols - Cardinality(rest)
            ELSE freed[d]]
    /\ again' = IF cached'[c] = cached[c] THEN again ELSE again \union {c}
    /\ UNCHANGED <<formula, literal, overlay, blocked, stage, rounds, changed, historyVars>>

(* Nothing is ready: the cycles get their error, their blocks stay, and     *)
(* what is left can be put in order.                                        *)
PinCycles ==
    LET cyclic == CyclicWithin(todo) IN
    /\ todo # {} /\ ReadyIn(todo) = {}
    /\ cached' = [c \in Cell |-> IF c \in cyclic THEN Circ ELSE cached[c]]
    /\ todo' = todo \ cyclic
    /\ again' = again \union {c \in cyclic : cached[c] # Circ}
    /\ UNCHANGED <<formula, literal, arrays, overlay, blocked, stage, rounds, freed, changed,
                   historyVars>>

----------------------------------------------------------------------------
(* After a pass.                                                            *)

PassDone == todo = {} /\ again' = {}

(* Blocks are laid out if there is one now.                                 *)
FirstPassDone ==
    /\ stage = "first" /\ PassDone
    /\ LET blocks == \E c \in Cell : arrays[c] # None IN
        /\ stage' = IF blocks THEN "spill" ELSE "dynamic"
        /\ calm' = ~blocks
    /\ rounds' = 0
    /\ changed' = changed \union again
    /\ UNCHANGED <<sheetVars, todo, freed, before, edits>>

Row(c) == (c - 1) \div Cols
Col(c) == (c - 1) % Cols

(* The cells of a block anchored at c, but for c itself.                    *)
Covered(c, b) ==
    {d \in Cell \ {c} :
        /\ Row(c) <= Row(d) /\ Row(d) < Row(c) + b.rows
        /\ Col(c) <= Col(d) /\ Col(d) < Col(c) + b.cols}

ValueAt(c, b, d) == b.values[<<Row(d) - Row(c), Col(d) - Col(c)>>]

(* Mutant: a block already laid out is not in the way. *)
FitsOver(c, blocks, placed) ==
    /\ Row(c) + blocks[c].rows <= Rows /\ Col(c) + blocks[c].cols <= Cols
    /\ \A d \in Covered(c, blocks[c]) : ~Filled(d)

(* Whether the block of c fits beside the placed ones: it does not reach    *)
(* beyond the grid, and nothing is where it goes.                           *)
Fits(c, blocks, placed) ==
    /\ Row(c) + blocks[c].rows <= Rows /\ Col(c) + blocks[c].cols <= Cols
    /\ \A d \in Covered(c, blocks[c]) :
        ~Filled(d) /\ \A e \in placed : d \notin Covered(e, blocks[e])

(* The cells whose block gets its place: in the order of their addresses,   *)
(* each that fits beside those before it.                                   *)
Placed(blocks) ==
    UNION {P \in SUBSET Cell : \A c \in Cell :
        c \in P <=> blocks[c] # None /\ Fits(c, blocks, {e \in P : e < c})}

MayPlace == rounds < MaxSpillPasses

NextRound == rounds + 1

(* The blocks that are laid out: a cell that is no formula loses its own.   *)
Blocks == [c \in Cell |-> IF IsFormula(c) THEN arrays[c] ELSE None]

LaidOut ==
    LET over(d) == {c \in Placed(Blocks) : d \in Covered(c, Blocks[c])} IN
    [d \in Cell |->
        IF over(d) = {} THEN None
        ELSE LET c == CHOOSE c \in over(d) : TRUE IN ValueAt(c, Blocks[c], d)]

(* The first value of its block, or #SPILL!, for each formula that has one. *)
Anchored ==
    [c \in Cell |->
        IF Blocks[c] = None THEN cached[c]
        ELSE IF c \in Placed(Blocks) THEN Blocks[c].values[<<0, 0>>] ELSE Spill]

(* place_spills.  Whatever it moves is followed by another pass; the first  *)
(* layout that moves nothing is the last.                                   *)
PlaceSpills ==
    LET moved == {c \in Cell : LaidOut[c] # overlay[c] \/ Anchored[c] # cached[c]} IN
    /\ stage = "spill" /\ todo = {} /\ MayPlace
    /\ arrays' = Blocks /\ overlay' = LaidOut /\ cached' = Anchored
    /\ blocked' = {c \in Cell \ Placed(Blocks) : Blocks[c] # None}
    /\ changed' = changed \union again \union moved
    /\ calm' = (moved = {})
    /\ IF moved = {}
       THEN stage' = "dynamic" /\ rounds' = 0 /\ again' = {} /\ UNCHANGED <<todo, freed>>
       ELSE rounds' = NextRound /\ BeginPass(Dirty(moved)) /\ UNCHANGED stage
    /\ UNCHANGED <<formula, literal, before, edits>>

SpillsDone ==
    /\ stage = "spill" /\ PassDone /\ ~MayPlace
    /\ stage' = "dynamic" /\ rounds' = 0
    /\ changed' = changed \union again
    /\ UNCHANGED <<sheetVars, todo, freed, historyVars>>

(* Computed references are followed for as long as a pass changes what the  *)
(* graph knows of: what moved, dynamic formulas apart, starts another pass. *)
FollowDynamic ==
    LET dynamic == {c \in Cell : IsDynamic(c)}
        settled == rounds > 0 /\ again \subseteq dynamic \intersect changed
        moved == (changed \union again) \ dynamic
    IN
    /\ stage = "dynamic" /\ todo = {}
    /\ changed' = changed \union again
    /\ IF dynamic = {} \/ settled \/ rounds = MaxDynamicPasses \/ moved = {}
       THEN stage' = "idle" /\ again' = {} /\ UNCHANGED <<rounds, todo, freed>>
       ELSE rounds' = NextRound /\ BeginPass(Dirty(moved)) /\ UNCHANGED stage
    /\ UNCHANGED <<sheetVars, historyVars>>

Edit(c) ==
    (\E f \in Formula : EditFormula(c, f)) \/ (\E v \in Literal : EditLiteral(c, v)) \/ CellClear(c)

Step ==
    \/ \E c \in Cell : Evaluate(c)
    \/ PinCycles \/ FirstPassDone \/ PlaceSpills \/ SpillsDone \/ FollowDynamic

Next == (\E c \in Cell : Edit(c)) \/ RecalcAll \/ Step

Spec == Init /\ [][Next]_vars

----------------------------------------------------------------------------
(* Properties.                                                              *)

NoneDynamic == \A c \in Cell : ~IsDynamic(c)

(* When a recalculation is over, every formula on a cycle is #CIRC!, no     *)
(* other is for that reason, and each of those holds what it makes of the   *)
(* cells as they are shown, however few of them the passes have evaluated.  *)
FormulasHold ==
    stage = "idle" =>
        \A c \in Cell : IsFormula(c) =>
            IF c \in CyclicWithin({d \in Cell : IsFormula(d)}) THEN cached[c] = Circ
            ELSE IsDynamic(c) \/ cached[c] = Holds(c, Block(c))

(* When the layout has settled, a block is on the grid from its first value *)
(* to its last, over blank cells of its own, or it is not there at all and  *)
(* its formula says so; and nothing is laid over any other cell.            *)
BlocksAreWhole ==
    LET made == {c \in Cell : arrays[c] # None} IN
    stage = "idle" /\ calm /\ NoneDynamic /\ made # {} =>
        /\ \A c \in made :
            IF c \in blocked THEN cached[c] = Spill
            ELSE \A d \in Covered(c, arrays[c]) :
                    /\ ~Filled(d) /\ overlay[d] = ValueAt(c, arrays[c], d)
                    /\ \A e \in made \ blocked : d \in Covered(e, arrays[e]) => e = c
        /\ \A d \in Cell : overlay[d] # None =>
                \E c \in made \ blocked : d \in Covered(c, arrays[c])

(* Recalculating everything changes nothing after recalculations that only  *)
(* looked downstream of an edit, where the layout had settled and no        *)
(* reference is computed.                                                   *)
FullAgreesWhenSettled ==
    stage = "idle" /\ before # None /\ before.calm /\ NoneDynamic =>
        cached = before.cached /\ overlay = before.overlay

=============================================================================
