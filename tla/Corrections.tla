----------------------------- MODULE Corrections -----------------------------
(***************************************************************************)
(* Recorded runs and their replay (env/trajectory.rs, env/lib.rs), and what *)
(* is learnt from a run a person put right (env/correction.rs).             *)
(*                                                                          *)
(* A snapshot is named by what is in it, so its name is the workbook here.  *)
(***************************************************************************)
EXTENDS Augment

CONSTANT DivergenceBudget   \* differing cells a correction names (128 in the code)

(* What a cell shows, a blank as the empty text, and its formula. *)
Shown(content) ==
    <<IF IsEmpty(content.value) THEN Text(<<>>) ELSE content.value, content.formula>>

----------------------------------------------------------------------------
(* The environment takes a step: a refused action is one too, and leaves    *)
(* the workbook as it was.                                                  *)
StepTo(env, action, result) ==
    LET now == OrElse(result, env.wb) IN
    [env EXCEPT !.wb = now,
                !.active = IF @ \notin Names(now) THEN DefaultSheet(now, <<>>) ELSE @,
                !.steps = Append(@, [action |-> action, applied |-> result # Refused, state |-> now])]

Step(env, action) == StepTo(env, action, Applied(env.wb, action))

Reset(wb) == [wb |-> wb, active |-> DefaultSheet(wb, <<>>), steps |-> <<>>]

(* Cells that differ, with what they showed and show. *)
DiffOf(before, after) ==
    LET changed == ChangedCells(before, after) IN
    [cells |-> {[at |-> k, before |-> Shown(ContentAt(before, k[1], k[2])),
                 after |-> Shown(ContentAt(after, k[1], k[2]))] : k \in changed},
     total |-> Cardinality(changed),
     sheetsAdded |-> Names(after) \ Names(before), sheetsRemoved |-> Names(before) \ Names(after)]

(* A run from its first state to its last. *)
Recording(wb, end, checks) ==
    [initial |-> wb, final |-> end.wb, steps |-> end.steps, diff |-> DiffOf(wb, end.wb),
     grade |-> Grade(checks, end.wb, wb)]

Recorded(wb, actions, checks) == Recording(wb, FoldLeft(Step, Reset(wb), actions), checks)

ActionsOf(steps) == [i \in DOMAIN steps |-> steps[i].action]

(* The first step that replays to another state or is refused or applied    *)
(* where it was not; 0 when there is none.                                  *)
FirstDiffering(steps, recorded) ==
    LET differing == {i \in DOMAIN steps : steps[i] # recorded[i]} IN
    IF differing = {} THEN 0 ELSE Min(differing)

ReplayDiverges(trajectory) ==
    FirstDiffering(FoldLeft(Step, Reset(trajectory.initial), ActionsOf(trajectory.steps)).steps, trajectory.steps)

----------------------------------------------------------------------------
(* Corrections.                                                             *)

Named(diff, at) == {d \in diff.cells : d.at = at}
AtMost(n, cells) == CHOOSE some \in SUBSET cells : Cardinality(some) = Min({n, Cardinality(cells)})

(* Mutant: what the agent left behind is not among the differences. *)
RepairedOnly(attempt, repair) ==
    LET Left(d) == IF Named(attempt.diff, d.at) = {} THEN d.before
                   ELSE (CHOOSE e \in Named(attempt.diff, d.at) : TRUE).after
    IN AtMost(DivergenceBudget,
              {[d EXCEPT !.before = Left(d)] : d \in {e \in repair.diff.cells : Left(e) # e.after}})

(* Where the two results differ, from the two differences alone: the cells  *)
(* the repair changed, from what the agent left there, and those only the   *)
(* agent changed, back to what they were.  The repair's come first.         *)
FinalDifference(attempt, repair) ==
    LET Left(d) == IF Named(attempt.diff, d.at) = {} THEN d.before
                   ELSE (CHOOSE e \in Named(attempt.diff, d.at) : TRUE).after
        repaired == AtMost(DivergenceBudget,
                        {[d EXCEPT !.before = Left(d)] : d \in {e \in repair.diff.cells : Left(e) # e.after}})
        leftover == {[at |-> d.at, before |-> d.after, after |-> d.before] :
                        d \in {e \in attempt.diff.cells : Named(repair.diff, e.at) = {}}}
    IN repaired \cup AtMost(DivergenceBudget - Cardinality(repaired), leftover)

(* Steps after which both runs were in the same state. *)
AgreedThrough(attempt, repair) ==
    LET n == Min({Len(attempt.steps), Len(repair.steps)})
        apart == {i \in 1..n : attempt.steps[i].state # repair.steps[i].state}
    IN IF apart = {} THEN n ELSE Min(apart) - 1

Unrelated == [attempt |-> <<>>]

(* A repair starts where the attempt ended or where it started, in this     *)
(* order.                                                                   *)
CorrectionFrom(attempt, repair) ==
    LET onTop == repair.initial = attempt.final
        at == IF onTop THEN Len(attempt.steps) ELSE AgreedThrough(attempt, repair)
        divergence ==
            [agreedThrough |-> at, agreedFrom |-> attempt.initial,
             agreed |-> ActionsOf(SubSeq(attempt.steps, 1, at)),
             common |-> IF onTop THEN attempt.final ELSE IF at = 0 THEN attempt.initial ELSE attempt.steps[at].state,
             onTop |-> onTop,
             cells |-> IF onTop THEN AtMost(DivergenceBudget, repair.diff.cells) ELSE FinalDifference(attempt, repair),
             total |-> IF onTop THEN repair.diff.total ELSE attempt.diff.total + repair.diff.total]
    IN IF ~onTop /\ repair.initial # attempt.initial THEN Unrelated
       ELSE [attempt |-> attempt, repair |-> repair, divergence |-> divergence]

IsClean(c) == c.repair.grade.passed

NoPair == [from |-> <<>>, rejected |-> <<>>, preferred |-> <<>>]

(* The repair to imitate, and the two ways on from the common state to      *)
(* prefer between; only of a repair that passed.                            *)
Supervised(c) ==
    IF ~IsClean(c) THEN NoPair
    ELSE [from |-> c.repair.initial, actions |-> ActionsOf(c.repair.steps), final |-> c.repair.final]

Preference(c) ==
    LET at == c.divergence.agreedThrough
        From(steps) == ActionsOf(SubSeq(steps, at + 1, Len(steps)))
        rejected == From(c.attempt.steps)
        preferred == IF c.divergence.onTop THEN ActionsOf(c.repair.steps) ELSE From(c.repair.steps)
    IN IF ~IsClean(c) \/ c.attempt.steps = <<>> \/ (rejected = <<>> /\ preferred = <<>>) THEN NoPair
       ELSE [from |-> c.divergence.common, rejected |-> rejected, preferred |-> preferred]

Usable(log) == SelectSeq(log, IsClean)
=============================================================================
