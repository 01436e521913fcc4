------------------------------ MODULE AgentRun ------------------------------
(***************************************************************************)
(* One agent working on one task: propose, check, rehearse, commit          *)
(* (run_from of agent/run.rs), through the recorder and the environment     *)
(* that count its steps and keep its trajectory (env/trajectory.rs and      *)
(* env/lib.rs), and the run that is resumed from a checkpoint of another.   *)
(*                                                                          *)
(* The planner is whatever chooses the next step of PlanSteps; it is asked  *)
(* for a whole plan at a time, and since a plan is not looked at before its *)
(* steps are attempted, the choice is made when one is.                     *)
(***************************************************************************)
EXTENDS AgentSteps

CONSTANTS
    Tasks,          \* the workbooks a task may start from
    PlanSteps,      \* the steps a planner may write
    MaxSteps,       \* the task's budget of actions
    MaxReplans,     \* refusals and unfinished plans before the run is given up
    MaxPlanLength,  \* bound: steps in one plan
    MaxResumes      \* bound: runs started from a checkpoint of the one before

ASSUME RunAssumption ==
    /\ MaxSteps \in Nat \ {0} /\ MaxReplans \in Nat
    /\ MaxPlanLength \in Nat /\ MaxResumes \in Nat
    /\ \A book \in Tasks : IsBook(book)
    /\ \A step \in PlanSteps :
            /\ step.do \in StepKind
            /\ step.do \in {"create_derived_column", "fill_range"} => step.rows \in Int \X Int

VARIABLES
    task,           \* the workbook the first run started from
    base,           \* the workbook this run started from
    wb,             \* the workbook
    steps,          \* actions taken
    trajectory,     \* each of them, with the workbook it left
    phase,          \* what the loop is doing
    left,           \* most steps the plan in hand still has
    seen,           \* the table observed when the plan was asked for
    subject,        \* the table the run works on
    committing,     \* the compiled step being committed
    applied,        \* the checkpoints of the steps that were committed
    replans,
    ending,
    resumes

vars == <<task, base, wb, steps, trajectory, phase, left, seen, subject, committing, applied,
          replans, ending, resumes>>

Episode == <<task, base, resumes>>
World == <<wb, steps, trajectory>>

(* A step in hand: what it compiled to, and whether it ends the run. *)
NoStep == [compiled |-> Nothing, terminal |-> FALSE]
IsTerminal(step) == step.do = "export_workbook"

----------------------------------------------------------------------------

(* Start from a snapshot: nothing is inherited but the workbook. *)
StartAt(snapshot) ==
    /\ base = snapshot /\ wb = snapshot
    /\ steps = 0 /\ trajectory = <<>>
    /\ phase = "proposing" /\ left = 0 /\ seen = NoTable /\ subject = NoSubject
    /\ committing = NoStep /\ applied = <<>> /\ replans = 0 /\ ending = "none"

Init ==
    /\ task \in Tasks
    /\ StartAt(task)
    /\ resumes = 0

(* The record of a resumed run is its own. *)
Fresh(old) == <<>>

(* A run that ended, or died, is taken up from a checkpoint it left. *)
Resume ==
    /\ resumes < MaxResumes
    /\ \E n \in DOMAIN applied :
        /\ base' = applied[n] /\ wb' = applied[n]
        /\ steps' = 0 /\ trajectory' = Fresh(trajectory)
        /\ phase' = "proposing" /\ left' = 0 /\ seen' = NoTable /\ subject' = NoSubject
        /\ committing' = NoStep /\ applied' = <<>> /\ replans' = 0 /\ ending' = "none"
    /\ resumes' = resumes + 1
    /\ UNCHANGED task

End(how) ==
    /\ phase' = "ended" /\ ending' = how
    /\ UNCHANGED <<task, base, wb, steps, trajectory, left, seen, subject, resumes>>

(* Too many refusals: the loop looks before it asks again. *)
OutOfReplans ==
    /\ phase = "proposing" /\ replans > MaxReplans
    /\ End("OutOfReplans")
    /\ UNCHANGED <<committing, applied, replans>>

(* The planner has no plan for what it sees. *)
PlannerGivesUp ==
    /\ phase = "proposing" /\ replans <= MaxReplans
    /\ End("PlannerGaveUp")
    /\ UNCHANGED <<committing, applied, replans>>

(* The planner is shown the workbook and writes a plan. *)
Propose ==
    /\ phase = "proposing" /\ replans <= MaxReplans
    /\ phase' = "attempting" /\ left' = MaxPlanLength /\ seen' = DetectTable(wb)
    /\ UNCHANGED <<Episode, World, subject, committing, applied, replans, ending>>

(* Mutant: a plan that runs out is not counted. *)
AskAgainUncounted ==
    /\ phase' = "proposing"
    /\ UNCHANGED <<replans, left, seen>>

(* The planner is told what went wrong and asked again. *)
AskAgain ==
    /\ phase' = "proposing" /\ replans' = replans + 1
    /\ UNCHANGED <<left, seen>>

(* The plan is over and did not say it was done. *)
PlanRunsOut ==
    /\ phase = "attempting"
    /\ AskAgain
    /\ UNCHANGED <<Episode, World, subject, committing, applied, ending>>

(* What the loop does with a step that was committed: its table is the one  *)
(* worked on, the workbook is a checkpoint, and a terminal step is the end. *)
(* Mutant: the checkpoint is of the workbook before the step's last action. *)
CheckpointedEarly(step, before, after) ==
    /\ subject' = IF step.compiled.subject = NoSubject THEN subject ELSE step.compiled.subject
    /\ applied' = Append(applied, before)
    /\ committing' = NoStep
    /\ IF step.terminal THEN phase' = "ended" /\ ending' = "Declared"
                        ELSE phase' = "attempting" /\ UNCHANGED ending

Committed(step, before, after) ==
    /\ subject' = IF step.compiled.subject = NoSubject THEN subject ELSE step.compiled.subject
    /\ applied' = Append(applied, after)
    /\ committing' = NoStep
    /\ IF step.terminal THEN phase' = "ended" /\ ending' = "Declared"
                        ELSE phase' = "attempting" /\ UNCHANGED ending

(* The next step of the plan is compiled, checked and rehearsed: refused,   *)
(* with the rest of the plan, or committed at once when it is no actions,   *)
(* or about to be.                                                          *)
Attempt ==
    /\ phase = "attempting" /\ left > 0
    /\ \E step \in PlanSteps :
        LET compiled == Compile(step, wb, seen, subject)
            inHand == [compiled |-> compiled, terminal |-> IsTerminal(step)]
        IN /\ Written(compiled.actions) \subseteq Cell      \* bound: the sheet's edge is not reached
           /\ \/ /\ ~MayCommit(compiled, wb)
                 /\ AskAgain
                 /\ UNCHANGED <<subject, committing, applied, ending>>
              \/ /\ MayCommit(compiled, wb) /\ compiled.actions = <<>>
                 /\ left' = left - 1
                 /\ Committed(inHand, wb, wb)
                 /\ UNCHANGED <<seen, replans>>
              \/ /\ MayCommit(compiled, wb) /\ compiled.actions # <<>>
                 /\ left' = left - 1
                 /\ phase' = "committing" /\ committing' = inHand
                 /\ UNCHANGED <<seen, subject, applied, replans, ending>>
    /\ UNCHANGED <<Episode, World>>

(* The budget is spent by the action that reaches it. *)
Spent(taken) == taken >= MaxSteps

(* One action of the step in hand, recorded.  When it spends the budget the *)
(* run ends where it is, even after the step's last action, and neither a   *)
(* checkpoint nor the step is kept.                                         *)
Commit ==
    /\ phase = "committing"
    /\ LET actions == committing.compiled.actions
           action == Head(actions)
           after == Apply(wb, action)
       IN /\ wb' = after
          /\ steps' = steps + 1
          /\ trajectory' = Append(trajectory, [action |-> action, state |-> after])
          /\ \/ /\ Spent(steps + 1)
                /\ phase' = "ended" /\ ending' = "OutOfSteps"
                /\ UNCHANGED <<subject, applied, committing>>
             \/ /\ ~Spent(steps + 1) /\ Len(actions) = 1
                /\ Committed(committing, wb, after)
             \/ /\ ~Spent(steps + 1) /\ Len(actions) > 1
                /\ committing' = [committing EXCEPT !.compiled.actions = Tail(actions)]
                /\ UNCHANGED <<subject, applied, phase, ending>>
    /\ UNCHANGED <<Episode, left, seen, replans>>

Step == OutOfReplans \/ PlannerGivesUp \/ Propose \/ PlanRunsOut \/ Attempt \/ Commit

Next == Step \/ Resume

Spec == Init /\ [][Next]_vars

(* The loop is a program that runs: a step it can take it takes.  That      *)
(* anybody resumes a run is not promised.                                   *)
FairSpec == Spec /\ WF_vars(Step)

----------------------------------------------------------------------------
(* Properties.                                                              *)

(* Between two steps of a plan, or after the last one. *)
AtBoundary == phase \in {"proposing", "attempting"} \/ ending \in {"Declared", "PlannerGaveUp", "OutOfReplans"}

(* Types of the state, and what a phase says of the step in hand.           *)
TypeOK ==
    /\ IsBook(task) /\ IsBook(base) /\ IsBook(wb) /\ \A n \in DOMAIN applied : IsBook(applied[n])
    /\ steps \in 0..MaxSteps /\ Len(trajectory) = steps
    /\ phase \in {"proposing", "attempting", "committing", "ended"}
    /\ ending \in {"none", "Declared", "PlannerGaveUp", "OutOfReplans", "OutOfSteps"}
    /\ (phase = "ended") = (ending # "none")
    /\ left \in 0..MaxPlanLength /\ replans \in 0..(MaxReplans + 1) /\ resumes \in 0..MaxResumes
    /\ phase = "committing" => committing.compiled.actions # <<>>
    /\ phase \in {"proposing", "attempting"} => committing = NoStep

(* Whatever plans the planner writes, and across resumed runs, the agent    *)
(* leaves no more cells in error than the task began with: each step is     *)
(* only committed when its rehearsal on a copy added none, and the          *)
(* rehearsals add up because a committed step does what was rehearsed.      *)
ErrorsNeverGrow == AtBoundary => Cardinality(ErrorCells(wb)) <= Cardinality(ErrorCells(task))

(* A formula the task began with is still a formula: no plan, whole or cut  *)
(* off in the middle of a step, puts a literal where one was.               *)
FormulasStay == ~AllowOverwriting => \A c \in Cell : IsFormula(task[c]) => IsFormula(wb[c])

(* Between steps the workbook is the last checkpoint, or the run's start:   *)
(* a crash there loses nothing, and resuming from the last checkpoint goes  *)
(* on from exactly there.                                                   *)
BoundaryIsResumable == AtBoundary => wb = IF applied = <<>> THEN base ELSE applied[Len(applied)]

(* The record replays: its actions, no more of them than the budget, taken  *)
(* one after the other from the workbook this run started from, give every  *)
(* workbook it names and end with the one there is (trajectory.rs replay).  *)
TrajectoryReplays ==
    LET actions == [n \in DOMAIN trajectory |-> trajectory[n].action] IN
    /\ Len(trajectory) = steps /\ steps <= MaxSteps
    /\ \A n \in DOMAIN trajectory : ApplyAll(base, SubSeq(actions, 1, n)) = trajectory[n].state
    /\ wb = ApplyAll(base, actions)

(* What a run leaves is enough to go on from and to go over again, however  *)
(* it was cut off: between steps the last checkpoint is what the recorded   *)
(* actions make of the workbook the run started from, and also within a     *)
(* step every recorded workbook is what the actions up to it make.          *)
RunIsOnRecord == BoundaryIsResumable /\ TrajectoryReplays

(* The loop ends, whatever is proposed: refusals and unfinished plans are   *)
(* counted, plans are finite, and the steps are budgeted.                   *)
RunEnds == phase = "proposing" ~> phase = "ended"
=============================================================================
