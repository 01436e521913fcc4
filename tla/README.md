# Gridline in TLA+

Gridline is a spreadsheet (a Rust engine compiled to WebAssembly under a React
shell) that records what its user does, with the user's consent, as an event
log: the log is mined for routines and replayed by an agent. This directory
holds TLA+ models of its parts, TLC configurations that check them on small
instances, and proofs that TLAPS checks for every value of the constants.

Paths below are relative to the repository; `capture/` is
`apps/web/src/capture/`, `engine/` is `crates/engine/src/`, `server/` is
`crates/server/src/`.

    tlc -workers 2 -config PipelineFaults.cfg MCCapturePipeline.tla
    tlapm CapturePipeline_proofs.tla

## The system

| Component | State it keeps | Operations | What is hard about it |
| --- | --- | --- | --- |
| capture controller, `capture/capture.ts` | mode, pause, ring buffer, waiting selection, actor id | setMode, pause, resume, record, noteSelection, flushNow | timers that fire after the state changed; overflow; the id is stamped at the flush |
| delivery queue, `capture/queue.ts` | the queued events, the request under way, the backoff timer, an IndexedDB store that is found later | enqueue, flush, drain, ack, useStorage | a crash between queue and store; a lost answer; the backlog of earlier pages |
| API client and identity, `capture/api.ts`, `capture/identity.ts` | the token in localStorage (shared by tabs), the registration under way, the count of replaced tokens, a remembered refusal | ensureIdentity, invalidateIdentity, sender | two callers, two tabs, a database that is rebuilt underneath them |
| consent on the page, `apps/web/src/state/useCapture.ts` | the consent record in localStorage (shared by tabs) | getPipeline, the mount effect, reconcileConsent, choose | a choice made while the server's answer is on its way; posts that are lost or overtaken |
| consent on the server, `server/consent.rs` | consent rows | record, current, me | order of arrival |
| ingest, `server/events.rs` | the events table | ingest | duplicates; consent that changes while a batch is handled; one status for many events |
| accounts, `server/register.rs`, `auth.rs`, `ratelimit.rs` | users, token buckets | register, authenticate, allow_at | open and closed servers |
| workbook, `engine/engine.rs`, `ops.rs`, `refs.rs`, `model.rs` | sheets, formats, names | the actions of `apply_forward` | references rewritten by whoever moves cells |
| history, `engine/engine.rs` | undo and redo stacks | apply, apply_batch, undo, redo | entries restored on a workbook that has changed since |
| recalculation and spilling, `engine/engine.rs`, `deps.rs` | dependency graph, volatile and blocked cells, spilled values | recalc, recalc_pass, place_spills | order, cycles, bounded passes |
| formula language and functions, `engine/parser.rs`, `eval.rs`, `functions/` | none | parse, evaluate | several functions that are meant to agree; comparisons across kinds of value; strings and floating point |
| xlsx, formats, dates, `engine/io/`, `format.rs`, `serial.rs` | the bytes of the file that was read | import, export, render | parts that name each other; what the engine does not model must stay; the calendar of 1900 |
| agent, `crates/agent` | plan, budgets, checkpoints, plan library | run_from, attempt_step, remember, instantiate, promote | a step that is committed half-way; replans; a plan put to another table |
| environment, `crates/env` | the workbook at work, trajectory, snapshots | step, observe, grade, one (variants), correct | checks, actions and corrections that must follow a workbook which has changed |
| miner, `crates/miner`; routines, `engine/routine.rs`, `server/routines.rs` | the table of routines | normalize, mine, upsert, prune; list, feedback; rebase, replay | two programs write one table; patterns that overlap |
| web shell, `apps/web/src`; wasm, `crates/wasm` | React state | event handlers | a thin layer over the engine |

They interact in two loops. The *editing* loop is synchronous: the shell calls
`apply` or `apply_batch`, the engine changes the workbook, pushes an undo entry
and recalculates, and the shell tells the controller which action it was. The
*capture* loop is not: the controller buffers the event, a timer hands the
buffer to the queue, the queue writes it to IndexedDB and posts it in batches
with the token of the moment, and the server compares each event with the
account of the token and with that account's consent. Tabs share the token, the
consent record and the store through the browser's storage, and nothing
synchronises them. Nearly all the concurrency, failure and reordering of the program
is in the second loop, and all the state that must be put back exactly is in the
first; the models follow that division. What is built on the log comes after both:
the miner, at night, and the agent with its environment, each a sequential program.

What makes each part correct: no event disappears without being counted, and
none is stored twice, or refused for an account the page itself mixed up; nothing
is recorded in a mode the user did not choose, or while capture is off or paused;
undo and redo lead back to the workbooks they were recorded in; a reference keeps
its cell; a formula holds what it makes of the cells it reads, however it came to be recalculated; an
agent breaks nothing it was not asked to touch, and what it recorded can be
replayed; what is learnt from a recording fits where it is used.

## Modules

State machines, with their runs and proofs:

    DeliveryLog
    CapturePipeline (implements DeliveryLog) <- MCCapturePipeline, CapturePipeline_proofs
    ConsentSync     <- MCConsentSync, ConsentSync_proofs
    Identity        <- MCIdentity, Identity_proofs
    Workbook        <- MCWorkbook, Workbook_proofs
    Recalc          <- MCRecalc, Recalc_proofs
    AgentSheet <- AgentSteps <- AgentRun <- MCAgentRun, AgentRun_proofs

Algorithms, as operators, and the module that tries them:

    CellValues <- Lookups, ArrayFunctions          Styles <- Packages
    Calendar                                       Gestures <- Mining
    CellValues <- TaskGrading <- Augment           RoutineStore, RateLimits, Stamps <- Ledgers
    TaskGrading <- Corrections                     Scorecards
    Ledgers, Calendar, Planners <- Ledgers_proofs
    Ledgers, Calendar, Planners, CellValues (and Lookups, Scorecards by INSTANCE) <- Trials
    Trials <- Trials_proofs
    Trials (and the other algorithms by INSTANCE) <- TrialChecks <- MCTrials

The three modules of the capture loop cut it where the code passes a value and
looks no further. `CapturePipeline` follows an event from the ring buffer to the
table, for one account, and lets an event be recorded, in either mode, at any
time. `ConsentSync` says when it may be, and in which mode. `Identity` follows
the account with which a batch is sent, and takes the whole queue at a time.
Each header says what it leaves to the others.

**CapturePipeline.** An event is its number (the order of its ULID). `ring`,
`items`, `live` and `retryTimer` are the controller's and the queue's memory;
`disk` and `writes` are IndexedDB and its transactions, which run in the order
in which they were issued; `late` are requests nobody waits for; `consent` and
`rows` are the server's tables. `Record` is `record` with the ring buffer's push;
`FlushNow` is flushNow with enqueue and the start of the delivery; `Answer` is
the handler's loop over the batch together with ack and the loop's next turn;
`ReadConsent` comes before it because the handler reads the consent once and the
table of consents may change meanwhile; `RequestFails` is any retryable failure,
with a handler that has not seen the batch or may still be at work on it
(`LateIngest`, which may stop half-way); `StorageOpens`, `RunWrite` and `Adopt`
are openQueueStorage and useStorage; `Reload` is a crash or a closed tab.
`released`, `thrown` and `gone` record how an event left and are read by
properties only; they correspond to the acknowledged events, the counter of
discarded ones, and what died with a page or was overwritten.

**ConsentSync.** One action per method of the controller (`SetMode` is a part of
`Choose` and `Reconcile`), one for the selection timer, and GET /v1/consent/me
in three steps, sent with the page, answered (`AnswerMe`) and applied
(`Reconcile`). `posts` is a set: requests overtake each other. A lost post is not
sent again, as in the code. `Close` ends a page, whatever it was doing; `Open` loads one
in the mode `Stored` in localStorage, be it after a crash, in the same tab or in another.
`Store` is writeConsent: no page listens to what another stores, and `unaware` are the
open pages past which another has stored since they last did. `latest` is the event a
page recorded last; it and `unaware` are read by properties only.

**Identity.** An account, its id and its token are one number, 0 none. `mount`
and `send` are the two callers of ensureIdentity in a page, the mount effect and
the sender; `regs` are registrations on their way, of which the `current` one is
`inFlight`, shared by the next caller. invalidateIdentity forgets `inFlight` and
not the request, and a registration that ends clears `inFlight` whoever's it is;
both are modelled. `Rebuild`, the making anew of the server's database, is
external: DECISIONS.md:489 describes it as the reason for the recovery.

**Workbook.** A sheet is one column of cells with a bold mark per row; a formula
is one relative reference, to the sheet it stands on or to one by name; a defined
name is one too. `wb` has the sheets by id and the names; `undo` and `redo` hold
entries, each a sequence of patches (a cell's, a format's, all sheets', the name
table's) that `Restore` puts back from its end, as `restore` does, returning the
inverse in the same order. A `Compound` is the concatenation of its parts: both are
walked from the end. `Apply` and `ApplyNothing` are `apply` around an action that
pushed an entry, or did not. A batch is applied one action at a time between
`BatchStarts` and `BatchEnds` or `BatchFails`; undo and redo may be among its
actions. What a formula computes is left to `Recalc`.

**Recalc.** One sheet, its cells numbered row by row. What a formula reads in the
dependency graph (`Reads`), looks at (`Sees`) and makes (`Result`, a block of one
value or more) are parameters; `Dynamic` are the formulas with OFFSET, INDIRECT or a
defined name, which look at cells the graph does not have. `EditFormula`,
`EditLiteral` and `CellClear` are cell_edit and cell_clear up to the call of recalc,
`RecalcAll` is rebuild_deps_and_recalc_all; the steps after them are recalc's own, one
formula at a time, in the order in which recalc_pass takes them: `Evaluate` in the
order of Kahn's algorithm with its stack, `PinCycles` where that finds nothing more,
`PlaceSpills` for the layout of the blocks, `FirstPassDone`, `SpillsDone` and
`FollowDynamic` for the conditions under which recalc goes on to another pass.
`Downstream`, `CyclicWithin` and `Placed` say what the queue of the dirty closure, the
strongly connected components and the sweep over the anchors compute, without the
way they do. `before` keeps the values a full recalculation started from.

**DeliveryLog** is what the pipeline promises, without queues, pages, requests or
stores: events are offered, reach a log that holds nothing twice, and are
acknowledged, refused or lost. `CapturePipeline!Delivers` is its specification under
the refinement mapping `Log`: `offered` is `recorded`, `log` is the server's table,
and the fate of an event is the best of the answers the client had for it (`FateOf`).
An answer may improve, from refused to acknowledged, when a reload sends a batch
again; it never gets worse, and what was lost is never answered for.

**AgentSheet, AgentSteps, AgentRun.** `AgentSheet` has the sheet as the agent sees
it: what formulas and the arrays they spill show, the table that is detected, what
counts as a change and as an error. `AgentSteps` takes one step of a plan through
compilation, validation and rehearsal, each check of the code a conjunct of `Valid`,
`Rehearsed` or `Confident`. `AgentRun` is the loop: `Propose`, `Attempt`, one `Commit`
for each action of a step, `AskAgain` after a refusal or a plan that ran out, the
budgets of actions and of replans, and `Resume` from a checkpoint. The planner is any
choice of steps. What the code leaves of a step that the budget cuts off is kept: the
actions that were taken stay, without a checkpoint.

**Lookups, ArrayFunctions, Calendar, CellValues.** The lookup functions, conditional
aggregates and OFFSET over lines of cells; UNIQUE, SORT, SORTBY, FILTER, SEQUENCE and
TEXTSPLIT over blocks; serials, dates, month arithmetic, working days, year fractions
and times; the comparison of values they rest on. Arguments are evaluated already.

**Styles, Packages.** A file is its list of sheets, relationships, declarations and
parts; a worksheet is its elements in order. Opening, changing and saving are
operators; a style record carries, unread, what the engine does not model.

**TaskGrading, Augment, Corrections.** What an observation says of a workbook and what
each kind of check means; the perturbation of a task, the rewriting of the recorded
actions and checks to follow it, and the gate a variant has to pass; the recording of
a run, its replay, and the correction cut out of two recordings.

**Planners, Scorecards.** The plan library (what is remembered, how plans are
generalised and put to a table), the planner of a few phrases, the router between a
cheap and an expensive planner; the score of a policy and its release over another.

**Gestures, Mining, RoutineStore.** An action's way through the log: its record by
privacy mode, the token the miner makes of it, and back to an action at another
place; loops, recurring patterns and what is proposed of them; the table of routines,
which the miner writes one statement at a time while the server records answers.

**RateLimits, Stamps.** The token buckets and the eviction of the table they are in. The
clock is read before the table is locked, so that a request may come with any reading;
a trial is `orderly` until one comes with an earlier reading than the last. And the
event ids, sessions and sequence numbers of a page by a clock that may be set back, and
what the server derives from them. A query leaves the order of rows that its ORDER BY
does not tell apart to the database, so that `Ordered` gives every order it may choose.

`Trials` picks an algorithm and its arguments in one step and leaves the rest to the
properties, which it states for lookups, blocks, dates, plans and releases, and
`TrialChecks` for gradings, corrections, files and logs. `Ledgers` has the trials that go on from there: the table of routines, the
limiter and the page, a statement, a request or an event at a time.

## Runs

| Run | Question | Bounds, distinct states |
| --- | --- | --- |
| PipelineFaults | Is any event lost, duplicated or misreported under one of each fault, and is the pipeline a DeliveryLog? | ring of 1, batches of 2, 2 events, 1 reload, 1 network fault, 1 storage fault, 1 consent change; 2.5 million |
| PipelineLiveness | Is everything that reached the store answered for, and the queue emptied? | ring of 2, batches of 1, 2 events, 1 reload, 1 network fault; 160 thousand |
| ConsentTabs | Who captures, in which mode, and what do the log and the rows say? | 2 tabs (symmetric) that close at any time, 2 choices, 2 page loads; 680 thousand |
| ConsentRevocation | Does a withdrawal stop capture for good? (no) | 1 tab, 2 choices, 1 page load |
| IdentityTabs | How many accounts do tabs make, and what do they drop and discard? | 2 tabs (symmetric), 1 replaced token per page, 1 event, 1 rebuild, 1 failed registration, 1 reload; 840 thousand |
| IdentityAlone | Are as many dead tokens survived as promised, and what is refused? | 1 tab, 2 replaced tokens, 2 events, 3 rebuilds, 1 failed registration, 1 reload; 160 thousand |
| IdentityBacklog | Does the backlog survive a registration? (no) | 1 tab, 1 event, 1 rebuild |
| WorkbookHistory | Do undo, redo and batches lead back, and do references follow? | 2 sheets and a third to be added, 2 rows, 1 name, 3 inputs, 2 actions with any undo, redo and batch around them; 340 thousand |
| WorkbookRedo | Does redoing everything return to the final state? (no) | as WorkbookHistory |
| RecalcEdits | Is every formula right after each edit, and every block whole? | 2 by 2 cells, 9 formulas of 6 kinds, 2 literals, 3 edits, any number of full recalculations, the code's 4 and 3 passes; 124 thousand |
| AgentRuns | Does an agent with any planner end, break nothing, and leave what can be resumed and replayed? | 5 by 3 cells, 2 tables, 16 steps to choose from, plans of 2, budget of 4 actions, 1 replan, 1 resumption; 11 thousand |
| Algorithms | Do the algorithms compute what they should, and agree with each other? | below; 253 thousand |

Why the bounds are enough. In the pipeline each hazard needs two events at most
(one that is evicted, or in another batch or mode, or behind the other), one crash
and one lost answer; a ring of one slot overflows with the second event, a batch of
two holds events of two modes, and a batch of one leaves an event behind a failed
batch. For consent, two choices are the fewest that can contradict each other, and two
tabs and two page loads let each tab take over a record of the other, also when the other
is closed by then. For identities, two
tabs race for one slot with one rebuild between them; the swaps of a page are bounded
by `MaxReregistrations` in the code itself, and three rebuilds exceed the two that are
allowed. In the workbook, two actions are the fewest a batch coalesces and the
fewest that let one entry be restored over the other's changes; two rows let a
reference move, be deleted, or be pushed off the grid; the third sheet name lets a
deleted or renamed sheet's name be taken again. For recalculation, three edits build a
chain or a cycle with something downstream of it and then change its head, put two
blocks in each other's way, or block a block and free it; a block that grows over a
cell whose blankness decides its size (`down` of the fourth cell, `isblank` of the
third) keeps moving until the bound on the passes stops it, and the bounds on the
passes are the code's. The agent's two tables differ in what is detected of them; its
sixteen steps have one for every reason to refuse one and one that is right of every
kind, and a budget of four cuts a step of three actions off after its first, its second
or its last. The safety properties the theorems below state are proved for all
constants, so that there the runs check the statements rather than the sizes.

The inputs of `Algorithms` are in `MCTrials`, small and exhaustive where that can be:
every line of up to three cells over six values of every kind (two lines of up to
`CriteriaCells`, 2, for the criteria, which take a position at a time) for seven keys, one
of them the empty text, and every pattern of up to three of a, b, `*`, `?` and `~`
against every text; blocks of three rows, with a blank beside everything it equals; serials
on both sides of February 1900 and of a leap year, up to four years apart; five tables
and the plans for them; three releases over two tasks; two workbooks with twelve edits
and eight perturbations; two files (one with every element that is modelled, one with
none) under twenty-four changes; sittings of up to six gestures in two sessions or
more; two nights of mining with answers between any two statements; three callers with
six requests for two places in the table, each at any of four ticks of the clock; and a
page with three events under every reading of a clock of four ticks.

No run is constrained other than by the bounds named in the CONSTANTS. Deadlock is
checked for recalculation, which may always be asked for again; elsewhere it is not,
because the system may stop: the user may do nothing, and the bounds run out.

Fairness (in the liveness runs only). `CapturePipeline!Fairness`: the five second
tick and the backoff timer fire, IndexedDB opens and runs its transactions, and the
server handles and answers what it was sent. Failures are not required to happen or
to stop, but are bounded. The user need not do anything, and no fairness is assumed
of `Record`. `Identity!Fairness`: effects run, registrations and batches are answered
(with success or failure). `AgentRun!FairSpec` is fair to `Step`, the loop itself; that
anybody resumes a run is not assumed. Weak fairness is enough everywhere: each of these
steps stays enabled until it is taken.

What the passing runs show.

- The pipeline is an at-least-once log that holds nothing twice and tells the truth
  about the rest (`Delivers`). Nothing a page recorded is lost silently
  (`NothingVanishes`), the store gives an event up only when it was answered for
  (`StoreKeepsUnanswered`) and holds what the queue holds (`QueueIsStored`), what a 200
  released is in the table (`ReleasedIsStored`), and what reached the store is answered
  for in the end, by this page or a later one (`BacklogIsDelivered`, `QueueDrains`).
- No tab captures in a mode nobody chose (`OnlyChosenModes`); after a withdrawal a
  tab's log goes on with a grant, a pause is ended by its resumption or by a withdrawal
  and not by a change of mode (`GapsAreExplained`); the server's rows agree with what was
  answered (`RowsAgree`), and a page with what is stored, with which the next page will
  begin, unless another page has stored something since (`TabsFollowStored`).
- Accounts are made for want of a token only (`AccountsAreBounded`). While the database
  stands, tabs that race for the token neither drop it nor discard anything for it, and
  after it was rebuilt the dropping ends (`DropsAreBounded`). A tab that is alone discards
  nothing for as many dead tokens as it is meant to survive
  (`DeadTokensDiscardNothing`, `QueueEmpties`), and until it drops one the server refuses
  only what was captured without an id, and what was sent along with that
  (`OnlyPlaceholdersAreRefused`).
- Undo and redo are exact for sheets, except where the findings say, and references
  keep their cells (`UndoBringsBack`, `RedoBringsForward`, `ReferencesFollow`).
- After an edit the formulas that were not looked at again are as right as those that
  were (`FormulasHold`), so that a full recalculation finds nothing to change once the
  layout has settled (`FullAgreesWhenSettled`); blocks are whole (`BlocksAreWhole`).
- Whatever a planner writes, a run ends (`RunEnds`), adds no error to the workbook
  (`ErrorsNeverGrow`), puts no literal where the task had a formula (`FormulasStay`), and
  leaves enough to go on from and to go over again (`RunIsOnRecord`): between steps the
  last checkpoint is the workbook, and the record replays to every workbook in it.
- `LookupsFind`: an approximate match is the last of those not beyond the key, the exact
  lookups and the two wildcard matchers agree, criteria part what they count, OFFSET
  stays on the grid. `ArraysAgree`: sorting, filtering, UNIQUE, SEQUENCE and TEXTSPLIT
  agree with each other and lose nothing. `CalendarAgrees`: serials and dates are the
  same days, also across the one that never was.
- `PlansFit`: a plan that was learnt keeps its shape on another table (and the name of its
  output, where the table has no such column), and on its own is the plan it was; the rules
  make no column of itself that they were asked for by name; the router is as careful as it
  says. `ReleasesRatchet`: no release
  takes a solved task back, over however many. `GradesMean`: checks and observations say
  what they mean. `VariantsFollow`: replaying the rewritten actions on the perturbed
  workbook is perturbing what the recorded ones made. `CorrectionsTeach`: doing what a
  correction rejects leads to what the agent left, doing what it prefers to the repair.
- `FilesRoundTrip`: saving and opening gives back the workbook, with what the engine does
  not model where it was. `HabitsAreSeen`: a habit is proposed once, on evidence of its
  own, and none that is seen from its first step is left out. `RoutinesRepeat`: a routine
  does at another place what was done. `AnswersStay`: what a user answered, the miner
  leaves alone.
- `LimitsHold`: in whatever order requests come to the table, a caller is granted what its
  bucket held, what waiting brought and what eviction let it off, no more; the waiting is
  no longer than the clock says unless a request was overtaken. `StampsAgree`: ids ascend
  and the export has the order of recording, whatever the clock does; the server's
  sessions are runs of events with no long gap in them and one between any two, and count
  each event once; when the clock is not set back, they are the sessions the page claimed.

What the properties leave out, because the code does otherwise. `ReleasedIsStored`
speaks of events that claim the structural mode: an event of mode full that meets a
structural consent is refused under a 200, which is what the code means to do.
`DeadTokensDiscardNothing` speaks of counted discards on a server that registers people,
and it and `OnlyPlaceholdersAreRefused` of a page with the browser to itself (finding 17).
`TabsFollowStored` says nothing of a page past which another has stored, which goes on in
its own mode; `PlansFit` nothing of what finding 4 is about.
`UndoBringsBack` and `RedoBringsForward` leave out what findings 3 and 5 are about, so
that they say that nothing else goes wrong. `ReferencesFollow` leaves out a target that
an insertion pushes off the grid (refs.rs:37 lets it point one row beyond, where offset
makes it #REF!), and names under insertion, deletion and cut, which the code does not
rewrite; a reference to a cell that is cut to *another* sheet is not followed either,
and goes on naming the sheet it came from, moved by the same rows (ops.rs:197-202 passes
the source sheet only), against refs.rs:10-11.

The properties of recalculation are about formulas the graph knows all about: those
that compute a reference may be left unsettled by the bound, or by finding 6.
`BlocksAreWhole` and `FullAgreesWhenSettled` are about a last layout that moved
nothing; after four layouts a sheet that goes on moving is left as it is.
`BlocksAreWhole` also asks for at least one block. When the last one becomes a single
value, no layout follows (has_spills, engine.rs:1559), and what it had laid out stays
on the grid until the next block is made: tests/spilling.rs:119-120 wants "the
abandoned cell" to be "cleared, not left holding the value it had". A formula that
becomes part of a cycle keeps its old block in `arrays` as well, so that the next
layout puts the block's first value over its #CIRC!, which the pass after that takes
back.

## Findings

Three are runs that TLC finds violated; PROJECT.json quotes the lines they contradict.

1. **ConsentRevocation.** A page reconciles with the server's consent record at load
   and applies the answer whatever happened meanwhile. A withdrawal made while the
   request is out, or whose post was lost or overtaken, is undone.
2. **IdentityBacklog.** Events captured before an account exists, or for one whose
   token died, are kept and sent with the new account's token, refused one by one
   because they carry another id, and forgotten under a 200 without being counted.
3. **WorkbookRedo.** Redoing an entry that touches a cell twice (an overlapping cut, a
   cut that moves a formula it rewrites, a batch that edits a cell twice) restores the
   older of the two contents.

The others were met while modelling. The models do what the code does, and the
properties name what they leave out.

4. policy.rs:88 says that a column is never one of its own inputs. The columns to read are
   filtered against the one the instruction names (policy.rs:94-98); when it names none, the
   new one is called "Result" afterwards (policy.rs:101), and in a table that has one an
   instruction that mentions it makes it of itself. `OnlyUnnamedAreReadAgain` says that this
   is the only case; the validator refuses such a plan.
5. Undoing the renaming or deletion of a sheet does not bring back the defined names it
   rewrote (engine.rs:1166, 1183, 1447-1465).
6. A formula with a defined name is evaluated in the order of addresses and not after the
   cell the name refers to. When all that an edit changes are such formulas no further
   pass is made (engine.rs:1592-1599), and the head of a chain of two keeps the old value
   until everything is recalculated.
7. The rate limiter reads the clock before it locks the table. A request that is
   overtaken sets the time of its bucket back, and the interval is refilled again
   (ratelimit.rs:51, 77), where the tests say that a backwards clock must not refill the
   bucket. `LimitsHold` bounds what is granted by the time that was counted, and that by
   the clock only where no request was overtaken.
8. `recent` orders events by the time they were received and then by sequence number, so
   that a batch with the end of one session and the beginning of another comes out of
   order; the export does not.
9. mine.rs:40-42 says that an occurrence after a longer one is still counted; `grow`
   (mine.rs:259-318) keeps only the first place of each token in a session, so that a
   habit that begins at a later one is not seen. A repetition is passed over whole when
   its run overlaps one that is taken.
10. A routine's id is made of its tokens alone and is the table's only key: a second
   actor with the same habit makes the insertion fail, and ends the night's run. `prune`
   deletes by id and actor without looking at the status again, so that an answer given
   in between goes with its row. An answered routine stays listed in its old workbook.
11. A format with several attributes is applied twice by a routine. What leaves the grid
    when a routine is moved is left out without a word, where engine/routine.rs says that
    a routine that cannot run cleanly must say so.
12. xlsx: a worksheet with an empty element for conditional rules takes no new ones
    (xlsx.rs, the `Empty` arm of scan_spans); a number format inside a dxf is read as one
    of a cell (styles.rs, about line 175); frozen panes on an added sheet make the export
    fail; errors of a workbook of no file are written as text; the calculation chain is
    dropped from the list of content types only after it was written; print areas keep
    the index of a sheet that is gone; a format's record is shared by cells with
    different fonts.
13. TEXTSPLIT slices its text at every byte (dynamic.rs:415-434) and panics on a
    character of several, where functions/text.rs:3-4 promises characters. XMATCH and
    LOOKUP match a cell with an error, against lookup.rs:6-9. The comparison that SORT
    hands to sort_by is no total order when blanks, texts and numbers meet.
14. Slots are numbered by formula in a plan's shape and over the whole plan in its
    bindings, against memory.rs:271-275; two rules of memory.rs:19-21 and 222-225 are not
    there: the output keeps its name also where the table has a column of that name. A run
    that was not graded counts as one without violations.
15. augment.rs renames a sheet in every reference whose sheet's name ends in its name,
    keeps the place of recorded insertions and deletions that lie before an inserted row,
    and leaves a check of a filled range failing when a row is inserted in it. The total of a correction counts a cell that
    differs in both runs twice; a replay is not compared with the snapshot at its end.
16. The agent's FilterRows is always refused, since what it compiles to changes no cell.
    A run that is cut off by the budget within a step leaves half of it without a
    checkpoint. A table is located in the observation the plan was made from, so that a
    second column for the next free place of one plan overwrites the first. Rows that
    start with the header overwrite it. A formula that refers to its own cell by the
    name of the sheet passes validation.
17. A 401 drops whatever token is stored (identity.ts:112), also one that another tab has
    just registered. After one rebuild two tabs can drop each other's new tokens, when
    one's answer to the dead token comes after the other's registration, or when a token is
    dropped between ensureIdentity and the reading of it (api.ts:109, 227), until both have
    replaced as many as they may and discard what they hold: that identity.ts:99-101
    concludes from it that "the token was never the problem" is right of one tab only.

## Proofs

Every theorem is for all values of the constants, from the assumptions the modules name
(`PipelineAssumption`, `ConsentAssumption`, ...), which say that bounds are natural
numbers, that there is a tab, and that formulas and tasks are what the code's types say.

| Module | Theorem | Property |
| --- | --- | --- |
| CapturePipeline_proofs | TypeCorrect | `[]TypeOK` |
| | AtMostOnce | `[]StoredAtMostOnce` |
| | RefusedMeansNotStored | `DiscardedIsNotStored` |
| | StoreKeeps | `StoreKeepsUnanswered` |
| | NothingIsLostSilently | `[]NothingVanishes` |
| | ReleasedMeansStored | `[]ReleasedIsStored` |
| | PipelineDelivers | `Delivers` |
| | QueueStored | `[]QueueIsStored` |
| ConsentSync_proofs | TypeCorrect | `[]TypeOK` |
| | ChosenModesOnly | `[]OnlyChosenModes` |
| | RowsAlwaysAgree | `[]RowsAgree` |
| | TabsAlwaysFollow | `[]TabsFollowStored` |
| | GapsAlwaysExplained | `GapsAreExplained` |
| Identity_proofs | TypeCorrect | `[]TypeOK` |
| | DropsStayBounded | `[]DropsAreBounded` |
| | OneTabIsRefusedPlaceholders | `[]OnlyPlaceholdersAreRefused`, for one tab |
| | OneTabDiscardsNothing | `[]DeadTokensDiscardNothing`, for one tab |
| | AccountsStayBounded | `[]AccountsAreBounded` |
| Workbook_proofs | TypeCorrect | `[]TypeOK` |
| | UndoAlwaysBringsBack | `UndoBringsBack` |
| | RedoAlwaysBringsForward | `RedoBringsForward` |
| | ReferencesAlwaysFollow | `ReferencesFollow` |
| Recalc_proofs | TypeCorrect | `[]TypeOK` |
| | FormulasCorrect | `[]FormulasHold` |
| | BlocksStayWhole | `[]BlocksAreWhole` |
| | FullAgrees | `[]FullAgreesWhenSettled` |
| AgentRun_proofs | TypeCorrect | `[]TypeOK` |
| | RunStaysOnRecord | `[]RunIsOnRecord` |
| | FormulasSurvive | `[]FormulasStay` |
| | ErrorsDoNotGrow | `[]ErrorsNeverGrow` |
| Trials_proofs | LimitsAlwaysHold | `[]LimitsHold` |
| | AnswersAlwaysStay | `[]AnswersStay` |
| | StampsAlwaysAgree | `[]StampsAgree` |
| | ReleasesAlwaysRatchet | `[]ReleasesRatchet` |
| | CalendarAlwaysAgrees | `[]CalendarAgrees` |
| | PlansAlwaysFit | `[]PlansFit` |
| | LookupsAlwaysFind | `[]LookupsFind` |

**The pipeline.** `TypeOK` is inductive by itself; the lemmas at the head of the module
say what a request, an extended queue, an issued transaction and an adoption are.
`StoredAtMostOnce` is inductive with it, since `Insert` adds a row only to an event
that has none. `NothingVanishes` is not: that an event leaves the store only after an
answer depends on the transactions that wait, and that the adoption of a backlog
loses nothing depends on what they hold. The strengthening has two parts.
`KnownEvents`: whatever is in the ring, the queue, the store, a request or a
transaction has been recorded. `RemovesAnswered`: a transaction that waits to remove
events removes only answered ones. From these follow the store's action property and
then that no step takes an event out of the union of the places it can be.
`ReleasedIsStored` needs only that a request's verdict is made of its own consent: a
200 under a consent that captures accepts every structural event, and a 200 under one
that does not is impossible for a batch that is not empty.

**The refinement.** Each action of the pipeline is one step of the log or a stutter:
`Record` an offer, with the event it overwrites; `Answer` an acknowledgment or a refusal
of the batch; `LateIngest` reaches the log in silence; `Reload` makes what only memory
held perish. The fates have to be monotone, so that the invariant (`Apart`) says that what died
with a page is nowhere any more. `StoredAtMostOnce`
and `DiscardedIsNotStored` are implied by it, and therefore not properties of the run.

**The queue and its store.** `QueueIsStored` has to survive the removals that wait and the
adoption that puts what the store held into the queue. `BacklogFirst`: the reading of the
backlog is the first transaction of a page, and while it waits the queue is between two
stores, so that nothing has been written or removed before it is read. `NoneComesBack`:
no pending removal names an event of the ring or the queue, and until the backlog has been
read the store shares no event with the queue or with those removals; it rests on `Apart`
and on the numbering of events, by which a new one is in no transaction yet. Neither needs
the store to be free of faults; the property does, since a failed write is not repeated.

**Consent.** `OnlyChosenModes` needs that every place a mode can come from, the posts,
the rows, the answers on their way and the stored record, holds chosen modes only.
`GapsAreExplained` needs that the event a tab recorded last says what the tab is
(`MarksHold`): after a withdrawal the tab is off, and it is on and paused exactly after a
pause or a change of mode that kept one. `TabsFollowStored` is inductive once a closed tab
is known to be blank: whoever stores a mode is the one page that is not unaware of it.

**Identity.** While the database stands (`Standing`) every account is good, nothing is sent
without a token and no page is refused one, so that there is no 401 to drop a token for. The
tokens that are dropped are counted by page and number (`Replaced`); a page that dies takes
its count with it and is charged for all it might have dropped. That one tab
discards nothing needs its count of replaced tokens never to run ahead of the rebuilt
databases (`Alone`): alone, a page never sends without a token and drops no good one.
That it is refused only what has no id needs that until a token is dropped there is one at
most (`OneRegistration`: a page asks for one account at a time, and for none when it has
one), so that whatever is stamped, adopted or sent is of this one or none (`OneId`).
The number of accounts is bounded by counting what may still become one (`Counted`): the
accounts there are, the registrations that are out, and the tabs that may start one
because they have no token and no registration to join. Starting or joining one moves a
tab from the third count to the second, an answer moves it to the first; only a dropped
token lets every tab start again, and only a failure or a page's death lets one.

**The workbook.** An entry is a sequence of patches of any length, put back from its end,
and the stacks are sequences of entries. The invariant (`History`) walks along them:
taking back the last entry leads to the workbook it was recorded in, in which taking back
the one before it leads to the one before, and so on (`Leads`); the redo stack the same
way forward, for entries that touch no place twice. It is a claim about sequences, and
proved for all lengths by way of the least number for which a claim fails. Each operation
has a lemma that says that its entry takes it back (`TakesBack`), from what it rewrites
cell by cell; a batch's entry is the concatenation of its parts, which takes back what
they take back one after the other. Patches are put back pointwise, so that two patches
of different places commute; where two are of one place the older wins, which is what
finding 3 is about and why redo needs entries that touch no place twice.
`ReferencesFollow` is about one step: where a row goes under an insertion, a deletion or
a cut, and that the rewritten reference points there.

**Recalculation.** `FormulasHold` speaks of a recalculation that is over; `IInv` says
what is so in between. Every formula that is not dirty is right (`RestIsSound`), and with
it the block it made. What depends on a dirty formula is dirty too, or on a cycle
(`NoneLeftBehind`), so that evaluating a formula, pinning a cycle or moving a block
disturbs no formula outside the dirty ones. And the dirty formulas are all that depends
on them until the cycles are pinned, after which none of them is on a cycle
(`CyclesComeWhole`): that is why the cycles of the dirty formulas are the cycles of the
sheet (`PinnedIsCyclic`), and why what becomes ready is on none (`ReadyIsNotCyclic`). An
edit changes the graph itself; `CyclesOfTheRestStay` shows that what is not downstream
of it is on a cycle after it exactly if it was before.

Blocks are laid out greedily, in the order of addresses; `PlacedIsThePlan` shows that
there is one such layout, in which no two blocks meet. Once a layout has settled it stands
(`CalmIsSettled`, `LayoutStands`): laying the blocks out once more would change nothing,
from which `BlocksAreWhole` follows. A full recalculation begins there, and as long as it
has changed nothing every formula it evaluates is right already and every block is where
it would be put (`FullChangesNothing`), so that it goes on changing nothing.

**The agent.** `ErrorsNeverGrow` and `FormulasStay` are about boundaries, and a step is
many actions. The invariants therefore speak of the end of the step in hand
(`ErrorsBounded`: the actions that are left, applied to the workbook as it is, leave no
more errors than the task had) and of the kind of its actions (`FormulasKept`: unless
overwriting is allowed, none puts a literal where the task has a formula, and what is
filled down is a formula), which validation and rehearsal establish. Replays are folds over sequences of
any length; the induction is over the length of the prefix, by way of the least number
for which a claim fails.

**The limiter.** A caller's account balances (`IsPaid`): what it was granted and what its
bucket holds are no more than the capacity, what its waiting brought, and what it was let
off when its bucket was evicted in debt. An eviction closes the account: a bucket that is
gone counts as a full one, and what it lacked is a debt let off or time it had waited.
`IsTimely` bounds the waiting by the clock while requests come in the order of their
readings; that nobody who leaves time is refused follows from what a bucket holds at
least since its caller was seen. The table before the eviction has one bucket more than
the table after the last request, so that what is given up is counted.

**The routines.** While a run is at work (`IsSound`), what it has written stands: each
routine of the groups that are done is its actor's, and proposed, if at all, in a workbook
it was found in (`WrittenStands`); in the workbooks that are done nothing else is proposed,
and in the one in hand nothing else but the stale ones that are still to be deleted
(`DoneIsFound`). What is stale was never found for its actor and workbook, so that a
deletion takes back nothing that was written. A run's groups are one to an actor and
workbook (`NightsAssumption`; the miner collects them so, main.rs:114-123), without which
the second would delete what the first proposed. That the end of a run turns this into
`AnswersStay` is then a matter of reading it for all groups at once.

**The stamps.** An id is made after the last one, so that ids ascend even when the clock is
set back, and a session, being an id, comes after all before it (`AreStamped`). Where the
clock made a long step the session changes, and only there (`AreSplit`). An order of the
events that a query may choose is a dealing of their places; one that keeps an order the
places have already changes nothing (`KeptIsSame`), which settles the export, and the
query by time when the clock was not set back: events of one time are then of one session,
in which the sequence numbers tell them apart (`ForwardIsByTime`). The server's sessions
are those of a recursion over the events; that they are runs is carried along it from
event to event (`SessionsStayRuns`), by the least place for which it fails. That they are
the page's own rests on both sides ending a session after the same ten minutes
(capture.ts:129, sessions.rs:17), which `StampsAssumption` says.

`Ledgers_proofs` has the lemmas about the ledgers alone, the calendar and the planners,
`Trials_proofs` that no other trial is taken for one of them, and the lemmas about releases
and lookups.

**The calendar.** A month is numbered by the months before it since year 0, and each
begins where the one before it ends (`MonthsFollow`), so that a count of days falls into
one month (`SomeMonth`) and a date and its count are each other's (`DayOfCount`,
`DayOfItsCount`). A serial is a count with a gap at the day that never was, which keeps
the order (`SerialsInOrder`). EDATE and EOMONTH are then a sum of month numbers, DATEDIF
a difference of them, one less when the day of the month is not reached, and the
thirty-day counts differ from the days by at most two a month (`ThirtiesAreClose`),
because a month has 28 to 31. WORKDAY is a recursive function over days and days left;
that there is one is proved first (`WalkExists`, by the days there are still to walk),
then that it passes exactly as many working days as it was to go (`WalksArrive`), which
NETWORKDAYS counts. All of it is for any serials, any number of months and days and any
holidays, from `CalendarAssumption`: the calendar the model counts in goes on for a year
behind the last serial, and the last year has four digits.

**The plans.** The slots of a plan are the distinct headers its formulas mention, in the
order of their first places: the place of rank n of a set of places (`Nth`), which holds
every header once (`DistinctIs`). What a plan mentions is a recursion over its steps,
shown to exist by induction on their number (`Iterates`), and rewriting goes through it
(`PlanRewritten`), so that a plan with other headers in its slots, all different, has the
same shape, the same output, and those headers as its slots (`RewrittenAlike`). Binding
takes no header twice (`BoundApart`), which makes them different, and says of each
whether it was seen before. In a library of one run (`RememberedIs`, `BoundToItself`)
every slot is bound to what it was, wherever the table has it, and what comes back is the
plan itself (`OneRepeats`). The rules pick their operands among the columns that are not
the one they were asked for. The router's counts go through the recursion over the requests (`RouterIs`).
All of it is for any outcomes, tables, instructions and thresholds, from
`PlansAssumption`: plans are sequences of steps with the fields of their kind, tables and
instructions are sequences, and no name comes before itself in the alphabet.

**The lookups.** Both readings of a pattern go back to the last star only, where a pattern
may have several. That is enough: what is between the last star and the place at hand has
taken the text since that star, and would take the same anywhere (`IsHeld`), so that a star
further back gains nothing by taking more. A place of the search is right if the one it
goes on to is (`RightGoesBack`), and every step takes more of the pattern, or leaves more
of the text to the star (`GreedyIsRight`). The places it wins from are the greatest set
that agrees with its steps (`SomeWin`), which gives the recursion a function to be. The two
readings, of tokens (`WildcardIs`) and in place (`CriteriaIs`), are then one search over
two spellings of a pattern, and what they take is what the tokens share out between them
(`ReadingLeaves`). Numbers, texts and truth values are in a total order (`ValuesInOrder`;
texts by the place where they part), so that in a line in order the cells not beyond the
key come first and the last of them is as far as they are many (`OrderedLine`), whichever
function asks for it. What a search may find of a line does not depend on the direction,
and its last is the first of the reversed line (`SearchFinds`, `BackwardsAlwaysReversed`).
A criteria and its opposite part the cells that have a value (`SatisfiesParts`), and the
sums over the two parts add up (`SumsAdd`, along the running sum). The empty text is the
exception the statement names: as a key it asks for the blanks, `=` and `<>` then part all
cells, and the orders compare with an empty text. All of it is for lines, keys, patterns,
texts and grids of any size, from `LookupsAssumption`: lines are sequences of values and
hold one, patterns and texts are sequences.

**The releases.** A release that is not held back is no worse (`IsNoWorse`), which goes on
from release to release because two scorecards of one corpus have the same tasks: what
passed in the first has passed or failed in the second, so that a task that did not fail
has passed. `InUseRatchets` carries it along any number of candidates, of which the run and
the theorem have three. That the sums of a scorecard are counts, and so compare as
numbers do, is `TotalIsNat`, from `ResultsAssumption`: a run leaves counts and a list of
checks.

Only model-checked: the liveness properties `BacklogIsDelivered`, `QueueDrains`,
`QueueEmpties` and `RunEnds`, since fairness is out of the prover's reach; and the other
properties of `Algorithms` (`ArraysAgree`, `GradesMean`, `VariantsFollow`,
`CorrectionsTeach`, `FilesRoundTrip`, `HabitsAreSeen`, `RoutinesRepeat`), which are about
what recursive operators, sorts and folds over data come to, out of the prover's reach.

## What remains

In order of worth: the sorting, merging, sizing and conditional rules of the workbook as actions of
`Workbook`; the clock and random functions and several sheets in `Recalc`; the confidence
estimate and the dataset export of the miner; the dry run of a routine.

## Not modelled, and why

The parser and printer of formulas, number formats, text, arithmetic, financial and
statistical functions and the evaluation of conditional rules are functions over strings
and floating point numbers without interleaving or failure; the repository's property
tests are the better tool. The web shell and the wasm layer pass values on. The parity
runner, demo data, scripts and deployment are tooling. The planner itself is outside of
the agent's modules: any plan may come. In recalculation the clock and random functions,
conditional formats, several sheets and edits of several cells, all of which end in a
full recalculation, are left out. Within the modelled parts, time is left out (a timer
that is armed may fire) except where a property is about it, as are the contents of an
envelope that no step looks at. `Workbook` has no ranges (every block is one cell), no
absolute references, columns or paste-values; `Augment` and `Gestures` have absolute
references, columns and spans. Numbers are whole, and texts are short sequences or
names.
