------------------------------- MODULE Planners -------------------------------
(***************************************************************************)
(* How the agent gets a plan: a library of plans that worked, generalised   *)
(* into micro-policies (agent/memory.rs, agent/plan.rs), the planner of a   *)
(* few phrases and the router between a cheap and an expensive planner      *)
(* (agent/policy.rs).                                                       *)
(*                                                                          *)
(* Headers are compared after normalize, and are names here; so case and    *)
(* spaces make no difference, as the code says.  A formula template is an   *)
(* operator and the headers it mentions.  An instruction is its words.      *)
(***************************************************************************)
EXTENDS Integers, Sequences, FiniteSets, SequencesExt, FiniteSetsExt

CONSTANT Precedes(_, _)     \* the alphabetical order of headers

NoName == "-"               \* an output or a sheet that is not there

----------------------------------------------------------------------------
(* Plans.                                                                   *)

Locate(sheet, mustHave) == [do |-> "locate_table", sheet |-> sheet, mustHave |-> mustHave]
Derived(header, at, fn, names) ==
    [do |-> "create_derived_column", header |-> header, at |-> at, fn |-> fn, names |-> names]
Applied(at, fn, names) == [do |-> "apply_formula", at |-> at, fn |-> fn, names |-> names]
Filled(column) == [do |-> "fill_range", column |-> column]
Reconciled(left, right) == [do |-> "reconcile_totals", left |-> left, right |-> right]
Export == [do |-> "export_workbook"]

HasFormula(step) == step.do \in {"create_derived_column", "apply_formula"}

(* A sequence of steps, each with what its kind of step has. *)
FieldsOf(step) ==
    CASE step.do = "locate_table" -> {"sheet", "mustHave"}
      [] step.do = "create_derived_column" -> {"header", "at", "fn", "names"}
      [] step.do = "apply_formula" -> {"at", "fn", "names"}
      [] step.do \in {"fill_range", "filter_rows"} -> {"column"}
      [] step.do = "reconcile_totals" -> {"left", "right"}
      [] OTHER -> {}
IsSequence(s) == Len(s) \in Nat /\ s = [i \in 1..Len(s) |-> s[i]]
IsStep(step) ==
    /\ step = [field \in {"do"} \cup FieldsOf(step) |-> step[field]]
    /\ HasFormula(step) => IsSequence(step.names)
IsPlan(plan) == IsSequence(plan) /\ \A i \in DOMAIN plan : IsStep(plan[i])

(* The first of each, in order. *)
Firsts(names) == {i \in DOMAIN names : \A j \in 1..(i - 1) : names[j] # names[i]}
Nth(S, n) == CHOOSE i \in S : Cardinality({j \in S : j <= i}) = n
Distinct(names) == [n \in 1..Cardinality(Firsts(names)) |-> names[Nth(Firsts(names), n)]]
PositionOf(n, names) == CHOOSE i \in DOMAIN names : names[i] = n

(* A formula with its headers replaced by their order of appearance. *)
Anonymize(names) == [i \in DOMAIN names |-> PositionOf(names[i], Distinct(names))]

Shape(plan) ==
    [i \in DOMAIN plan |-> IF HasFormula(plan[i])
                           THEN <<plan[i].do, plan[i].fn, Anonymize(plan[i].names)>>
                           ELSE <<plan[i].do>>]

(* The headers the formulas of a plan mention, counted through the plan. *)
NamesIn(step) == IF HasFormula(step) THEN step.names ELSE <<>>
Mentioned(plan) ==
    LET after[n \in 0..Len(plan)] == IF n = 0 THEN <<>> ELSE after[n - 1] \o NamesIn(plan[n])
    IN after[Len(plan)]
SlotsOf(plan) == Distinct(Mentioned(plan))

OutputOf(plan) ==
    LET made == {i \in DOMAIN plan : plan[i].do = "create_derived_column"} IN
    IF made = {} THEN NoName ELSE plan[Min(made)].header

----------------------------------------------------------------------------
(* The library.                                                             *)

(* Only clean successes with something to generalise are kept. *)
Worth(outcome) == outcome.passed /\ outcome.incidental = 0 /\ SlotsOf(outcome.plan) # <<>>
Record(outcome) ==
    [plan |-> outcome.plan, shape |-> Shape(outcome.plan), bindings |-> SlotsOf(outcome.plan),
     output |-> OutputOf(outcome.plan), words |-> outcome.words]
IsOutcome(outcome) ==
    /\ outcome.passed \in BOOLEAN /\ IsPlan(outcome.plan)
    /\ \A n \in ToSet(SlotsOf(outcome.plan)) : ~Precedes(n, n)
Remember(library, outcome) == IF Worth(outcome) THEN Append(library, Record(outcome)) ELSE library
Remembered(outcomes) ==
    LET after[n \in 0..Len(outcomes)] == IF n = 0 THEN <<>> ELSE Remember(after[n - 1], outcomes[n])
    IN after[Len(outcomes)]

(* Names by how often they occur, and then alphabetically. *)
Ranked(names) ==
    LET Count(n) == Cardinality({i \in DOMAIN names : names[i] = n})
        Ahead(n) == {m \in ToSet(names) : Count(m) > Count(n) \/ (Count(m) = Count(n) /\ Precedes(m, n))}
    IN [k \in 1..Cardinality(ToSet(names)) |-> CHOOSE n \in ToSet(names) : Cardinality(Ahead(n)) = k - 1]

(* Where the plans of a shape are. *)
Group(library, shape) == {k \in DOMAIN library : library[k].shape = shape}

(* One policy a shape: the first plan of it, and for each of that plan's    *)
(* slots the headers the slot was bound to.                                 *)
Policy(library, shape) ==
    LET group == Group(library, shape)
        first == library[Min(group)]
        Bound(i) == [k \in {k \in group : i <= Len(library[k].bindings)} |-> library[k].bindings[i]]
    IN [shape |-> shape, support |-> Cardinality(group), representative |-> first.plan, output |-> first.output,
        slots |-> [i \in DOMAIN first.bindings |-> Ranked(Bound(i))],
        keywords |-> {w \in first.words : \A k \in group : w \in library[k].words}]

Policies(library, minSupport) ==
    {Policy(library, library[i].shape) : i \in {j \in DOMAIN library : Cardinality(Group(library, library[j].shape)) >= minSupport}}

----------------------------------------------------------------------------
(* A policy against a table, which is its columns in order.                 *)

AreColumns(table) == IsSequence(table)
Headers(table) == [i \in DOMAIN table |-> table[i].header]

Unbound == [header |-> NoName, byName |-> FALSE]

(* Mutant: a column may be bound twice. *)
BindAgain(seen, table, taken) ==
    LET there == {i \in DOMAIN seen : Contains(Headers(table), seen[i])} IN
    IF there = {} THEN Unbound ELSE [header |-> seen[Min(there)], byName |-> TRUE]

(* A header seen before, or else the only number column that is left. *)
Bind(seen, table, taken) ==
    LET there == {i \in DOMAIN seen : Contains(Headers(table), seen[i]) /\ seen[i] \notin taken}
        numbers == {i \in DOMAIN table : table[i].type = "number" /\ table[i].header \notin taken}
    IN IF there # {} THEN [header |-> seen[Min(there)], byName |-> TRUE]
       ELSE IF Cardinality(numbers) = 1 THEN [header |-> table[CHOOSE i \in numbers : TRUE].header, byName |-> FALSE]
       ELSE Unbound

(* The slots one after the other, none with a column of one before. *)
Bindings(slots, table) ==
    LET taken[n \in 0..Len(slots)] ==
            IF n = 0 THEN {} ELSE taken[n - 1] \cup {Bind(slots[n], table, taken[n - 1]).header}
    IN [n \in DOMAIN slots |-> Bind(slots[n], table, taken[n - 1])]

(* A plan with its headers replaced; sheets are not carried over. *)
Swapped(name, old, new) == IF Contains(old, name) THEN new[PositionOf(name, old)] ELSE name
EachSwapped(names, old, new) == [i \in DOMAIN names |-> Swapped(names[i], old, new)]
RewriteStep(step, old, new) ==
    CASE step.do = "locate_table" -> Locate(NoName, EachSwapped(step.mustHave, old, new))
      [] step.do = "create_derived_column" -> [step EXCEPT !.at = Swapped(@, old, new), !.names = EachSwapped(@, old, new)]
      [] step.do = "apply_formula" -> [step EXCEPT !.names = EachSwapped(@, old, new)]
      [] step.do \in {"fill_range", "filter_rows"} -> [step EXCEPT !.column = Swapped(@, old, new)]
      [] step.do = "reconcile_totals" -> [step EXCEPT !.left = Swapped(@, old, new), !.right = Swapped(@, old, new)]
      [] OTHER -> step
Rewrite(plan, old, new) == [i \in DOMAIN plan |-> RewriteStep(plan[i], old, new)]

(* No plan, or the plan and how sure it is, in hundredths. *)
NoPlan == [plan |-> <<>>, confidence |-> 0]
Proposal(plan, confidence) == [plan |-> plan, confidence |-> confidence]

Instantiate(policy, table) ==
    LET bound == Bindings(policy.slots, table)
        new == [i \in DOMAIN bound |-> bound[i].header]
    IN IF \E i \in DOMAIN bound : bound[i] = Unbound THEN NoPlan
       ELSE Proposal(Rewrite(policy.representative, SlotsOf(policy.representative), new),
                     IF \A i \in DOMAIN bound : bound[i].byName THEN 90 ELSE 50)

(* Policies are asked in the order of their support, the ones that share no *)
(* word with the request left out; which of two alike comes first is their  *)
(* alphabet's choice, any of them here.                                     *)
Fits(policy, ctx) ==
    /\ policy.keywords # {} => policy.keywords \cap ToSet(ctx.instruction) # {}
    /\ Instantiate(policy, ctx.table) # NoPlan

Memo(policies, ctx) ==
    LET fitting == {p \in policies : Fits(p, ctx)} IN
    IF ctx.feedback \/ fitting = {} THEN NoPlan
    ELSE Instantiate(CHOOSE p \in fitting : \A q \in fitting : q.support <= p.support, ctx.table)

----------------------------------------------------------------------------
(* The planner of a few phrases.                                            *)

OperatorWords == {"times", "plus", "minus"}
Commutative == {"times", "plus"}
Marker == "add"

At(words, S) == {i \in DOMAIN words : words[i] \in S}

(* The column after "add", in the table or not. *)
OutputHeader(words) ==
    LET markers == {i \in At(words, {Marker}) : i < Len(words)} IN
    IF markers = {} THEN NoName ELSE words[Min(markers) + 1]

(* What a column is called when no name is given for it. *)
Unnamed == "result"

(* The operands nearest the operator word, both of them headers. *)
NamedOperands(words, at, headers) ==
    LET left == {i \in At(words, headers) : i < at}
        right == {i \in At(words, headers) : i > at}
    IN IF left = {} \/ right = {} THEN <<>> ELSE <<words[Max(left)], words[Min(right)]>>

(* The only two number columns, in the table's order. *)
InferredOperands(word, table, headers) ==
    LET numbers == {i \in DOMAIN table : /\ table[i].header \in headers
                                         /\ \E j \in DOMAIN table : table[j].header = table[i].header /\ table[j].type = "number"}
    IN IF word \in Commutative /\ Cardinality(numbers) = 2
       THEN <<table[Min(numbers)].header, table[Max(numbers)].header>> ELSE <<>>

Rules(ctx) ==
    LET words == ctx.instruction
        headers == Headers(ctx.table)
        output == OutputHeader(words)
        operands == ToSet(headers) \ {output}
        operators == At(words, OperatorWords)
        word == words[Min(operators)]
        named == NamedOperands(words, Min(operators), operands)
        chosen == IF named # <<>> THEN named ELSE InferredOperands(word, ctx.table, operands)
        made == IF output = NoName THEN Unnamed ELSE output
        at == IF Contains(headers, made) THEN made ELSE "nextFree"
        fillable == At(words, ToSet(headers))
        located == Locate("here", headers)
    IN IF ctx.feedback \/ headers = <<>> THEN NoPlan
       ELSE IF operators # {} /\ chosen = <<>> THEN NoPlan
       ELSE IF operators # {} THEN Proposal(<<located, Derived(made, at, word, chosen), Export>>, IF named # <<>> THEN 85 ELSE 55)
       ELSE IF Contains(words, "fill") /\ fillable # {} THEN
                Proposal(<<located, Filled(words[Min(fillable)]), Export>>, 80)
       ELSE NoPlan

----------------------------------------------------------------------------
(* The router.                                                              *)

NoCalls == [fast |-> 0, slow |-> 0, belowThreshold |-> 0, escalated |-> 0]

(* What the fast and the slow planner would answer, and who is asked. *)
Route(fast, slow, threshold, feedback, stats) ==
    CASE feedback -> [plan |-> slow, stats |-> [stats EXCEPT !.slow = @ + 1, !.escalated = @ + 1]]
      [] ~feedback /\ fast # NoPlan /\ fast.confidence >= threshold ->
            [plan |-> fast, stats |-> [stats EXCEPT !.fast = @ + 1]]
      [] ~feedback /\ fast # NoPlan /\ fast.confidence < threshold ->
            [plan |-> slow, stats |-> [stats EXCEPT !.slow = @ + 1, !.belowThreshold = @ + 1]]
      [] OTHER -> [plan |-> slow, stats |-> [stats EXCEPT !.slow = @ + 1]]

----------------------------------------------------------------------------
(* What it is sure of.                                                      *)

(* A policy put to a table is a plan of its own shape over columns of the   *)
(* table, a different one in every slot, and sure of itself exactly when    *)
(* each of them has been in its slot before.  It makes the column it made   *)
(* before; a table that has one by that name is left out, for there it does *)
(* so too, against memory.rs:225-228.                                       *)
FitsTheTable(policy, table) ==
    LET proposal == Instantiate(policy, table)
        slots == SlotsOf(proposal.plan)
    IN proposal # NoPlan =>
        /\ Shape(proposal.plan) = policy.shape
        /\ Len(slots) = Len(policy.slots)
        /\ ToSet(slots) \subseteq ToSet(Headers(table))
        /\ proposal.confidence = 90 <=> \A i \in DOMAIN slots : Contains(policy.slots[i], slots[i])
        /\ ~Contains(Headers(table), policy.output) => OutputOf(proposal.plan) = policy.output

(* What was learnt from one run is that run's plan where its columns are.   *)
Repeats(outcome, table) ==
    LET policies == Policies(Remembered(<<outcome>>), 1) IN
    /\ Worth(outcome) <=> policies # {}
    /\ \A policy \in policies :
        ToSet(SlotsOf(outcome.plan)) \subseteq ToSet(Headers(table)) =>
            Instantiate(policy, table) = Proposal(Rewrite(outcome.plan, <<>>, <<>>), 90)

(* A rule's plan reads columns of the table, and a subtraction those that   *)
(* were named.  It reads the column it makes, and writes over it, only when *)
(* no name was given for that one and the table has an unnamed one already: *)
(* policy.rs:88 says that it never does, but takes out of the columns to    *)
(* read only the one that was asked for.                                    *)
OnlyUnnamedAreReadAgain(ctx) ==
    LET proposal == Rules(ctx)
        asked == OutputHeader(ctx.instruction)
    IN \A i \in DOMAIN proposal.plan :
        proposal.plan[i].do = "create_derived_column" =>
            LET step == proposal.plan[i] IN
            /\ ToSet(step.names) \subseteq ToSet(Headers(ctx.table))
            /\ step.header \in ToSet(step.names) =>
                    asked = NoName /\ step.header = Unnamed /\ step.at = Unnamed
            /\ step.fn = "minus" => ToSet(step.names) \subseteq ToSet(ctx.instruction)
            /\ step.at # "nextFree" => Contains(Headers(ctx.table), step.at)

(* What the router answers a run of requests, and what it counts of them:   *)
(* the memory of some plans, then the expensive planner, here the rules.    *)
Context(said, table, feedback) == [instruction |-> said, table |-> table, feedback |-> feedback]
Asked(library, ctx, threshold, stats) ==
    Route(Memo(Policies(library, 1), ctx), Rules(ctx), threshold, ctx.feedback, stats)

Counted(library, said, table, threshold, refused) ==
    LET after[n \in 0..Len(refused)] ==
            IF n = 0 THEN NoCalls ELSE Asked(library, Context(said, table, refused[n]), threshold, after[n - 1]).stats
    IN after[Len(refused)]

IsAnswered(stats, threshold, feedback, answer) ==
    /\ answer.stats.fast > stats.fast => ~feedback /\ answer.plan.confidence >= threshold
    /\ feedback => answer.plan = NoPlan

IsCounted(stats, refused) ==
    /\ stats.fast + stats.slow = Len(refused)
    /\ stats.escalated = Cardinality({n \in DOMAIN refused : refused[n]})
    /\ stats.belowThreshold <= stats.slow - stats.escalated

RouterCounts(library, said, table, threshold, refused) ==
    LET stats == Counted(library, said, table, threshold, refused) IN
    /\ IsCounted(stats, refused)
    /\ \A feedback \in BOOLEAN :
        IsAnswered(stats, threshold, feedback, Asked(library, Context(said, table, feedback), threshold, stats))
=============================================================================
