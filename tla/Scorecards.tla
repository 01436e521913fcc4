------------------------------ MODULE Scorecards ------------------------------
(***************************************************************************)
(* Scoring a policy over a corpus and deciding whether to release it        *)
(* (agent/eval.rs).                                                         *)
(*                                                                          *)
(* What a run of one task leaves is a record: whether it passed, its graded *)
(* checks in order, or none when it was not graded, and what it cost.  The  *)
(* wall clock is left out; it gates nothing.                                *)
(***************************************************************************)
EXTENDS Integers, Sequences, FiniteSets

Check(kind, passed) == [kind |-> kind, passed |-> passed]

(* Checks that state a property of the answer rather than its value. *)
InvariantKinds == {"sums_match", "no_errors", "sheets_exist"}

Count(seq, Test(_)) == Cardinality({i \in DOMAIN seq : Test(seq[i])})

(* A run that was not graded has no violations either. *)
Score(task, result) ==
    LET checks == IF result.graded THEN result.checks ELSE <<>> IN
    [task |-> task.id,
     origin |-> task.origin,
     passed |-> result.graded /\ \A i \in DOMAIN checks : checks[i].passed,
     checksPassed |-> Count(checks, LAMBDA c : c.passed),
     checksTotal |-> IF result.graded THEN Len(checks) ELSE task.checks,
     forbidden |-> Count(checks, LAMBDA c : ~c.passed /\ c.kind = "unchanged"),
     invariants |-> Count(checks, LAMBDA c : ~c.passed /\ c.kind \in InvariantKinds),
     incidental |-> IF result.graded THEN result.incidental ELSE 0,
     replans |-> result.replans,
     calls |-> result.calls]

(* What the tasks come to, one after the other. *)
Total(scores, what) ==
    LET upTo[n \in 0..Len(scores)] == IF n = 0 THEN 0 ELSE upTo[n - 1] + scores[n][what]
    IN upTo[Len(scores)]

Scorecard(version, corpus, results) ==
    LET scores == [i \in DOMAIN corpus |-> Score(corpus[i], results[i])]
    IN [version |-> version,
        passed |-> Count(scores, LAMBDA s : s.passed),
        forbidden |-> Total(scores, "forbidden"),
        invariants |-> Total(scores, "invariants"),
        incidental |-> Total(scores, "incidental"),
        touching |-> Count(scores, LAMBDA s : s.incidental > 0),
        replans |-> Total(scores, "replans"),
        calls |-> Total(scores, "calls"),
        scores |-> scores]

PassedOf(card) == {card.scores[i].task : i \in {j \in DOMAIN card.scores : card.scores[j].passed}}
FailedOf(card) == {card.scores[i].task : i \in {j \in DOMAIN card.scores : ~card.scores[j].passed}}
PassedFrom(card, origin) == Count(card.scores, LAMBDA s : s.origin = origin /\ s.passed)
Origins(card) == {card.scores[i].origin : i \in DOMAIN card.scores}

Worse(incumbent, candidate) ==
    {what \in {"touching", "incidental", "forbidden", "invariants"} : candidate[what] > incumbent[what]}

(* Mutant: what used to pass and now fails is left to the totals. *)
HeldByTotals(incumbent, candidate) ==
    Worse(incumbent, candidate) # {} \/ candidate.passed < incumbent.passed

(* Any one reason holds the release back. *)
Held(incumbent, candidate) ==
    \/ Worse(incumbent, candidate) # {}
    \/ candidate.passed < incumbent.passed
    \/ PassedOf(incumbent) \cap FailedOf(candidate) # {}
    \/ \E o \in Origins(incumbent) \cap Origins(candidate) : PassedFrom(candidate, o) < PassedFrom(incumbent, o)

(* What it may be released for. *)
Improved(incumbent, candidate) ==
    \/ candidate.passed > incumbent.passed
    \/ \E what \in {"calls", "replans", "incidental"} : candidate[what] < incumbent[what]

Promoted(incumbent, candidate) ==
    /\ incumbent.version = candidate.version
    /\ ~Held(incumbent, candidate)
    /\ Improved(incumbent, candidate)

(* What is in use when candidates come one after the other. *)
InUse(cards) ==
    LET after[n \in 1..Len(cards)] ==
            IF n > 1 /\ ~Promoted(after[n - 1], cards[n]) THEN after[n - 1] ELSE cards[n]
    IN after[Len(cards)]
=============================================================================
