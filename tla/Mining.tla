-------------------------------- MODULE Mining --------------------------------
(***************************************************************************)
(* Finding the patterns of a log (miner/mine.rs), what each would have      *)
(* saved (score.rs) and the routines they are proposed as (routine.rs,      *)
(* lib.rs).  The patterns come in the code in an order that is a matter of  *)
(* presentation; here they are sets.  An occurrence is its first step and   *)
(* the one after its last.                                                  *)
(***************************************************************************)
EXTENDS Gestures

CONSTANTS
    MinSupport, MaxLength, GapTolerance, MinLength,     \* MineConfig
    MinSaved        \* tenths of a second below which nothing is proposed (1200 in the code)

Window(s, from, length) == SubSeq(s, from, from + length - 1)
TokensOf(steps) == [i \in DOMAIN steps |-> steps[i].token]

(* The stretches of steps of one session. *)
SessionSpans(steps) ==
    LET begins == {i \in DOMAIN steps : i = 1 \/ steps[i - 1].session # steps[i].session} IN
    {<<b, Min({Len(steps) + 1} \cup {i \in begins : i > b})>> : b \in begins}

----------------------------------------------------------------------------
(* Loops.                                                                   *)

IsPrimitive(word) ==
    ~ \E d \in 1..(Len(word) - 1) :
        Len(word) % d = 0 /\ \A k \in (d + 1)..Len(word) : word[k] = word[k - d]

(* How many times the word at i is repeated back to back. *)
Repetitions(tokens, i, period) ==
    LET Repeated(reps) == \A k \in i..(i + period * (reps - 1) - 1) : tokens[k] = tokens[k + period] IN
    Max({reps \in 1..((Len(tokens) + 1 - i) \div period) : Repeated(reps)})

(* One place of the scan: the word of this period that begins here is a     *)
(* loop if it is no shorter word repeated, comes again at once, and none of *)
(* the steps of its whole run is in a loop already.                         *)
Scan(tokens, state, i, period) ==
    IF i \in state.taken \/ ~IsPrimitive(Window(tokens, i, period)) THEN state
    ELSE LET reps == Repetitions(tokens, i, period)
             run == i..(i + period * reps - 1)
         IN IF reps < 2 \/ run \cap state.taken # {} THEN state
            ELSE [taken |-> state.taken \cup run,
                  found |-> state.found \cup {[tokens |-> Window(tokens, i, period), first |-> i, support |-> reps]}]

(* The loops of one session, longest period first. *)
RunsWithin(tokens) ==
    LET longest == Min({MaxLength, Len(tokens) \div 2})
        AtPeriod(state, period) ==
            FoldLeft(LAMBDA st, i : Scan(tokens, st, i, period), state, [i \in 1..(Len(tokens) + 1 - 2 * period) |-> i])
    IN FoldLeft(AtPeriod, [taken |-> {}, found |-> {}], [k \in 1..longest |-> longest + 1 - k]).found

Pattern(tokens, support, occurrences, kind) ==
    [tokens |-> tokens, support |-> support, occurrences |-> occurrences, kind |-> kind]

(* The loops of the log, each session's its own. *)
TandemRepeats(steps) ==
    LET all == TokensOf(steps)
        InSpan(span) ==
            {Pattern(run.tokens, run.support,
                     {<<span[1] - 1 + run.first + Len(run.tokens) * r, span[1] - 1 + run.first + Len(run.tokens) * (r + 1)>>
                        : r \in 0..(run.support - 1)}, "loop")
                : run \in RunsWithin(SubSeq(all, span[1], span[2] - 1))}
    IN {p \in UNION {InSpan(span) : span \in SessionSpans(steps)} : Len(p.tokens) >= MinLength \/ p.support >= MinSupport}

(* The same loop in several sittings is one loop. *)
MergeLoops(found) ==
    {LET same == {p \in found : p.tokens = word} IN
     Pattern(word, FoldSet(LAMBDA p, n : n + p.support, 0, same), UNION {p.occurrences : p \in same}, "loop")
        : word \in {p.tokens : p \in found}}

----------------------------------------------------------------------------
(* Recurring patterns.  A step that a loop explains is never part of one,   *)
(* and still takes up its place.                                            *)

Stretch(from, upto) == from..(upto - 1)
WithinGap(span, at) == Stretch(at, Min({at + GapTolerance + 1, span[2]}))

(* Where the next step of a pattern may be found in a session that has been *)
(* matched up to "at".                                                      *)
Reach(span, prefix, at) == IF prefix = <<>> THEN Stretch(at, span[2]) ELSE WithinGap(span, at)

(* A prefix is grown by every token that follows it in enough sessions.  Of *)
(* each session the search keeps the first place where the token follows.   *)
Grown(steps, explained, g) ==
    LET Follows(span, token) ==
            {i \in Reach(span, g.tokens, g.at[span]) : i \notin explained /\ steps[i].token = token}
        Hit(token) == {span \in DOMAIN g.at : Follows(span, token) # {}}
        candidates == {steps[i].token : i \in DOMAIN steps \ explained}
    IN {[tokens |-> Append(g.tokens, t), at |-> [span \in Hit(t) |-> Min(Follows(span, t)) + 1]]
            : t \in {t \in candidates : Cardinality(Hit(t)) >= MinSupport}}

(* All that is grown, length by length. *)
Frequent(steps, explained) ==
    LET spans == SessionSpans(steps)
        seed == [tokens |-> <<>>, at |-> [span \in spans |-> span[1]]]
        level[n \in 0..MaxLength] ==
            IF n = 0 THEN {seed} ELSE UNION {Grown(steps, explained, g) : g \in level[n - 1]}
    IN IF Cardinality(spans) < MinSupport THEN {}
       ELSE UNION {level[n] : n \in Max({MinLength, 1})..MaxLength}

(* The first match at or after "from": the earliest beginning from which    *)
(* the rest is found, each step the next there is within the gap.           *)
At(steps, explained, i, token) == i \notin explained /\ steps[i].token = token

MatchAt(steps, explained, span, word, start) ==
    LET Step(m, token) ==
            LET next == IF m = None THEN {} ELSE {i \in WithinGap(span, m[2]) : At(steps, explained, i, token)} IN
            IF next = {} THEN None ELSE <<m[1], Min(next) + 1>>
    IN FoldLeft(Step, <<start, start + 1>>, Tail(word))

MatchFrom(steps, explained, span, word, from) ==
    LET starts == {i \in Stretch(from, span[2]) : At(steps, explained, i, word[1])}
        matches == {MatchAt(steps, explained, span, word, i) : i \in starts} \ {None}
    IN IF matches = {} THEN None ELSE CHOOSE m \in matches : \A other \in matches : m[1] <= other[1]

(* Matches one after the other that do not overlap. *)
Matches(steps, explained, span, word) ==
    LET found[n \in 0..(span[2] - span[1])] ==
            LET after == IF n = 0 THEN <<0, span[1]>> ELSE found[n - 1] IN
            IF after = None THEN None ELSE MatchFrom(steps, explained, span, word, after[2])
    IN Range(found) \ {None}

OccurrencesOf(steps, explained, word) == UNION {Matches(steps, explained, span, word) : span \in SessionSpans(steps)}

IsSubsequence(needle, hay) ==
    LET Step(i, h) == IF i <= Len(needle) /\ needle[i] = h THEN i + 1 ELSE i IN
    FoldLeft(Step, 1, hay) = Len(needle) + 1

(* Only what is part of no longer pattern is kept. *)
PrefixSpan(steps, explained) ==
    LET out == Frequent(steps, explained)
        maximal == {g \in out : ~ \E h \in out : Len(h.tokens) > Len(g.tokens) /\ IsSubsequence(g.tokens, h.tokens)}
    IN {Pattern(g.tokens, Cardinality(DOMAIN g.at), OccurrencesOf(steps, explained, g.tokens), "recurring") : g \in maximal}

Covered(patterns) == UNION {Stretch(o[1], o[2]) : o \in UNION {p.occurrences : p \in patterns}}

(* Mutant: what the loops explain is evidence of a habit as well. *)
MineBoth(steps, loops) == loops \cup PrefixSpan(steps, {})

MineBesides(steps, loops) ==
    loops \cup {p \in PrefixSpan(steps, Covered(loops)) : \A l \in loops : l.tokens # p.tokens}

MineAll(steps) == MineBesides(steps, MergeLoops(TandemRepeats(steps)))

----------------------------------------------------------------------------
(* Scores, in tenths of a second.                                           *)

ReviewTime == 80
RunTime == 15

ManualSeconds(p) == FoldSeq(LAMBDA token, n : n + ManualTime(token), 0, p.tokens)

Saved(p) ==
    LET times == IF p.kind = "loop" THEN p.support ELSE Max({Cardinality(p.occurrences), p.support}) IN
    Max({0, Max({0, ManualSeconds(p) - RunTime}) * times - ReviewTime})

Ranked(patterns) == {p \in patterns : Saved(p) >= MinSaved}

----------------------------------------------------------------------------
(* Routines.                                                                *)

NoRoutine == [id |-> <<>>]

(* What one step adds: an action that was done, or a value to ask for.      *)
Taken(r, built) ==
    CASE built.is = "action" ->
            [r EXCEPT !.anchor = IF @ = None THEN PrimaryAddr(built.action) ELSE @, !.actions = Append(@, built.action)]
      [] built.is = "missing" ->
            LET base == IF r.anchor = None THEN built.addr ELSE r.anchor IN
            [r EXCEPT !.anchor = base,
                      !.requires = Append(@, [by |-> <<built.addr[1] - base[1], built.addr[2] - base[2]>>, kind |-> built.kind])]
      [] OTHER -> r

Anchored(r) == IF r.actions = <<>> THEN NoRoutine ELSE [r EXCEPT !.anchor = IF @ = None THEN <<1, 1>> ELSE @]

(* The routine of the last occurrence: its steps turned back into actions,  *)
(* and what they lack into requirements, placed from the first cell that is *)
(* touched.  There is none of nothing that can be done.                     *)
Synthesize(p, steps, events) ==
    LET last == CHOOSE o \in p.occurrences : \A other \in p.occurrences : other[1] <= o[1] IN
    Anchored(FoldLeft(LAMBDA r, step : Taken(r, Rebuild(events[step.source].event)),
                      [id |-> p.tokens, actions |-> <<>>, requires |-> <<>>, anchor |-> None,
                       support |-> p.support, saved |-> Saved(p), kind |-> p.kind],
                      SubSeq(steps, last[1], last[2] - 1)))

(* The whole pipeline. *)
Proposed(steps, events) == {Synthesize(p, steps, events) : p \in Ranked(MineAll(steps))} \ {NoRoutine}
MineRoutines(events) == Proposed(Normalize(events), events)
=============================================================================
