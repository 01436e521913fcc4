----------------------------- MODULE Trials_proofs -----------------------------
(***************************************************************************)
(* The ledgers keep their promises among all the trials: no other trial is  *)
(* taken for one of them.  Releases ratchet, over any corpus; the calendar  *)
(* agrees with itself, whatever it is asked; plans fit the tables they are  *)
(* put to, whatever they were learnt from; and the lookups and the criteria *)
(* find what they promise, in any lines.                                    *)
(***************************************************************************)
EXTENDS Trials, Ledgers_proofs

(* Every trial says what it is of, and what becomes a limiter, a table of   *)
(* routines or a page was one before, or is new: a step of its ledger made  *)
(* it so.  Releases are tried at once.                                      *)
LEMMA TrialsStayApart ==
    ASSUME IsNamed, [Next]_vars
    PROVE  \/ UNCHANGED trial
           \/ LedgerStep
           \/ /\ IsNamed' /\ trial'.of # "limiter" /\ trial'.of # "store" /\ trial'.of # "page"
              /\ trial'.of = "releases" => TryReleases
              /\ trial'.of = "time" => TryTime
              /\ trial'.of = "moves" => TryMoves
              /\ trial'.of = "library" => TryLibrary
              /\ trial'.of = "router" => TryRouter
              /\ trial'.of = "lookup" => TryLookup
              /\ trial'.of = "wildcard" => TryWildcard
              /\ trial'.of = "offset" => TryOffset
              /\ trial'.of = "criteria" => TryCriteria
<1>1. CASE UNCHANGED trial
  BY <1>1
<1>2. CASE LedgerStep
  BY <1>2
<1> DEFINE Other == /\ "of" \in DOMAIN trial' /\ trial'.of # "limiter" /\ trial'.of # "store" /\ trial'.of # "page"
                    /\ trial'.of = "releases" => TryReleases
                    /\ trial'.of = "time" => TryTime
                    /\ trial'.of = "moves" => TryMoves
                    /\ trial'.of = "library" => TryLibrary
                    /\ trial'.of = "router" => TryRouter
                    /\ trial'.of = "lookup" => TryLookup
                    /\ trial'.of = "wildcard" => TryWildcard
                    /\ trial'.of = "offset" => TryOffset
                    /\ trial'.of = "criteria" => TryCriteria
<1>3. CASE TryReleases \/ TryLog \/ TryFile \/ TryCorrection
  <2>1. TryReleases => Other
    BY DEF TryReleases
  <2>2. TryLog => Other
    BY DEF TryLog
  <2>3. TryFile => Other
    BY DEF TryFile
  <2>4. TryCorrection => Other
    BY DEF TryCorrection
  <2> QED
    BY <1>3, <2>1, <2>2, <2>3, <2>4 DEF IsNamed
<1>4. CASE TryGrading \/ TryVariant \/ TryLibrary \/ TryRouter
  <2>1. TryGrading => Other
    BY DEF TryGrading
  <2>2. TryVariant => Other
    BY DEF TryVariant
  <2>3. TryLibrary => Other
    <3>1. TryLibrary => "of" \in DOMAIN trial' /\ trial'.of = "library"
      BY DEF TryLibrary
    <3> QED
      BY <3>1
  <2>4. TryRouter => Other
    <3>1. TryRouter => "of" \in DOMAIN trial' /\ trial'.of = "router"
      BY DEF TryRouter
    <3> QED
      BY <3>1
  <2> QED
    BY <1>4, <2>1, <2>2, <2>3, <2>4 DEF IsNamed
<1>5. CASE TryLookup \/ TryWildcard \/ TryOffset \/ TryCriteria
  <2>1. TryLookup => Other
    <3>1. TryLookup => "of" \in DOMAIN trial' /\ trial'.of = "lookup"
      BY DEF TryLookup
    <3> QED
      BY <3>1
  <2>2. TryWildcard => Other
    <3>1. TryWildcard => "of" \in DOMAIN trial' /\ trial'.of = "wildcard"
      BY DEF TryWildcard
    <3> QED
      BY <3>1
  <2>3. TryOffset => Other
    <3>1. TryOffset => "of" \in DOMAIN trial' /\ trial'.of = "offset"
      BY DEF TryOffset
    <3> QED
      BY <3>1
  <2>4. TryCriteria => Other
    <3>1. TryCriteria => "of" \in DOMAIN trial' /\ trial'.of = "criteria"
      BY DEF TryCriteria
    <3> QED
      BY <3>1
  <2> QED
    BY <1>5, <2>1, <2>2, <2>3, <2>4 DEF IsNamed
<1>6. CASE TryArray \/ TrySplit \/ TryDates \/ TryMoves \/ TryTime
  <2>1. TryArray => Other
    BY DEF TryArray
  <2>2. TrySplit => Other
    BY DEF TrySplit
  <2>3. TryDates => Other
    BY DEF TryDates
  <2>4. TryMoves => Other
    BY DEF TryMoves
  <2>5. TryTime => Other
    <3>1. TryTime => "of" \in DOMAIN trial' /\ trial'.of = "time"
      BY DEF TryTime
    <3> QED
      BY <3>1
  <2>6. Other
    <3> HIDE DEF Other
    <3> QED
      BY <1>6, <2>1, <2>2, <2>3, <2>4, <2>5
  <2> QED
    BY <2>6 DEF IsNamed
<1> QED
  BY <1>1, <1>2, <1>3, <1>4, <1>5, <1>6 DEF Next, vars

(* Every trial says what it is of, from the first. *)
LEMMA AllAreNamed == Spec => []IsNamed
<1>1. Init => IsNamed
  BY DEF Init, Nothing, IsNamed
<1>2. ASSUME IsNamed, [Next]_vars
      PROVE  IsNamed'
  <2>1. CASE UNCHANGED trial
    BY <1>2, <2>1 DEF IsNamed
  <2>2. CASE LedgerStep
    BY <1>2, <2>2, LedgersStayApart
  <2> QED
    BY <1>2, <2>1, <2>2, TrialsStayApart
<1>3. IsNamed /\ [Next]_vars => IsNamed'
  BY <1>2
<1> QED
  BY <1>1, <1>3, PTL DEF Spec

(* Each caller is granted what it held, what its time brought and what it   *)
(* was let off, and no more; who leaves time enough is never refused; and   *)
(* the table keeps its bound, giving up the oldest of those in debt: for    *)
(* any number of callers and requests, in any order of their readings.      *)
THEOREM LimitsAlwaysHold == Spec => []LimitsHold
<1>1. Init => LimiterIsFair
  BY DEF Init, Nothing, LimiterIsFair
<1>2. ASSUME IsNamed, LimiterIsFair, [Next]_vars
      PROVE  LimiterIsFair'
  <2>1. CASE UNCHANGED trial
    BY <1>2, <2>1 DEF LimiterIsFair
  <2>2. CASE LedgerStep
    BY <1>2, <2>2, LimiterStaysFair
  <2>3. CASE trial'.of # "limiter" /\ trial'.of # "store" /\ trial'.of # "page"
    BY <2>3 DEF LimiterIsFair
  <2> QED
    BY <1>2, <2>1, <2>2, <2>3, TrialsStayApart
<1>3. LimiterIsFair => LimitsHold
  BY FairLimiterHolds
<1>4. IsNamed /\ LimiterIsFair /\ [Next]_vars => LimiterIsFair'
  BY <1>2
<1> QED
  BY <1>1, <1>3, <1>4, AllAreNamed, PTL DEF Spec

(* What a user has answered stays answered, but for an answer that comes    *)
(* between a run's reading of stale proposals and their deletion; a run     *)
(* that is over has left its actors' routines and no other proposal of      *)
(* theirs; and it fails only for a routine that two actors have: for any    *)
(* nights, groups and routines.                                             *)
THEOREM AnswersAlwaysStay == Spec => []AnswersStay
<1>1. Init => StoreStaysSound
  BY DEF Init, Nothing, StoreStaysSound
<1>2. ASSUME IsNamed, StoreStaysSound, [Next]_vars
      PROVE  StoreStaysSound'
  <2>1. CASE UNCHANGED trial
    BY <1>2, <2>1 DEF StoreStaysSound
  <2>2. CASE LedgerStep
    BY <1>2, <2>2, StoreKeptSound
  <2>3. CASE trial'.of # "limiter" /\ trial'.of # "store" /\ trial'.of # "page"
    BY <2>3 DEF StoreStaysSound
  <2> QED
    BY <1>2, <2>1, <2>2, <2>3, TrialsStayApart
<1>3. StoreStaysSound => AnswersStay
  BY SoundStoreAnswers
<1>4. IsNamed /\ StoreStaysSound /\ [Next]_vars => StoreStaysSound'
  BY <1>2
<1> QED
  BY <1>1, <1>3, <1>4, AllAreNamed, PTL DEF Spec

(* The ids of a page ascend and the export gives its events in their order, *)
(* whatever its clock does; the sessions the server derives cut them into   *)
(* runs, whatever order it takes those of one time in; and when the clock   *)
(* is not set back they are the page's own: for any readings, any random    *)
(* fields and any number of events.                                         *)
THEOREM StampsAlwaysAgree == Spec => []StampsAgree
<1>1. Init => PageIsOrderly
  BY DEF Init, Nothing, PageIsOrderly
<1>2. ASSUME IsNamed, PageIsOrderly, [Next]_vars
      PROVE  PageIsOrderly'
  <2>1. CASE UNCHANGED trial
    BY <1>2, <2>1 DEF PageIsOrderly
  <2>2. CASE LedgerStep
    BY <1>2, <2>2, PageKeptOrderly
  <2>3. CASE trial'.of # "limiter" /\ trial'.of # "store" /\ trial'.of # "page"
    BY <2>3 DEF PageIsOrderly
  <2> QED
    BY <1>2, <2>1, <2>2, <2>3, TrialsStayApart
<1>3. PageIsOrderly => StampsAgree
  BY OrderlyPageAgrees
<1>4. IsNamed /\ PageIsOrderly /\ [Next]_vars => PageIsOrderly'
  BY <1>2
<1> QED
  BY <1>1, <1>3, <1>4, AllAreNamed, PTL DEF Spec

----------------------------------------------------------------------------
(* Releases.                                                                *)

(* Some of the first numbers are counted by one. *)
LEMMA CountIsNat ==
    ASSUME NEW n \in Nat, NEW S, S \subseteq 1..n
    PROVE  R!Cardinality(S) \in Nat
<1>1. IsFiniteSet(S)
  <2>1. IsFiniteSet(1..n)
    BY FS_Interval
  <2> QED
    BY <2>1, FS_Subset
<1>2. Cardinality(S) \in Nat
  BY <1>1, FS_CardinalityType
<1>3. R!Cardinality(S) = Cardinality(S)
  BY DEF R!Cardinality, Cardinality
<1> QED
  BY <1>2, <1>3

(* The total of counts is one. *)
LEMMA TotalIsNat ==
    ASSUME NEW scores, Len(scores) \in Nat, NEW what, \A i \in 1..Len(scores) : scores[i][what] \in Nat
    PROVE  R!Total(scores, what) \in Nat
<1> DEFINE len == Len(scores)
           Rec(g, m) == g = [n \in 0..m |-> IF n = 0 THEN 0 ELSE g[n - 1] + scores[n][what]]
           Good == {m \in Nat : \E g : Rec(g, m)}
<1>1. 0 \in Good
  <2>1. Rec([n \in 0..0 |-> 0], 0)
    OBVIOUS
  <2> QED
    BY <2>1
<1>2. ASSUME NEW m \in Nat, m \in Good
      PROVE  m + 1 \in Good
  <2>1. PICK g : Rec(g, m)
    BY <1>2
  <2> DEFINE h == [n \in 0..(m + 1) |-> IF n = 0 THEN 0 ELSE g[n - 1] + scores[n][what]]
  <2>2. \A n \in 0..m : h[n] = g[n]
    BY <2>1
  <2>3. \A n \in 0..(m + 1) : n # 0 => n - 1 \in 0..m /\ h[n - 1] = g[n - 1]
    <3>1. \A n \in 0..(m + 1) : n # 0 => n - 1 \in 0..m
      OBVIOUS
    <3> HIDE DEF h
    <3> QED
      BY <2>2, <3>1
  <2>4. Rec(h, m + 1)
    BY <2>3
  <2> HIDE DEF h
  <2>5. \E x : Rec(x, m + 1)
    BY <2>4
  <2> QED
    BY <2>5
<1>3. len \in Good
  <2> HIDE DEF Good
  <2>1. \A k \in 0..(len - 1) : k \in Good => k + 1 \in Good
    BY <1>2
  <2>2. 0..len \subseteq Good
    BY <1>1, <2>1, GoesOn
  <2> QED
    BY <2>2
<1>4. PICK g : Rec(g, len) /\ R!Total(scores, what) = g[len]
  BY <1>3 DEF R!Total
<1> DEFINE S == {m \in 0..len : g[m] \in Nat}
<1>5. 0 \in S
  BY <1>4
<1>6. ASSUME NEW k \in 0..(len - 1), k \in S
      PROVE  k + 1 \in S
  <2>1. k + 1 \in 1..len /\ (k + 1) - 1 = k
    OBVIOUS
  <2>2. g[k + 1] = g[k] + scores[k + 1][what]
    BY <1>4, <2>1
  <2>3. g[k] \in Nat /\ scores[k + 1][what] \in Nat
    BY <1>6, <2>1
  <2> QED
    BY <2>1, <2>2, <2>3
<1> HIDE DEF S
<1>7. 0..len \subseteq S
  BY <1>5, <1>6, GoesOn
<1>8. len \in S
  BY <1>7
<1> QED
  BY <1>4, <1>8 DEF S

(* What a scorecard of the corpus is: counts, and a score for each task. *)
IsCard(card) ==
    /\ {card.passed, card.touching, card.incidental, card.forbidden, card.invariants, card.replans, card.calls} \subseteq Nat
    /\ DOMAIN card.scores = DOMAIN Corpus
    /\ \A i \in DOMAIN Corpus : card.scores[i].task = Corpus[i].id /\ card.scores[i].origin = Corpus[i].origin

(* The results of a corpus are scored so. *)
LEMMA ScorecardIsCard ==
    ASSUME NEW version, NEW results \in [DOMAIN Corpus -> Results]
    PROVE  IsCard(R!Scorecard(version, Corpus, results))
<1> DEFINE len == Len(Corpus)
           scores == [i \in 1..len |-> R!Score(Corpus[i], results[i])]
           card == R!Scorecard(version, Corpus, results)
<1>1. len \in Nat /\ DOMAIN Corpus = 1..len
  BY ResultsAssumption
<1>2. ASSUME NEW i \in 1..len
      PROVE  /\ scores[i].task = Corpus[i].id /\ scores[i].origin = Corpus[i].origin
             /\ scores[i]["forbidden"] \in Nat /\ scores[i]["invariants"] \in Nat /\ scores[i]["incidental"] \in Nat
             /\ scores[i]["replans"] \in Nat /\ scores[i]["calls"] \in Nat
  <2> DEFINE result == results[i]
             checks == IF result.graded THEN result.checks ELSE <<>>
  <2>1. result \in Results
    BY <1>1, <1>2
  <2>2. Len(checks) \in Nat /\ DOMAIN checks = 1..Len(checks)
    BY <2>1, ResultsAssumption
  <2>3. result.incidental \in Nat /\ result.replans \in Nat /\ result.calls \in Nat
    BY <2>1, ResultsAssumption
  <2>4. R!Count(checks, LAMBDA c : ~c.passed /\ c.kind = "unchanged") \in Nat
    <3> HIDE DEF checks
    <3> QED
      BY <2>2, CountIsNat DEF R!Count
  <2>5. R!Count(checks, LAMBDA c : ~c.passed /\ c.kind \in R!InvariantKinds) \in Nat
    <3> HIDE DEF checks
    <3> QED
      BY <2>2, CountIsNat DEF R!Count
  <2>6. scores[i] = R!Score(Corpus[i], result)
    BY <1>2
  <2> HIDE DEF scores, result
  <2> QED
    BY <2>3, <2>4, <2>5, <2>6 DEF R!Score
<1>3. card = [version |-> version,
              passed |-> R!Count(scores, LAMBDA s : s.passed),
              forbidden |-> R!Total(scores, "forbidden"),
              invariants |-> R!Total(scores, "invariants"),
              incidental |-> R!Total(scores, "incidental"),
              touching |-> R!Count(scores, LAMBDA s : s.incidental > 0),
              replans |-> R!Total(scores, "replans"),
              calls |-> R!Total(scores, "calls"),
              scores |-> scores]
  BY <1>1 DEF R!Scorecard
<1>4. Len(scores) = len /\ DOMAIN scores = 1..len
  BY <1>1
<1> HIDE DEF scores
<1>5. R!Count(scores, LAMBDA s : s.passed) \in Nat /\ R!Count(scores, LAMBDA s : s.incidental > 0) \in Nat
  BY <1>1, <1>4, CountIsNat DEF R!Count
<1>6. /\ R!Total(scores, "forbidden") \in Nat /\ R!Total(scores, "invariants") \in Nat
      /\ R!Total(scores, "incidental") \in Nat
      /\ R!Total(scores, "replans") \in Nat /\ R!Total(scores, "calls") \in Nat
  BY <1>1, <1>2, <1>4, TotalIsNat
<1> HIDE DEF card
<1> QED
  BY <1>1, <1>2, <1>3, <1>4, <1>5, <1>6 DEF IsCard, card

(* What passed in one scorecard has passed or failed in any other. *)
LEMMA PassedOrFailed ==
    ASSUME NEW one, IsCard(one), NEW other, IsCard(other), R!PassedOf(one) \cap R!FailedOf(other) = {}
    PROVE  R!PassedOf(one) \subseteq R!PassedOf(other)
<1> SUFFICES ASSUME NEW task \in R!PassedOf(one) PROVE task \in R!PassedOf(other)
  OBVIOUS
<1>1. PICK i \in DOMAIN Corpus : one.scores[i].passed /\ one.scores[i].task = task
  BY DEF R!PassedOf, IsCard
<1>2. other.scores[i].task = task /\ i \in DOMAIN other.scores
  BY <1>1 DEF IsCard
<1>3. other.scores[i].passed
  BY <1>2 DEF R!FailedOf
<1> QED
  BY <1>2, <1>3 DEF R!PassedOf

(* No reason to hold the one back is one to hold back the other. *)
IsNoWorse(incumbent, candidate) ==
    /\ candidate.touching <= incumbent.touching /\ candidate.incidental <= incumbent.incidental
    /\ candidate.forbidden <= incumbent.forbidden /\ candidate.invariants <= incumbent.invariants
    /\ candidate.passed >= incumbent.passed
    /\ R!PassedOf(incumbent) \cap R!FailedOf(candidate) = {}
    /\ \A origin \in R!Origins(incumbent) : R!PassedFrom(candidate, origin) >= R!PassedFrom(incumbent, origin)

(* Scorecards of a corpus have its origins, and count for each of them. *)
LEMMA OriginsAlike ==
    ASSUME NEW card, IsCard(card)
    PROVE  /\ R!Origins(card) = {Corpus[i].origin : i \in DOMAIN Corpus}
           /\ \A origin : R!PassedFrom(card, origin) \in Nat
<1>1. R!Origins(card) = {Corpus[i].origin : i \in DOMAIN Corpus}
  BY DEF R!Origins, IsCard
<1>2. ASSUME NEW origin PROVE R!PassedFrom(card, origin) \in Nat
  <2>1. DOMAIN card.scores = 1..Len(Corpus) /\ Len(Corpus) \in Nat
    BY ResultsAssumption DEF IsCard
  <2> QED
    BY <2>1, CountIsNat DEF R!PassedFrom, R!Count
<1> QED
  BY <1>1, <1>2

(* A release that is not held back is no worse. *)
LEMMA NotHeldIsNoWorse ==
    ASSUME NEW one, IsCard(one), NEW other, IsCard(other)
    PROVE  ~R!Held(one, other) <=> IsNoWorse(one, other)
<1>1. /\ one.passed \in Nat /\ one.touching \in Nat /\ one.incidental \in Nat /\ one.forbidden \in Nat /\ one.invariants \in Nat
      /\ other.passed \in Nat /\ other.touching \in Nat /\ other.incidental \in Nat /\ other.forbidden \in Nat
      /\ other.invariants \in Nat
  BY DEF IsCard
<1>2. R!Worse(one, other) = {} <=>
        /\ other.touching <= one.touching /\ other.incidental <= one.incidental
        /\ other.forbidden <= one.forbidden /\ other.invariants <= one.invariants
  <2>1. R!Worse(one, other) = {} <=>
            /\ ~(other["touching"] > one["touching"]) /\ ~(other["incidental"] > one["incidental"])
            /\ ~(other["forbidden"] > one["forbidden"]) /\ ~(other["invariants"] > one["invariants"])
    BY DEF R!Worse
  <2> QED
    BY <1>1, <2>1
<1>3. (~\E o \in R!Origins(one) \cap R!Origins(other) : R!PassedFrom(other, o) < R!PassedFrom(one, o))
        <=> \A o \in R!Origins(one) : R!PassedFrom(other, o) >= R!PassedFrom(one, o)
  BY OriginsAlike
<1> QED
  BY <1>1, <1>2, <1>3 DEF R!Held, IsNoWorse

(* What is no worse than what is no worse, is no worse. *)
LEMMA NoWorseGoesOn ==
    ASSUME NEW one, IsCard(one), NEW other, IsCard(other), NEW third, IsCard(third),
           IsNoWorse(one, other), IsNoWorse(other, third)
    PROVE  IsNoWorse(one, third)
<1>1. /\ one.passed \in Nat /\ one.touching \in Nat /\ one.incidental \in Nat /\ one.forbidden \in Nat /\ one.invariants \in Nat
      /\ other.passed \in Nat /\ other.touching \in Nat /\ other.incidental \in Nat /\ other.forbidden \in Nat
      /\ other.invariants \in Nat
      /\ third.passed \in Nat /\ third.touching \in Nat /\ third.incidental \in Nat /\ third.forbidden \in Nat
      /\ third.invariants \in Nat
  BY DEF IsCard
<1>2. /\ third.touching <= one.touching /\ third.incidental <= one.incidental
      /\ third.forbidden <= one.forbidden /\ third.invariants <= one.invariants
      /\ third.passed >= one.passed
  BY <1>1 DEF IsNoWorse
<1>3. R!PassedOf(one) \cap R!FailedOf(third) = {}
  <2>1. R!PassedOf(one) \subseteq R!PassedOf(other)
    BY PassedOrFailed DEF IsNoWorse
  <2> QED
    BY <2>1 DEF IsNoWorse
<1>4. ASSUME NEW o \in R!Origins(one)
      PROVE  R!PassedFrom(third, o) >= R!PassedFrom(one, o)
  <2>1. o \in R!Origins(other)
    BY OriginsAlike
  <2>2. R!PassedFrom(other, o) >= R!PassedFrom(one, o) /\ R!PassedFrom(third, o) >= R!PassedFrom(other, o)
    BY <2>1 DEF IsNoWorse
  <2>3. R!PassedFrom(one, o) \in Nat /\ R!PassedFrom(other, o) \in Nat /\ R!PassedFrom(third, o) \in Nat
    BY OriginsAlike
  <2> QED
    BY <2>2, <2>3
<1> QED
  BY <1>2, <1>3, <1>4 DEF IsNoWorse

(* However many candidates come, what is in use is the first or no worse. *)
LEMMA InUseRatchets ==
    ASSUME NEW cards, Len(cards) \in Nat \ {0}, \A i \in 1..Len(cards) : IsCard(cards[i])
    PROVE  /\ IsCard(R!InUse(cards))
           /\ R!InUse(cards) = cards[1] \/ IsNoWorse(cards[1], R!InUse(cards))
<1> DEFINE len == Len(cards)
           Rec(g, m) == g = [n \in 1..m |-> IF n > 1 /\ ~R!Promoted(g[n - 1], cards[n]) THEN g[n - 1] ELSE cards[n]]
           Good == {m \in Nat : \E g : Rec(g, m)}
<1>1. 1 \in Good
  <2>1. Rec([n \in 1..1 |-> cards[1]], 1)
    OBVIOUS
  <2> QED
    BY <2>1
<1>2. ASSUME NEW m \in Nat \ {0}, m \in Good
      PROVE  m + 1 \in Good
  <2>1. PICK g : Rec(g, m)
    BY <1>2
  <2> DEFINE h == [n \in 1..(m + 1) |-> IF n > 1 /\ ~R!Promoted(g[n - 1], cards[n]) THEN g[n - 1] ELSE cards[n]]
  <2>2. \A n \in 1..m : h[n] = g[n]
    BY <2>1
  <2>3. \A n \in 1..(m + 1) : n > 1 => n - 1 \in 1..m /\ h[n - 1] = g[n - 1]
    <3>1. \A n \in 1..(m + 1) : n > 1 => n - 1 \in 1..m
      OBVIOUS
    <3> HIDE DEF h
    <3> QED
      BY <2>2, <3>1
  <2>4. Rec(h, m + 1)
    BY <2>3
  <2> HIDE DEF h
  <2>5. \E x : Rec(x, m + 1)
    BY <2>4
  <2> QED
    BY <2>5
<1>3. len \in Good
  <2> HIDE DEF Good
  <2>1. \A k \in 1..(len - 1) : k \in Good => k + 1 \in Good
    BY <1>2
  <2>2. 1..len \subseteq Good
    BY <1>1, <2>1, GoesOn
  <2> QED
    BY <2>2
<1>4. PICK g : Rec(g, len) /\ R!InUse(cards) = g[len]
  BY <1>3 DEF R!InUse
<1> DEFINE S == {m \in 1..len : IsCard(g[m]) /\ (g[m] = cards[1] \/ IsNoWorse(cards[1], g[m]))}
<1>5. 1 \in S
  <2>1. g[1] = cards[1]
    BY <1>4
  <2> QED
    BY <2>1
<1>6. ASSUME NEW k \in 1..(len - 1), k \in S
      PROVE  k + 1 \in S
  <2>1. k + 1 \in 1..len /\ (k + 1) - 1 = k /\ k + 1 > 1 /\ 1 \in 1..len
    OBVIOUS
  <2>2. g[k + 1] = IF ~R!Promoted(g[k], cards[k + 1]) THEN g[k] ELSE cards[k + 1]
    BY <1>4, <2>1
  <2>3. IsCard(g[k]) /\ (g[k] = cards[1] \/ IsNoWorse(cards[1], g[k])) /\ IsCard(cards[k + 1]) /\ IsCard(cards[1])
    BY <1>6, <2>1
  <2>4. R!Promoted(g[k], cards[k + 1]) => IsNoWorse(g[k], cards[k + 1])
    BY <2>3, NotHeldIsNoWorse DEF R!Promoted
  <2>5. R!Promoted(g[k], cards[k + 1]) => IsNoWorse(cards[1], cards[k + 1])
    BY <2>3, <2>4, NoWorseGoesOn
  <2> QED
    BY <2>1, <2>2, <2>3, <2>5
<1> HIDE DEF S
<1>7. 1..len \subseteq S
  BY <1>5, <1>6, GoesOn
<1>8. len \in S
  BY <1>7
<1> QED
  BY <1>4, <1>8 DEF S

(* Two that are released over each other differ in what they ask, and the   *)
(* other way in what they are refused.                                      *)
LEMMA BothWaysTradeOff ==
    ASSUME NEW one, IsCard(one), NEW other, IsCard(other), R!Promoted(one, other), R!Promoted(other, one)
    PROVE  (one.calls - other.calls) * (one.replans - other.replans) < 0
<1>1. /\ one.passed \in Nat /\ one.incidental \in Nat /\ one.replans \in Nat /\ one.calls \in Nat
      /\ other.passed \in Nat /\ other.incidental \in Nat /\ other.replans \in Nat /\ other.calls \in Nat
  BY DEF IsCard
<1>2. IsNoWorse(one, other) /\ IsNoWorse(other, one)
  BY NotHeldIsNoWorse DEF R!Promoted
<1>3. one.passed = other.passed /\ one.incidental = other.incidental
  BY <1>1, <1>2 DEF IsNoWorse
<1>4. other["calls"] < one["calls"] \/ other["replans"] < one["replans"]
  BY <1>1, <1>3 DEF R!Promoted, R!Improved
<1>5. one["calls"] < other["calls"] \/ one["replans"] < other["replans"]
  BY <1>1, <1>3 DEF R!Promoted, R!Improved
<1> DEFINE a == one.calls - other.calls
           b == one.replans - other.replans
<1>6. a \in Int /\ b \in Int /\ ((a > 0 /\ b < 0) \/ (a < 0 /\ b > 0))
  BY <1>1, <1>4, <1>5
<1> HIDE DEF a, b
<1>7. a * b < 0
  BY <1>6
<1> QED
  BY <1>7 DEF a, b

(* Three releases, each with its results over the corpus. *)
AreScored == trial.of = "releases" => trial.results \in [1..3 -> [DOMAIN Corpus -> Results]]

(* Releases of one corpus ratchet. *)
LEMMA ScoredRatchet ==
    ASSUME AreScored
    PROVE  ReleasesRatchet
<1> SUFFICES ASSUME trial.of = "releases"
             PROVE  LET cards == [i \in 1..3 |-> R!Scorecard("v", Corpus, trial.results[i])]
                        now == R!InUse(cards)
                    IN /\ R!PassedOf(cards[1]) \subseteq R!PassedOf(now)
                       /\ now.incidental <= cards[1].incidental /\ now.touching <= cards[1].touching
                       /\ now.forbidden <= cards[1].forbidden
                       /\ R!Promoted(cards[1], cards[2]) /\ R!Promoted(cards[2], cards[1]) =>
                            (cards[1].calls - cards[2].calls) * (cards[1].replans - cards[2].replans) < 0
                       /\ R!Promoted(cards[1], cards[2]) /\ R!Promoted(cards[2], cards[3]) => ~R!Held(cards[1], cards[3])
  BY DEF ReleasesRatchet, Trying
<1> DEFINE cards == [i \in 1..3 |-> R!Scorecard("v", Corpus, trial.results[i])]
           now == R!InUse(cards)
<1>1. Len(cards) = 3 /\ \A i \in 1..3 : IsCard(cards[i])
  <2>1. \A i \in 1..3 : trial.results[i] \in [DOMAIN Corpus -> Results]
    BY DEF AreScored
  <2>2. \A i \in 1..3 : IsCard(R!Scorecard("v", Corpus, trial.results[i]))
    BY <2>1, ScorecardIsCard
  <2> QED
    BY <2>2
<1> HIDE DEF cards
<1>2. IsCard(cards[1]) /\ IsCard(cards[2]) /\ IsCard(cards[3])
  BY <1>1
<1>3. IsCard(now) /\ (now = cards[1] \/ IsNoWorse(cards[1], now))
  BY <1>1, InUseRatchets
<1>4. R!PassedOf(cards[1]) \subseteq R!PassedOf(now)
  BY <1>2, <1>3, PassedOrFailed DEF IsNoWorse
<1>5. now.incidental <= cards[1].incidental /\ now.touching <= cards[1].touching /\ now.forbidden <= cards[1].forbidden
  <2>1. cards[1].incidental \in Nat /\ cards[1].touching \in Nat /\ cards[1].forbidden \in Nat
    BY <1>2 DEF IsCard
  <2> HIDE DEF now
  <2> QED
    BY <1>3, <2>1 DEF IsNoWorse
<1>6. R!Promoted(cards[1], cards[2]) /\ R!Promoted(cards[2], cards[1]) =>
        (cards[1].calls - cards[2].calls) * (cards[1].replans - cards[2].replans) < 0
  BY <1>2, BothWaysTradeOff
<1>7. R!Promoted(cards[1], cards[2]) /\ R!Promoted(cards[2], cards[3]) => ~R!Held(cards[1], cards[3])
  <2> SUFFICES ASSUME R!Promoted(cards[1], cards[2]), R!Promoted(cards[2], cards[3])
               PROVE  ~R!Held(cards[1], cards[3])
    OBVIOUS
  <2>1. IsNoWorse(cards[1], cards[2]) /\ IsNoWorse(cards[2], cards[3])
    BY <1>2, NotHeldIsNoWorse DEF R!Promoted
  <2>2. IsNoWorse(cards[1], cards[3])
    BY <1>2, <2>1, NoWorseGoesOn
  <2> QED
    BY <1>2, <2>2, NotHeldIsNoWorse
<1> QED
  BY <1>4, <1>5, <1>6, <1>7 DEF cards

(* What is in use is the first release or one no worse: it passes all that  *)
(* the first passed and touches no more of what nobody asked about; nothing *)
(* is held back by what was in between; and two releases take turns only    *)
(* where one asks less and the other is refused less: for any corpus and    *)
(* any results.                                                             *)
THEOREM ReleasesAlwaysRatchet == Spec => []ReleasesRatchet
<1>1. Init => AreScored
  BY DEF Init, Nothing, AreScored
<1>2. ASSUME IsNamed, AreScored, [Next]_vars
      PROVE  AreScored'
  <2>1. CASE UNCHANGED trial
    BY <1>2, <2>1 DEF AreScored
  <2>2. CASE LedgerStep
    BY <1>2, <2>2, LedgersStayApart DEF AreScored
  <2>3. CASE trial'.of # "releases"
    BY <2>3 DEF AreScored
  <2>4. CASE TryReleases
    BY <2>4 DEF TryReleases, AreScored
  <2> QED
    BY <1>2, <2>1, <2>2, <2>3, <2>4, TrialsStayApart
<1>3. AreScored => ReleasesRatchet
  BY ScoredRatchet
<1>4. IsNamed /\ AreScored /\ [Next]_vars => AreScored'
  BY <1>2
<1> QED
  BY <1>1, <1>3, <1>4, AllAreNamed, PTL DEF Spec

----------------------------------------------------------------------------
(* The calendar among the trials.                                           *)

(* What is asked of the calendar: a time of parts that are not below zero,  *)
(* and moves from a serial or the one next to the last or before the first. *)
AreAsked ==
    /\ Trying("time") =>
        trial.h \in Nat /\ trial.m \in Nat /\ trial.s \in Nat /\ trial.half \in {"none", "AM", "PM"}
    /\ Trying("moves") => trial.from \in 0..(LastSerial + 1) /\ trial.months \in Int /\ trial.days \in Int

(* A time is asked as it should be. *)
LEMMA TimesAreAsked ==
    ASSUME TryTime
    PROVE  AreAsked'
BY DEF TryTime, AreAsked, Trying

(* And a move is. *)
LEMMA MovesAreAsked ==
    ASSUME TryMoves
    PROVE  AreAsked'
BY TrialsAssumption DEF TryMoves, AreAsked, Trying

(* The calendar answers what is asked of it. *)
LEMMA AskedAgree ==
    ASSUME AreAsked
    PROVE  CalendarAgrees
<1>1. Trying("dates") => SerialIsItsDate(trial.from) /\ DifferencesAgree(trial.from, trial.to)
  BY SerialsAreTheirDates, DifferencesAlwaysAgree
<1>2. Trying("dates") => FractionsAgree(trial.from, trial.to)
  BY FractionsAlwaysAgree
<1>3. Trying("time") => TimesAgree(trial.h, trial.m, trial.s, trial.half)
  BY TimesAlwaysAgree DEF AreAsked
<1>4. Trying("moves") => MonthsAgree(trial.from, trial.months) /\ WorkdaysAgree(trial.from, trial.days, Holidays)
  BY MonthsAlwaysAgree, WorkdaysAlwaysAgree DEF AreAsked
<1> QED
  BY <1>1, <1>2, <1>3, <1>4 DEF CalendarAgrees

(* The calendar is one calendar: serials and dates are the same days but    *)
(* for the day that never was, differences and fractions of years add up,   *)
(* written times are the times of their parts, and moves by months and by   *)
(* working days arrive where counting says: for every serial, any number of *)
(* months and days, and any holidays.                                       *)
THEOREM CalendarAlwaysAgrees == Spec => []CalendarAgrees
<1>1. Init => AreAsked
  BY DEF Init, Nothing, AreAsked, Trying
<1>2. ASSUME IsNamed, AreAsked, [Next]_vars
      PROVE  AreAsked'
  <2>1. CASE UNCHANGED trial
    BY <1>2, <2>1 DEF AreAsked, Trying
  <2>2. CASE LedgerStep
    BY <1>2, <2>2, LedgersStayApart DEF AreAsked, Trying
  <2>3. CASE trial'.of # "time" /\ trial'.of # "moves"
    BY <2>3 DEF AreAsked, Trying
  <2>4. CASE TryTime
    BY <2>4, TimesAreAsked
  <2>5. CASE TryMoves
    BY <2>5, MovesAreAsked
  <2> QED
    BY <1>2, <2>1, <2>2, <2>3, <2>4, <2>5, TrialsStayApart
<1>3. AreAsked => CalendarAgrees
  BY AskedAgree
<1>4. IsNamed /\ AreAsked /\ [Next]_vars => AreAsked'
  BY <1>2
<1> QED
  BY <1>1, <1>3, <1>4, AllAreNamed, PTL DEF Spec

----------------------------------------------------------------------------
(* Plans among the trials.                                                  *)

(* What the library and the router are given: outcomes of runs, and a table *)
(* with its columns; words, and for each request whether it was refused.    *)
PlansAreGiven ==
    /\ Trying("library") =>
        /\ IsSequence(trial.outcomes) /\ 1 \in DOMAIN trial.outcomes
        /\ \A n \in DOMAIN trial.outcomes : IsOutcome(trial.outcomes[n])
        /\ AreColumns(trial.table)
    /\ Trying("router") =>
        /\ AreColumns(trial.table) /\ IsSequence(trial.said) /\ IsSequence(trial.refused)
        /\ \A n \in DOMAIN trial.refused : trial.refused[n] \in BOOLEAN

(* The library is. *)
LEMMA LibrariesAreGiven ==
    ASSUME TryLibrary
    PROVE  PlansAreGiven'
<1>1. PICK first \in Outcomes, second \in Outcomes, table \in Tables :
        trial' = [of |-> "library", outcomes |-> <<first, second>>, table |-> table]
  BY DEF TryLibrary
<1>2. IsOutcome(first) /\ IsOutcome(second) /\ AreColumns(table)
  BY PlansAssumption
<1> DEFINE outcomes == <<first, second>>
<1>3. IsSequence(outcomes) /\ DOMAIN outcomes = {1, 2} /\ outcomes[1] = first /\ outcomes[2] = second
  BY DEF IsSequence
<1>4. trial'.of = "library" /\ trial'.outcomes = outcomes /\ trial'.table = table
  BY <1>1
<1> HIDE DEF outcomes
<1>5. \A n \in DOMAIN outcomes : IsOutcome(outcomes[n])
  BY <1>2, <1>3
<1> QED
  BY <1>2, <1>3, <1>4, <1>5 DEF PlansAreGiven, Trying

(* And the router is. *)
LEMMA RoutersAreGiven ==
    ASSUME TryRouter
    PROVE  PlansAreGiven'
<1>1. PICK outcome \in Outcomes, table \in Tables, said \in Instructions, threshold \in Thresholds,
           refused \in Upto(2, BOOLEAN) :
        trial' = [of |-> "router", library |-> Remembered(<<outcome>>), table |-> table, said |-> said,
                  threshold |-> threshold, refused |-> refused]
  BY DEF TryRouter
<1>2. IsSequence(said) /\ AreColumns(table)
  BY PlansAssumption
<1>3. PICK k \in 0..2 : refused \in [1..k -> BOOLEAN]
  BY DEF Upto
<1>4. IsSequence(refused) /\ DOMAIN refused = 1..k
  <2>1. k \in Nat /\ refused = [i \in 1..k |-> refused[i]]
    BY <1>3
  <2> QED
    BY <2>1, ListIsSequence
<1>5. \A n \in DOMAIN refused : refused[n] \in BOOLEAN
  BY <1>3
<1>6. trial'.of = "router" /\ trial'.table = table /\ trial'.said = said /\ trial'.refused = refused
  BY <1>1
<1> QED
  BY <1>2, <1>4, <1>5, <1>6 DEF PlansAreGiven, Trying

(* What is learnt from the outcomes fits the table, and the router counts.  *)
LEMMA GivenPlansFit ==
    ASSUME PlansAreGiven
    PROVE  PlansFit
<1>1. ASSUME Trying("library")
      PROVE  /\ \A minSupport \in 1..2 :
                    \A policy \in Policies(Remembered(trial.outcomes), minSupport) : FitsTheTable(policy, trial.table)
             /\ Repeats(trial.outcomes[1], trial.table)
  <2> DEFINE outcomes == trial.outcomes
             table == trial.table
             library == Remembered(outcomes)
             first == outcomes[1]
  <2>1. /\ IsSequence(outcomes) /\ AreColumns(table) /\ IsOutcome(first)
        /\ \A n \in DOMAIN outcomes : IsOutcome(outcomes[n])
    BY <1>1 DEF PlansAreGiven
  <2> HIDE DEF outcomes, table, first
  <2>2. IsLibrary(library)
    BY <2>1, RememberedIs
  <2> HIDE DEF library
  <2>3. ASSUME NEW minSupport \in 1..2, NEW policy \in Policies(library, minSupport)
        PROVE  FitsTheTable(policy, table)
    <3>1. PICK plan : IsPlan(plan) /\ IsPolicyOf(policy, plan)
      BY <2>2, PoliciesAre
    <3> QED
      BY <2>1, <3>1, PolicyFits
  <2>4. Repeats(first, table)
    BY <2>1, OneRepeats
  <2> QED
    BY <2>3, <2>4 DEF outcomes, table, library, first
<1>2. ASSUME Trying("router")
      PROVE  /\ RouterCounts(trial.library, trial.said, trial.table, trial.threshold, trial.refused)
             /\ OnlyUnnamedAreReadAgain(Context(trial.said, trial.table, FALSE))
  <2> DEFINE library == trial.library
             said == trial.said
             table == trial.table
             threshold == trial.threshold
             refused == trial.refused
             ctx == Context(said, table, FALSE)
  <2>1. AreColumns(table) /\ IsSequence(said) /\ IsSequence(refused) /\ \A n \in DOMAIN refused : refused[n] \in BOOLEAN
    BY <1>2 DEF PlansAreGiven
  <2> HIDE DEF library, said, table, threshold, refused
  <2>2. RouterCounts(library, said, table, threshold, refused)
    BY <2>1, RouterIs
  <2>3. ctx.instruction = said /\ ctx.table = table
    BY DEF Context
  <2> HIDE DEF ctx
  <2>4. OnlyUnnamedAreReadAgain(ctx)
    BY <2>1, <2>3, RulesRead
  <2> QED
    BY <2>2, <2>4 DEF library, said, table, threshold, refused, ctx
<1> QED
  BY <1>1, <1>2 DEF PlansFit

(* What the agent has learnt is what it did: a policy put to a table keeps  *)
(* its shape and binds different columns of it, and is sure exactly when    *)
(* each has been in its slot before; a run repeated is the same plan; the   *)
(* rules make no column they were asked for of itself; and the router's     *)
(* counts are of the requests it had, a cheap answer being sure enough and  *)
(* of nothing refused: for any plans, tables, words and thresholds.         *)
THEOREM PlansAlwaysFit == Spec => []PlansFit
<1>1. Init => PlansAreGiven
  BY DEF Init, Nothing, PlansAreGiven, Trying
<1>2. ASSUME IsNamed, PlansAreGiven, [Next]_vars
      PROVE  PlansAreGiven'
  <2>1. CASE UNCHANGED trial
    BY <1>2, <2>1 DEF PlansAreGiven, Trying
  <2>2. CASE LedgerStep
    BY <1>2, <2>2, LedgersStayApart DEF PlansAreGiven, Trying
  <2>3. CASE trial'.of # "library" /\ trial'.of # "router"
    BY <2>3 DEF PlansAreGiven, Trying
  <2>4. CASE TryLibrary
    BY <2>4, LibrariesAreGiven
  <2>5. CASE TryRouter
    BY <2>5, RoutersAreGiven
  <2> QED
    BY <1>2, <2>1, <2>2, <2>3, <2>4, <2>5, TrialsStayApart
<1>3. PlansAreGiven => PlansFit
  BY GivenPlansFit
<1>4. IsNamed /\ PlansAreGiven /\ [Next]_vars => PlansAreGiven'
  BY <1>2
<1> QED
  BY <1>1, <1>3, <1>4, AllAreNamed, PTL DEF Spec

----------------------------------------------------------------------------
(* Wildcards.                                                               *)

(* The places of a pattern of n and a text of m.                            *)
Spots(n, m) ==
    {at \in [p : 1..(n + 1), t : 1..(m + 1), star : 0..n, resume : 1..(m + 1)] : at.resume <= at.t}

(* A pattern has its stars, what the others take of the text, and where the *)
(* next of each is; what is left of it from each place matches what is left *)
(* of the text from some places.                                            *)
IsPattern(n, m, stars, takes, next) ==
    /\ n \in Nat /\ m \in Nat /\ stars \subseteq 1..n /\ takes \subseteq (1..n) \X (1..m)
    /\ next \in [1..n -> 2..(n + 1)]
    /\ \A p \in 1..n : next[p] > p /\ (p \in stars => next[p] = p + 1)

EndsFit(n, m, fits) == \A t \in 1..(m + 1) : <<n + 1, t>> \in fits <=> t = m + 1
StarsFit(m, stars, fits) ==
    \A p \in stars : \A t \in 1..(m + 1) : <<p, t>> \in fits <=> \E u \in t..(m + 1) : <<p + 1, u>> \in fits
OthersFit(n, m, stars, takes, next, fits) ==
    \A p \in (1..n) \ stars : \A t \in 1..(m + 1) :
        <<p, t>> \in fits <=> <<p, t>> \in takes /\ <<next[p], t + 1>> \in fits
LeavesAlike(n, m, stars, takes, next, fits) ==
    /\ fits \subseteq (1..(n + 1)) \X (1..(m + 1))
    /\ EndsFit(n, m, fits) /\ StarsFit(m, stars, fits) /\ OthersFit(n, m, stars, takes, next, fits)

(* The places the greedy search wins from.                                  *)
IsGreedy(W, n, m, stars, takes, next) ==
    \A at \in Spots(n, m) :
        at \in W <=>
            IF at.t > m THEN at.p..n \subseteq stars
            ELSE IF at.p \in stars THEN L!Starred(at) \in W
            ELSE IF <<at.p, at.t>> \in takes THEN L!Passed(at, next[at.p] - at.p) \in W
            ELSE at.star # 0 /\ L!Retried(at) \in W

(* A search that goes on from place to place and stops at some of them,     *)
(* having won or lost, has places it wins from.                             *)
IsWon(W, S, goes, wins, next) ==
    \A at \in S : at \in W <=> IF at \in goes THEN next[at] \in W ELSE at \in wins

(* There are: all that some such places of their own win.                   *)
LEMMA SomeWin ==
    ASSUME NEW S, NEW goes, NEW wins, NEW next
    PROVE  \E W \in SUBSET S : IsWon(W, S, goes, wins, next)
<1> DEFINE F(Y) == {at \in S : IF at \in goes THEN next[at] \in Y ELSE at \in wins}
           W == UNION {Y \in SUBSET S : Y \subseteq F(Y)}
<1>1. W \subseteq F(W)
  <2> SUFFICES ASSUME NEW Y \in SUBSET S, Y \subseteq F(Y)
               PROVE  Y \subseteq F(W)
    OBVIOUS
  <2>1. Y \subseteq W
    OBVIOUS
  <2> HIDE DEF W
  <2> QED
    BY <2>1
<1>2. F(W) \subseteq F(F(W))
  <2> HIDE DEF W
  <2> QED
    BY <1>1
<1>3. F(W) \subseteq W
  <2>1. F(W) \in SUBSET S
    <3> HIDE DEF W
    <3> QED
      OBVIOUS
  <2> HIDE DEF F
  <2> QED
    BY <1>2, <2>1
<1>4. W \in SUBSET S
  OBVIOUS
<1> HIDE DEF W
<1>5. IsWon(W, S, goes, wins, next)
  BY <1>1, <1>3 DEF IsWon
<1> QED
  BY <1>4, <1>5

(* The rest of a pattern matches nothing more if it is all stars.           *)
LEMMA StarsMatchNothing ==
    ASSUME NEW n, NEW m, NEW stars, NEW takes, NEW next, IsPattern(n, m, stars, takes, next),
           NEW fits, LeavesAlike(n, m, stars, takes, next, fits),
           NEW p \in 1..(n + 1)
    PROVE  <<p, m + 1>> \in fits <=> p..n \subseteq stars
<1>0. n \in Nat /\ m \in Nat /\ m + 1 \in 1..(m + 1) /\ stars \subseteq 1..n
  BY DEF IsPattern
<1> DEFINE Fails == {k \in 0..n : ~(<<n + 1 - k, m + 1>> \in fits <=> (n + 1 - k)..n \subseteq stars)}
<1>1. Fails = {}
  <2> SUFFICES ASSUME Fails # {} PROVE FALSE
    OBVIOUS
  <2>1. Fails \subseteq Nat
    BY <1>0
  <2> HIDE DEF Fails
  <2>2. PICK k \in Fails : \A j \in Fails : k <= j
    BY <2>1, LeastNumber
  <2> USE DEF Fails
  <2>3. k \in 0..n
    BY <2>2
  <2>4. k # 0
    <3> SUFFICES ASSUME k = 0 PROVE FALSE
      OBVIOUS
    <3>1. <<n + 1, m + 1>> \in fits
      BY <1>0 DEF LeavesAlike, EndsFit, StarsFit, OthersFit
    <3>2. n + 1 - k = n + 1 /\ (n + 1)..n = {}
      BY <1>0
    <3> QED
      BY <2>2, <3>1, <3>2
  <2> DEFINE q == n + 1 - k
  <2>5. q \in 1..n /\ q + 1 = n + 1 - (k - 1) /\ k - 1 \in 0..n /\ k - 1 < k
    BY <1>0, <2>3, <2>4
  <2>6. k - 1 \notin Fails
    <3> HIDE DEF Fails
    <3> QED
      BY <1>0, <2>1, <2>2, <2>3, <2>5
  <2>7. <<q + 1, m + 1>> \in fits <=> (q + 1)..n \subseteq stars
    BY <2>5, <2>6
  <2>8. q..n = {q} \cup (q + 1)..n
    BY <1>0, <2>5
  <2>9. ~(<<q, m + 1>> \in fits <=> q..n \subseteq stars)
    BY <2>2
  <2> HIDE DEF q, Fails
  <2>10. CASE q \in stars
    <3>1. <<q, m + 1>> \in fits <=> \E u \in (m + 1)..(m + 1) : <<q + 1, u>> \in fits
      BY <1>0, <2>10 DEF LeavesAlike, EndsFit, StarsFit, OthersFit
    <3>2. \A u \in (m + 1)..(m + 1) : u = m + 1
      BY <1>0
    <3> QED
      BY <1>0, <2>7, <2>8, <2>9, <2>10, <3>1, <3>2
  <2>11. CASE q \notin stars
    <3>1. <<q, m + 1>> \notin takes
      <4>1. takes \subseteq (1..n) \X (1..m) /\ m + 1 \notin 1..m
        BY <1>0 DEF IsPattern
      <4> QED
        BY <4>1
    <3>2. <<q, m + 1>> \notin fits
      BY <1>0, <2>5, <2>11, <3>1 DEF LeavesAlike, EndsFit, StarsFit, OthersFit
    <3> QED
      BY <2>8, <2>9, <2>11, <3>2
  <2> QED
    BY <2>10, <2>11
<1>2. n + 1 - p \in 0..n /\ n + 1 - (n + 1 - p) = p
  BY <1>0
<1> QED
  BY <1>1, <1>2

(* The search wins as the star in hand may take more of the text; before    *)
(* any star, as the patterns match here.                                    *)
IsRight(at, W, fits) ==
    at \in W <=> IF at.star = 0 THEN <<at.p, at.t>> \in fits ELSE <<at.star, at.resume>> \in fits

(* What is between the star in hand and here has taken the text since it,   *)
(* and takes the same anywhere.                                             *)
IsHeld(at, m, stars, fits) ==
    at.star # 0 =>
        /\ at.star \in stars
        /\ <<at.star + 1, at.resume>> \in fits <=> <<at.p, at.t>> \in fits
        /\ \A u \in at.resume..(m + 1) :
            <<at.star + 1, u>> \in fits => /\ at.t + (u - at.resume) \in at.t..(m + 1)
                                           /\ <<at.p, at.t + (u - at.resume)>> \in fits

(* What a step over some of the pattern comes to.                           *)
LEMMA PassedIs ==
    ASSUME NEW p, NEW t, NEW star, NEW resume, NEW k
    PROVE  L!Passed([p |-> p, t |-> t, star |-> star, resume |-> resume], k)
           = [p |-> p + k, t |-> t + 1, star |-> star, resume |-> resume]
<1> DEFINE at == [p |-> p, t |-> t, star |-> star, resume |-> resume]
           over == [p |-> p + k, t |-> t, star |-> star, resume |-> resume]
<1>1. at.p = p /\ at.t = t /\ over.t = t
  OBVIOUS
<1>2. [at EXCEPT !.p = p + k] = over
  OBVIOUS
<1>3. [over EXCEPT !.t = t + 1] = [p |-> p + k, t |-> t + 1, star |-> star, resume |-> resume]
  OBVIOUS
<1>4. L!Passed(at, k) = [[at EXCEPT !.p = at.p + k] EXCEPT !.t = at.t + 1]
  BY DEF L!Passed
<1> HIDE DEF at, over
<1>5. L!Passed(at, k) = [over EXCEPT !.t = t + 1]
  BY <1>1, <1>2, <1>4
<1> QED
  BY <1>3, <1>5 DEF at

(* Each step leads to a place.                                              *)
LEMMA PlacesGoOn ==
    ASSUME NEW n, NEW m, NEW stars, NEW takes, NEW next, IsPattern(n, m, stars, takes, next),
           NEW at \in Spots(n, m)
    PROVE  /\ at.p \in stars => L!Starred(at) \in Spots(n, m)
           /\ <<at.p, at.t>> \in takes =>
                /\ next[at.p] \in Int /\ next[at.p] > at.p
                /\ L!Passed(at, next[at.p] - at.p)
                   = [p |-> next[at.p], t |-> at.t + 1, star |-> at.star, resume |-> at.resume]
                /\ L!Passed(at, next[at.p] - at.p) \in Spots(n, m)
           /\ at.t <= m => L!Retried(at) \in Spots(n, m)
<1>0. n \in Nat /\ m \in Nat /\ stars \subseteq 1..n /\ takes \subseteq (1..n) \X (1..m)
  BY DEF IsPattern
<1>1. /\ at.p \in 1..(n + 1) /\ at.t \in 1..(m + 1) /\ at.star \in 0..n /\ at.resume \in 1..(m + 1) /\ at.resume <= at.t
      /\ at = [p |-> at.p, t |-> at.t, star |-> at.star, resume |-> at.resume]
  BY DEF Spots
<1>2. ASSUME at.p \in stars
      PROVE  L!Starred(at) \in Spots(n, m)
  <2>1. /\ L!Starred(at) \in [p : 1..(n + 1), t : 1..(m + 1), star : 0..n, resume : 1..(m + 1)]
        /\ L!Starred(at).resume = at.t /\ L!Starred(at).t = at.t
    BY <1>0, <1>1, <1>2 DEF L!Starred
  <2> QED
    BY <1>1, <2>1 DEF Spots
<1>3. ASSUME <<at.p, at.t>> \in takes
      PROVE  /\ next[at.p] \in Int /\ next[at.p] > at.p
             /\ L!Passed(at, next[at.p] - at.p)
                = [p |-> next[at.p], t |-> at.t + 1, star |-> at.star, resume |-> at.resume]
             /\ L!Passed(at, next[at.p] - at.p) \in Spots(n, m)
  <2>1. at.p \in 1..n /\ at.t \in 1..m
    BY <1>0, <1>3
  <2>2. next[at.p] \in 2..(n + 1) /\ next[at.p] \in Int /\ next[at.p] > at.p
    BY <1>0, <2>1 DEF IsPattern
  <2> DEFINE to == L!Passed(at, next[at.p] - at.p)
  <2>3. to = [p |-> next[at.p], t |-> at.t + 1, star |-> at.star, resume |-> at.resume]
    <3>1. at.p + (next[at.p] - at.p) = next[at.p]
      BY <2>1, <2>2
    <3> QED
      BY <1>1, <3>1, PassedIs
  <2> HIDE DEF to
  <2>4. next[at.p] \in 1..(n + 1) /\ at.t + 1 \in 1..(m + 1) /\ at.resume <= at.t + 1
    BY <1>0, <1>1, <2>1, <2>2
  <2>5. to \in Spots(n, m)
    BY <1>1, <2>3, <2>4 DEF Spots
  <2> QED
    BY <2>2, <2>3, <2>5 DEF to
<1>4. ASSUME at.t <= m
      PROVE  L!Retried(at) \in Spots(n, m)
  <2>1. /\ L!Retried(at) \in [p : 1..(n + 1), t : 1..(m + 1), star : 0..n, resume : 1..(m + 1)]
        /\ L!Retried(at).resume = at.resume + 1 /\ L!Retried(at).t = at.resume + 1
    BY <1>0, <1>1, <1>4 DEF L!Retried
  <2> QED
    BY <1>0, <1>1, <2>1 DEF Spots
<1> QED
  BY <1>2, <1>3, <1>4

(* A new star holds, at its beginning.                                      *)
LEMMA StarredIsHeld ==
    ASSUME NEW n, NEW m, NEW stars, NEW takes, NEW next, IsPattern(n, m, stars, takes, next),
           NEW fits, NEW at \in Spots(n, m), at.p \in stars
    PROVE  L!Starred(at) \in Spots(n, m) /\ IsHeld(L!Starred(at), m, stars, fits)
<1>0. n \in Nat /\ m \in Nat /\ stars \subseteq 1..n
  BY DEF IsPattern
<1>1. /\ at.p \in 1..(n + 1) /\ at.t \in 1..(m + 1) /\ at.star \in 0..n /\ at.resume \in 1..(m + 1) /\ at.resume <= at.t
  BY DEF Spots
<1> DEFINE to == L!Starred(at)
<1>3. to.p = at.p + 1 /\ to.t = at.t /\ to.star = at.p /\ to.resume = at.t
  BY DEF L!Starred
<1> HIDE DEF to
<1>4. \A u \in at.t..(m + 1) : at.t + (u - at.t) = u
  BY <1>0, <1>1
<1>5. IsHeld(to, m, stars, fits)
  BY <1>0, <1>1, <1>3, <1>4 DEF IsHeld
<1>6. to \in Spots(n, m)
  BY PlacesGoOn DEF to
<1> QED
  BY <1>5, <1>6 DEF to

(* What takes a character where it is takes it elsewhere or does not fit.   *)
LEMMA PassedIsHeld ==
    ASSUME NEW n, NEW m, NEW stars, NEW takes, NEW next, IsPattern(n, m, stars, takes, next),
           NEW fits, LeavesAlike(n, m, stars, takes, next, fits), NEW at \in Spots(n, m), at.p \notin stars,
           <<at.p, at.t>> \in takes, IsHeld(at, m, stars, fits)
    PROVE  /\ L!Passed(at, next[at.p] - at.p) \in Spots(n, m)
           /\ IsHeld(L!Passed(at, next[at.p] - at.p), m, stars, fits)
<1>0. n \in Nat /\ m \in Nat /\ stars \subseteq 1..n /\ takes \subseteq (1..n) \X (1..m)
  BY DEF IsPattern
<1>1. /\ at.p \in 1..(n + 1) /\ at.t \in 1..(m + 1) /\ at.star \in 0..n /\ at.resume \in 1..(m + 1) /\ at.resume <= at.t
  BY DEF Spots
<1>2. at.p \in 1..n /\ at.t \in 1..m
  BY <1>0
<1> DEFINE to == L!Passed(at, next[at.p] - at.p)
<1>4. to = [p |-> next[at.p], t |-> at.t + 1, star |-> at.star, resume |-> at.resume]
  BY PlacesGoOn
<1>5. to \in Spots(n, m)
  BY PlacesGoOn
<1> HIDE DEF to
<1>6. /\ \A t \in 1..(m + 1) : <<at.p, t>> \in fits <=> <<at.p, t>> \in takes /\ <<next[at.p], t + 1>> \in fits
      /\ fits \subseteq (1..(n + 1)) \X (1..(m + 1))
  BY <1>0, <1>2 DEF LeavesAlike, EndsFit, StarsFit, OthersFit
<1>7. ASSUME at.star # 0
      PROVE  /\ <<at.star + 1, at.resume>> \in fits <=> <<next[at.p], at.t + 1>> \in fits
             /\ \A u \in at.resume..(m + 1) :
                    <<at.star + 1, u>> \in fits =>
                        /\ (at.t + 1) + (u - at.resume) \in (at.t + 1)..(m + 1)
                        /\ <<next[at.p], (at.t + 1) + (u - at.resume)>> \in fits
  <2>1. <<at.star + 1, at.resume>> \in fits <=> <<next[at.p], at.t + 1>> \in fits
    BY <1>1, <1>6, <1>7 DEF IsHeld
  <2>2. ASSUME NEW u \in at.resume..(m + 1), <<at.star + 1, u>> \in fits
        PROVE  /\ (at.t + 1) + (u - at.resume) \in (at.t + 1)..(m + 1)
               /\ <<next[at.p], (at.t + 1) + (u - at.resume)>> \in fits
    <3> DEFINE v == at.t + (u - at.resume)
    <3>1. v \in at.t..(m + 1) /\ <<at.p, v>> \in fits
      BY <1>7, <2>2 DEF IsHeld
    <3>2. v \in 1..(m + 1) /\ (at.t + 1) + (u - at.resume) = v + 1 /\ at.t <= v
      BY <1>0, <1>1, <3>1
    <3> HIDE DEF v
    <3>3. <<next[at.p], v + 1>> \in fits
      BY <1>6, <3>1, <3>2
    <3>4. v + 1 \in 1..(m + 1)
      BY <1>6, <3>3
    <3>5. v + 1 \in (at.t + 1)..(m + 1)
      BY <1>0, <1>1, <3>2, <3>4
    <3> QED
      BY <3>2, <3>3, <3>5
  <2> QED
    BY <2>1, <2>2
<1>8. IsHeld(to, m, stars, fits)
  BY <1>4, <1>7 DEF IsHeld
<1> QED
  BY <1>5, <1>8 DEF to

(* Going back to the star, it takes one more.                               *)
LEMMA RetriedIsHeld ==
    ASSUME NEW n, NEW m, NEW stars, NEW takes, NEW next, IsPattern(n, m, stars, takes, next),
           NEW fits, NEW at \in Spots(n, m), at.t <= m, at.star # 0, IsHeld(at, m, stars, fits)
    PROVE  L!Retried(at) \in Spots(n, m) /\ IsHeld(L!Retried(at), m, stars, fits)
<1>0. n \in Nat /\ m \in Nat /\ stars \subseteq 1..n
  BY DEF IsPattern
<1>1. /\ at.p \in 1..(n + 1) /\ at.t \in 1..(m + 1) /\ at.star \in 0..n /\ at.resume \in 1..(m + 1) /\ at.resume <= at.t
  BY DEF Spots
<1>2. at.star \in stars
  BY DEF IsHeld
<1> DEFINE to == L!Retried(at)
<1>4. to.p = at.star + 1 /\ to.t = at.resume + 1 /\ to.star = at.star /\ to.resume = at.resume + 1
  BY DEF L!Retried
<1> HIDE DEF to
<1>5. \A u \in (at.resume + 1)..(m + 1) : (at.resume + 1) + (u - (at.resume + 1)) = u
  BY <1>0, <1>1
<1>6. IsHeld(to, m, stars, fits)
  BY <1>0, <1>1, <1>2, <1>4, <1>5 DEF IsHeld
<1>7. to \in Spots(n, m)
  BY PlacesGoOn DEF to
<1> QED
  BY <1>6, <1>7 DEF to

(* A place is right if the one the search goes on to is.                    *)
LEMMA RightGoesBack ==
    ASSUME NEW n, NEW m, NEW stars, NEW takes, NEW next, IsPattern(n, m, stars, takes, next),
           NEW fits, LeavesAlike(n, m, stars, takes, next, fits),
           NEW W, IsGreedy(W, n, m, stars, takes, next),
           NEW at \in Spots(n, m), IsHeld(at, m, stars, fits),
           at.t <= m /\ at.p \in stars => IsRight(L!Starred(at), W, fits),
           at.t <= m /\ at.p \notin stars /\ <<at.p, at.t>> \in takes =>
               IsRight(L!Passed(at, next[at.p] - at.p), W, fits),
           at.t <= m /\ at.p \notin stars /\ <<at.p, at.t>> \notin takes /\ at.star # 0 =>
               IsRight(L!Retried(at), W, fits)
    PROVE  IsRight(at, W, fits)
<1>0. n \in Nat /\ m \in Nat /\ stars \subseteq 1..n /\ takes \subseteq (1..n) \X (1..m)
  BY DEF IsPattern
<1>1. /\ at.p \in 1..(n + 1) /\ at.t \in 1..(m + 1) /\ at.star \in 0..n /\ at.resume \in 1..(m + 1) /\ at.resume <= at.t
      /\ at = [p |-> at.p, t |-> at.t, star |-> at.star, resume |-> at.resume]
  BY DEF Spots
<1>2. at \in W <=>
          IF at.t > m THEN at.p..n \subseteq stars
          ELSE IF at.p \in stars THEN L!Starred(at) \in W
          ELSE IF <<at.p, at.t>> \in takes THEN L!Passed(at, next[at.p] - at.p) \in W
          ELSE at.star # 0 /\ L!Retried(at) \in W
  BY DEF IsGreedy
<1>3. \A p \in stars : \A t \in 1..(m + 1) : <<p, t>> \in fits <=> \E u \in t..(m + 1) : <<p + 1, u>> \in fits
  BY Zenon DEF LeavesAlike, EndsFit, StarsFit, OthersFit
<1>4. \A t \in 1..(m + 1) : <<n + 1, t>> \in fits <=> t = m + 1
  BY Zenon DEF LeavesAlike, EndsFit, StarsFit, OthersFit
<1>5. \A p \in (1..n) \ stars : \A t \in 1..(m + 1) :
          <<p, t>> \in fits <=> <<p, t>> \in takes /\ <<next[p], t + 1>> \in fits
  BY Zenon DEF LeavesAlike, EndsFit, StarsFit, OthersFit
<1>6. ASSUME at.star # 0
      PROVE  /\ at.star \in stars
             /\ <<at.star + 1, at.resume>> \in fits <=> <<at.p, at.t>> \in fits
             /\ \A u \in at.resume..(m + 1) :
                    <<at.star + 1, u>> \in fits => /\ at.t + (u - at.resume) \in at.t..(m + 1)
                                                   /\ <<at.p, at.t + (u - at.resume)>> \in fits
             /\ <<at.star, at.resume>> \in fits <=> \E u \in at.resume..(m + 1) : <<at.star + 1, u>> \in fits
             /\ <<at.p, at.t>> \in fits => <<at.star, at.resume>> \in fits
  <2>1. /\ at.star \in stars
        /\ <<at.star + 1, at.resume>> \in fits <=> <<at.p, at.t>> \in fits
        /\ \A u \in at.resume..(m + 1) :
               <<at.star + 1, u>> \in fits => /\ at.t + (u - at.resume) \in at.t..(m + 1)
                                              /\ <<at.p, at.t + (u - at.resume)>> \in fits
    BY <1>6 DEF IsHeld
  <2>2. <<at.star, at.resume>> \in fits <=> \E u \in at.resume..(m + 1) : <<at.star + 1, u>> \in fits
    BY <1>1, <1>3, <2>1
  <2>3. at.resume \in at.resume..(m + 1)
    BY <1>0, <1>1
  <2> QED
    BY <2>1, <2>2, <2>3
<1>7. CASE at.t > m
  <2>1. at.t = m + 1
    BY <1>0, <1>1, <1>7
  <2>2. at \in W <=> <<at.p, at.t>> \in fits
    BY <1>1, <1>2, <1>7, <2>1, StarsMatchNothing
  <2>3. ASSUME at.star # 0, <<at.star, at.resume>> \in fits
        PROVE  <<at.p, at.t>> \in fits
    <3>1. PICK u \in at.resume..(m + 1) : <<at.star + 1, u>> \in fits
      BY <1>6, <2>3
    <3>2. at.t + (u - at.resume) \in at.t..(m + 1) /\ <<at.p, at.t + (u - at.resume)>> \in fits
      BY <1>6, <2>3, <3>1
    <3>3. at.t + (u - at.resume) = at.t
      BY <1>0, <1>1, <2>1, <3>2
    <3> QED
      BY <3>2, <3>3
  <2> QED
    BY <1>6, <2>2, <2>3 DEF IsRight
<1>8. CASE at.t <= m /\ at.p \in stars
  <2>1. L!Starred(at).star = at.p /\ L!Starred(at).resume = at.t /\ at.p # 0
    BY <1>0, <1>8 DEF L!Starred
  <2>2. L!Starred(at) \in W <=> <<at.p, at.t>> \in fits
    BY <1>8, <2>1 DEF IsRight
  <2>3. at \in W <=> <<at.p, at.t>> \in fits
    BY <1>0, <1>1, <1>2, <1>8, <2>2
  <2>4. ASSUME at.star # 0, <<at.star, at.resume>> \in fits
        PROVE  <<at.p, at.t>> \in fits
    <3>1. PICK u \in at.resume..(m + 1) : <<at.star + 1, u>> \in fits
      BY <1>6, <2>4
    <3> DEFINE v == at.t + (u - at.resume)
    <3>2. v \in at.t..(m + 1) /\ <<at.p, v>> \in fits
      BY <1>6, <2>4, <3>1
    <3> HIDE DEF v
    <3>3. v \in 1..(m + 1)
      BY <1>0, <1>1, <3>2
    <3>4. PICK w \in v..(m + 1) : <<at.p + 1, w>> \in fits
      BY <1>3, <1>8, <3>2, <3>3
    <3>5. w \in at.t..(m + 1)
      BY <1>0, <1>1, <3>2, <3>4
    <3> QED
      BY <1>1, <1>3, <1>8, <3>4, <3>5
  <2> QED
    BY <1>6, <2>3, <2>4 DEF IsRight
<1>9. CASE at.t <= m /\ at.p \notin stars /\ <<at.p, at.t>> \in takes
  <2>1. at.p \in 1..n
    BY <1>0, <1>9
  <2> DEFINE to == L!Passed(at, next[at.p] - at.p)
  <2>2. to.star = at.star /\ to.resume = at.resume /\ to.t = at.t + 1 /\ to.p = next[at.p]
    <3>1. to = [p |-> next[at.p], t |-> at.t + 1, star |-> at.star, resume |-> at.resume]
      BY <1>9, PlacesGoOn
    <3> QED
      BY <3>1
  <2>3. at \in W <=> to \in W
    BY <1>0, <1>1, <1>2, <1>9
  <2>4. IsRight(to, W, fits)
    BY <1>9
  <2> HIDE DEF to
  <2>5. <<at.p, at.t>> \in fits <=> <<next[at.p], at.t + 1>> \in fits
    BY <1>1, <1>5, <1>9, <2>1
  <2> QED
    BY <2>2, <2>3, <2>4, <2>5 DEF IsRight
<1>10. CASE at.t <= m /\ at.p \notin stars /\ <<at.p, at.t>> \notin takes
  <2>1. <<at.p, at.t>> \notin fits
    <3>1. CASE at.p = n + 1
      BY <1>0, <1>1, <1>4, <1>10, <3>1
    <3>2. CASE at.p # n + 1
      <4>1. at.p \in (1..n) \ stars
        BY <1>0, <1>1, <1>10, <3>2
      <4> QED
        BY <1>1, <1>5, <1>10, <4>1
    <3> QED
      BY <3>1, <3>2
  <2>2. at \in W <=> at.star # 0 /\ L!Retried(at) \in W
    BY <1>0, <1>1, <1>2, <1>10
  <2>3. CASE at.star = 0
    BY <2>1, <2>2, <2>3 DEF IsRight
  <2>4. CASE at.star # 0
    <3>1. L!Retried(at).star = at.star /\ L!Retried(at).resume = at.resume + 1
      BY DEF L!Retried
    <3>2. at \in W <=> <<at.star, at.resume + 1>> \in fits
      BY <1>10, <2>2, <2>4, <3>1 DEF IsRight
    <3>3. at.resume + 1 \in 1..(m + 1)
      BY <1>0, <1>1, <1>10
    <3>4. <<at.star, at.resume + 1>> \in fits <=> \E u \in (at.resume + 1)..(m + 1) : <<at.star + 1, u>> \in fits
      BY <1>3, <1>6, <2>4, <3>3
    <3>5. <<at.star + 1, at.resume>> \notin fits
      BY <1>6, <2>1, <2>4
    <3>6. at.resume..(m + 1) = {at.resume} \cup (at.resume + 1)..(m + 1)
      BY <1>0, <1>1
    <3>7. <<at.star, at.resume>> \in fits <=> <<at.star, at.resume + 1>> \in fits
      BY <1>6, <2>4, <3>4, <3>5, <3>6
    <3> QED
      BY <2>4, <3>2, <3>7 DEF IsRight
  <2> QED
    BY <2>3, <2>4
<1>11. at.t > m \/ at.t <= m
  BY <1>0, <1>1
<1> QED
  BY <1>7, <1>8, <1>9, <1>10, <1>11

(* Greedy search wins from the beginning exactly when the whole matches the *)
(* whole: each step takes more of the pattern, or leaves more of the text   *)
(* to the star.                                                             *)
LEMMA GreedyIsRight ==
    ASSUME NEW n, NEW m, NEW stars, NEW takes, NEW next, IsPattern(n, m, stars, takes, next),
           NEW fits, LeavesAlike(n, m, stars, takes, next, fits),
           NEW W, IsGreedy(W, n, m, stars, takes, next)
    PROVE  L!Beginning \in W <=> <<1, 1>> \in fits
<1>0. n \in Nat /\ m \in Nat /\ stars \subseteq 1..n /\ takes \subseteq (1..n) \X (1..m)
  BY DEF IsPattern
<1> DEFINE Wrong == {at \in Spots(n, m) : IsHeld(at, m, stars, fits) /\ ~IsRight(at, W, fits)}
           Spare(at) == m + 1 - at.resume
           Unread(at) == n + 1 - at.p
<1>1. \A at \in Spots(n, m) : /\ at.p \in 1..(n + 1) /\ at.t \in 1..(m + 1) /\ at.star \in 0..n
                             /\ at.resume \in 1..(m + 1) /\ at.resume <= at.t
                             /\ Spare(at) \in Nat /\ Unread(at) \in Nat
  BY <1>0 DEF Spots
<1>2. Wrong = {}
  <2> SUFFICES ASSUME Wrong # {} PROVE FALSE
    OBVIOUS
  <2> DEFINE Spares == {Spare(at) : at \in Wrong}
  <2>1. Spares \subseteq Nat /\ Spares # {}
    BY <1>1
  <2> HIDE DEF Spares
  <2>2. PICK least \in Spares : \A other \in Spares : least <= other
    BY <2>1, LeastNumber
  <2> USE DEF Spares
  <2> DEFINE Unreads == {Unread(at) : at \in {at \in Wrong : Spare(at) = least}}
  <2>3. Unreads \subseteq Nat /\ Unreads # {}
    BY <1>1, <2>2
  <2> HIDE DEF Unreads, Spares
  <2>4. PICK fewest \in Unreads : \A other \in Unreads : fewest <= other
    BY <2>3, LeastNumber
  <2> USE DEF Unreads
  <2>5. PICK at \in Wrong : Spare(at) = least /\ Unread(at) = fewest
    BY <2>4
  <2>6. ASSUME NEW to \in Wrong, Spare(to) < least PROVE FALSE
    <3>1. Spare(to) \in Spares /\ least \in Nat /\ Spare(to) \in Nat
      BY <1>1, <2>1, <2>2 DEF Spares
    <3> QED
      BY <2>2, <2>6, <3>1
  <2>7. ASSUME NEW to \in Wrong, Spare(to) = least, Unread(to) < fewest PROVE FALSE
    <3>1. Unread(to) \in Unreads /\ fewest \in Nat /\ Unread(to) \in Nat
      BY <1>1, <2>3, <2>4, <2>7
    <3> HIDE DEF Unreads
    <3> QED
      BY <2>4, <2>7, <3>1
  <2> HIDE DEF Unreads
  <2>8. /\ at \in Spots(n, m) /\ IsHeld(at, m, stars, fits) /\ ~IsRight(at, W, fits)
        /\ at.p \in 1..(n + 1) /\ at.t \in 1..(m + 1) /\ at.star \in 0..n
        /\ at.resume \in 1..(m + 1) /\ at.resume <= at.t
    BY <1>1
  <2>9. ASSUME at.t <= m, at.p \in stars
        PROVE  IsRight(L!Starred(at), W, fits)
    <3> DEFINE to == L!Starred(at)
    <3>1. to \in Spots(n, m) /\ IsHeld(to, m, stars, fits)
      BY <2>8, <2>9, StarredIsHeld
    <3>2. to.p = at.p + 1 /\ to.resume = at.t
      BY DEF L!Starred
    <3> HIDE DEF to
    <3>3. Spare(to) < least \/ (Spare(to) = least /\ Unread(to) < fewest)
      BY <1>0, <2>5, <2>8, <3>2
    <3>4. to \notin Wrong
      BY <2>6, <2>7, <3>3
    <3> QED
      BY <3>1, <3>4 DEF to
  <2>10. ASSUME at.t <= m, at.p \notin stars, <<at.p, at.t>> \in takes
         PROVE  IsRight(L!Passed(at, next[at.p] - at.p), W, fits)
    <3> DEFINE to == L!Passed(at, next[at.p] - at.p)
    <3>1. to \in Spots(n, m) /\ IsHeld(to, m, stars, fits)
      BY <2>8, <2>10, PassedIsHeld
    <3>2. at.p \in 1..n
      BY <1>0, <2>10
    <3>3. next[at.p] \in Int /\ next[at.p] > at.p
      BY <3>2 DEF IsPattern
    <3>4. to.p = next[at.p] /\ to.resume = at.resume
      <4>1. to = [p |-> next[at.p], t |-> at.t + 1, star |-> at.star, resume |-> at.resume]
        BY <2>8, <2>10, PlacesGoOn
      <4> QED
        BY <4>1
    <3> HIDE DEF to
    <3>5. Spare(to) = least /\ Unread(to) < fewest
      BY <1>0, <2>5, <2>8, <3>3, <3>4
    <3>6. to \notin Wrong
      BY <2>7, <3>5
    <3> QED
      BY <3>1, <3>6 DEF to
  <2>11. ASSUME at.t <= m, at.star # 0
         PROVE  IsRight(L!Retried(at), W, fits)
    <3> DEFINE to == L!Retried(at)
    <3>1. to \in Spots(n, m) /\ IsHeld(to, m, stars, fits)
      BY <2>8, <2>11, RetriedIsHeld
    <3>2. to.resume = at.resume + 1
      BY DEF L!Retried
    <3> HIDE DEF to
    <3>3. Spare(to) < least
      BY <1>0, <2>5, <2>8, <3>2
    <3>4. to \notin Wrong
      BY <2>6, <3>3
    <3> QED
      BY <3>1, <3>4 DEF to
  <2>12. IsRight(at, W, fits)
    BY <2>8, <2>9, <2>10, <2>11, RightGoesBack
  <2> QED
    BY <2>8, <2>12
<1> DEFINE at == L!Beginning
<1>3. at \in [p : 1..(n + 1), t : 1..(m + 1), star : 0..n, resume : 1..(m + 1)]
  BY <1>0 DEF L!Beginning, L!NoStar
<1>4. at.p = 1 /\ at.t = 1 /\ at.star = 0 /\ at.resume = 1
  BY DEF L!Beginning, L!NoStar
<1> HIDE DEF at
<1>5. at \in Spots(n, m) /\ IsHeld(at, m, stars, fits)
  BY <1>3, <1>4 DEF Spots, IsHeld
<1>6. IsRight(at, W, fits)
  BY <1>2, <1>5
<1> QED
  BY <1>4, <1>6 DEF IsRight, at

(* What a token takes of a text: its end, from its beginning.               *)
TakesTo(token, text, from, to) ==
    CASE token = L!StarToken -> to - from >= 0
      [] token = L!AnyToken -> to - from = 1
      [] OTHER -> to - from = 1 /\ token = L!Literal(text[to])
AreCuts(cut, tokens, text, t) ==
    /\ cut \in [1..(Len(tokens) + 1) -> 0..Len(text)]
    /\ cut[1] = t - 1 /\ cut[Len(tokens) + 1] = Len(text)
    /\ \A i \in DOMAIN tokens : TakesTo(tokens[i], text, cut[i], cut[i + 1])
SharesFrom(tokens, text, t) == \E cut : AreCuts(cut, tokens, text, t)

(* Tokens are told apart.                                                   *)
LEMMA TokensDiffer ==
    /\ L!StarToken # L!AnyToken
    /\ \A c : L!Literal(c) # L!StarToken /\ L!Literal(c) # L!AnyToken
    /\ \A c, d : L!Literal(c) = L!Literal(d) <=> c = d
<1>1. L!StarToken[1] = "star" /\ L!AnyToken[1] = "any"
  BY DEF L!StarToken, L!AnyToken
<1>2. \A c : L!Literal(c)[1] = "char" /\ L!Literal(c)[2] = c
  BY DEF L!Literal
<1>3. "star" # "any" /\ "star" # "char" /\ "any" # "char"
  OBVIOUS
<1> QED
  BY <1>1, <1>2, <1>3

(* To share out a text is to share it from its beginning.                   *)
LEMMA SharesOutIs ==
    ASSUME NEW tokens, NEW text, IsSequence(tokens)
    PROVE  SharesOut(tokens, text) <=> SharesFrom(tokens, text, 1)
<1>1. 1 - 1 = 0
  OBVIOUS
<1> QED
  BY <1>1 DEF SharesOut, SharesFrom, AreCuts, TakesTo

(* Nothing is left for no tokens.                                           *)
LEMMA NoneShares ==
    ASSUME NEW text, Len(text) \in Nat, NEW t \in 1..(Len(text) + 1)
    PROVE  SharesFrom(<<>>, text, t) <=> t = Len(text) + 1
<1> DEFINE m == Len(text)
<1>1. Len(<<>>) + 1 = 1 /\ DOMAIN <<>> = {}
  OBVIOUS
<1>2. ASSUME SharesFrom(<<>>, text, t)
      PROVE  t = m + 1
  BY <1>1, <1>2 DEF SharesFrom, AreCuts
<1>3. ASSUME t = m + 1
      PROVE  SharesFrom(<<>>, text, t)
  <2> DEFINE cut == [i \in 1..1 |-> m]
  <2>1. cut \in [1..1 -> 0..m] /\ cut[1] = m /\ m = t - 1
    BY <1>3
  <2> HIDE DEF cut
  <2>2. AreCuts(cut, <<>>, text, t)
    BY <1>1, <2>1 DEF AreCuts
  <2> QED
    BY <2>2 DEF SharesFrom
<1> QED
  BY <1>2, <1>3

(* One before the others.                                                   *)
LEMMA OneBefore ==
    ASSUME NEW one, NEW rest, IsSequence(rest)
    PROVE  /\ IsSequence(<<one>> \o rest) /\ Len(<<one>> \o rest) = Len(rest) + 1
           /\ DOMAIN (<<one>> \o rest) = 1..(Len(rest) + 1) /\ (<<one>> \o rest)[1] = one
           /\ \A i \in 1..Len(rest) : (<<one>> \o rest)[i + 1] = rest[i]
<1> DEFINE U == {one} \cup {rest[i] : i \in DOMAIN rest}
           k == Len(rest)
           all == <<one>> \o rest
<1>1. k \in Nat /\ DOMAIN rest = 1..k /\ rest = [i \in 1..k |-> rest[i]]
  BY SequenceIsList
<1>2. rest \in Seq(U)
  <2>1. \A i \in 1..k : rest[i] \in U
    BY <1>1
  <2> HIDE DEF U, k
  <2>2. rest \in [1..k -> U]
    BY <1>1, <2>1
  <2> QED
    BY <1>1, <2>2
<1>3. <<one>> \in Seq(U) /\ Len(<<one>>) = 1 /\ <<one>>[1] = one
  <2>1. one \in U
    OBVIOUS
  <2> HIDE DEF U
  <2> QED
    BY <2>1
<1> HIDE DEF U
<1>4. all \in Seq(U) /\ Len(all) = k + 1
  BY <1>1, <1>2, <1>3
<1>5. all[1] = one
  BY <1>1, <1>2, <1>3
<1>6. ASSUME NEW i \in 1..k
      PROVE  all[i + 1] = rest[i]
  BY <1>1, <1>2, <1>3
<1> HIDE DEF all
<1>7. all = [i \in 1..(k + 1) |-> all[i]] /\ k + 1 \in Nat
  BY <1>1, <1>4
<1>8. IsSequence(all) /\ DOMAIN all = 1..(k + 1)
  <2> HIDE DEF k
  <2> QED
    BY <1>7, ListIsSequence
<1> QED
  BY <1>4, <1>5, <1>6, <1>8 DEF all, k

(* The first token takes its part and the others share the rest.            *)
LEMMA FirstShares ==
    ASSUME NEW token, NEW rest, IsSequence(rest), NEW text, Len(text) \in Nat, NEW t \in 1..(Len(text) + 1)
    PROVE  SharesFrom(<<token>> \o rest, text, t)
           <=> \E u \in 1..(Len(text) + 1) : TakesTo(token, text, t - 1, u - 1) /\ SharesFrom(rest, text, u)
<1> DEFINE m == Len(text)
           k == Len(rest)
           one == <<token>>
           all == one \o rest
<1>2. k \in Nat /\ DOMAIN rest = 1..k
  BY SequenceIsList
<1>3. /\ IsSequence(all) /\ Len(all) = k + 1 /\ DOMAIN all = 1..(k + 1) /\ all[1] = token
      /\ \A i \in 1..k : all[i + 1] = rest[i]
  BY <1>2, OneBefore
<1> HIDE DEF all, k, one
<1>4. ASSUME SharesFrom(all, text, t)
      PROVE  \E u \in 1..(m + 1) : TakesTo(token, text, t - 1, u - 1) /\ SharesFrom(rest, text, u)
  <2>1. PICK cut : AreCuts(cut, all, text, t)
    BY <1>4 DEF SharesFrom
  <2>2. /\ cut \in [1..(k + 2) -> 0..m] /\ cut[1] = t - 1 /\ cut[k + 2] = m
        /\ \A i \in 1..(k + 1) : TakesTo(all[i], text, cut[i], cut[i + 1])
    <3>1. Len(all) + 1 = k + 2
      BY <1>2, <1>3
    <3> QED
      BY <1>3, <2>1, <3>1 DEF AreCuts
  <2> DEFINE u == cut[2] + 1
             later == [i \in 1..(k + 1) |-> cut[i + 1]]
  <2>3. u \in 1..(m + 1) /\ u - 1 = cut[2]
    BY <1>2, <2>2
  <2>4. TakesTo(token, text, t - 1, u - 1)
    <3>1. 1 \in 1..(k + 1) /\ 1 + 1 = 2
      BY <1>2
    <3>2. TakesTo(all[1], text, cut[1], cut[2])
      BY <2>2, <3>1
    <3> QED
      BY <1>3, <2>2, <2>3, <3>2
  <2>5. later \in [1..(k + 1) -> 0..m] /\ later[1] = u - 1 /\ later[k + 1] = m
    <3>1. \A i \in 1..(k + 1) : i + 1 \in 1..(k + 2) /\ later[i] = cut[i + 1]
      BY <1>2
    <3>2. 1 \in 1..(k + 1) /\ k + 1 \in 1..(k + 1) /\ 1 + 1 = 2 /\ (k + 1) + 1 = k + 2
      BY <1>2
    <3> QED
      BY <2>2, <2>3, <3>1, <3>2
  <2>6. ASSUME NEW i \in 1..k
        PROVE  TakesTo(rest[i], text, later[i], later[i + 1])
    <3>1. i \in 1..(k + 1) /\ i + 1 \in 1..(k + 1)
      BY <1>2
    <3> QED
      BY <1>3, <2>2, <3>1
  <2> HIDE DEF later, u
  <2>7. AreCuts(later, rest, text, u)
    BY <1>2, <2>5, <2>6 DEF AreCuts, k
  <2> QED
    BY <2>3, <2>4, <2>7 DEF SharesFrom
<1>5. ASSUME NEW u \in 1..(m + 1), TakesTo(token, text, t - 1, u - 1), SharesFrom(rest, text, u)
      PROVE  SharesFrom(all, text, t)
  <2>1. PICK later : AreCuts(later, rest, text, u)
    BY <1>5 DEF SharesFrom
  <2>2. /\ later \in [1..(k + 1) -> 0..m] /\ later[1] = u - 1 /\ later[k + 1] = m
        /\ \A i \in 1..k : TakesTo(rest[i], text, later[i], later[i + 1])
    BY <1>2, <2>1 DEF AreCuts, k
  <2> DEFINE cut == [i \in 1..(k + 2) |-> IF i = 1 THEN t - 1 ELSE later[i - 1]]
  <2>3. /\ cut[1] = t - 1
        /\ \A i \in 1..(k + 1) : cut[i + 1] = later[i]
    <3>1. 1 \in 1..(k + 2)
      BY <1>2
    <3>2. \A i \in 1..(k + 1) : i + 1 \in 1..(k + 2) /\ i + 1 # 1 /\ (i + 1) - 1 = i
      BY <1>2
    <3> QED
      BY <3>1, <3>2
  <2>4. cut \in [1..(k + 2) -> 0..m]
    <3>1. ASSUME NEW i \in 1..(k + 2), i # 1
          PROVE  i - 1 \in 1..(k + 1)
      BY <1>2, <3>1
    <3>2. t - 1 \in 0..m
      OBVIOUS
    <3> QED
      BY <2>2, <3>1, <3>2
  <2> HIDE DEF cut
  <2>5. cut[k + 2] = m /\ cut[2] = u - 1
    <3>1. 1 \in 1..(k + 1) /\ k + 1 \in 1..(k + 1) /\ 1 + 1 = 2 /\ (k + 1) + 1 = k + 2
      BY <1>2
    <3> QED
      BY <2>2, <2>3, <3>1
  <2>6. ASSUME NEW i \in 1..(k + 1)
        PROVE  TakesTo(all[i], text, cut[i], cut[i + 1])
    <3>1. CASE i = 1
      BY <1>3, <1>5, <2>3, <2>5, <3>1
    <3>2. CASE i # 1
      <4> DEFINE j == i - 1
      <4>1. j \in 1..k /\ j + 1 = i /\ j \in 1..(k + 1)
        BY <1>2, <3>2
      <4> HIDE DEF j
      <4>2. TakesTo(rest[j], text, later[j], later[j + 1])
        BY <2>2, <4>1
      <4> QED
        BY <1>3, <2>3, <4>1, <4>2
    <3> QED
      BY <3>1, <3>2
  <2>7. AreCuts(cut, all, text, t)
    <3>1. Len(all) + 1 = k + 2
      BY <1>2, <1>3
    <3> QED
      BY <1>3, <2>3, <2>4, <2>5, <2>6, <3>1 DEF AreCuts
  <2> QED
    BY <2>7 DEF SharesFrom
<1>6. SharesFrom(all, text, t) <=> \E u \in 1..(m + 1) : TakesTo(token, text, t - 1, u - 1) /\ SharesFrom(rest, text, u)
  BY <1>4, <1>5
<1> QED
  BY <1>6 DEF all, one, m

(* A star takes any part of what is left, the others one character.         *)
LEMMA StarShares ==
    ASSUME NEW rest, IsSequence(rest), NEW text, Len(text) \in Nat, NEW t \in 1..(Len(text) + 1)
    PROVE  SharesFrom(<<L!StarToken>> \o rest, text, t) <=> \E u \in t..(Len(text) + 1) : SharesFrom(rest, text, u)
<1>1. \A u \in 1..(Len(text) + 1) : TakesTo(L!StarToken, text, t - 1, u - 1) <=> u \in t..(Len(text) + 1)
  <2>1. \A u \in 1..(Len(text) + 1) : (u - 1) - (t - 1) >= 0 <=> u \in t..(Len(text) + 1)
    OBVIOUS
  <2> QED
    BY <2>1, TokensDiffer DEF TakesTo
<1>2. \A u \in t..(Len(text) + 1) : u \in 1..(Len(text) + 1)
  OBVIOUS
<1>3. SharesFrom(<<L!StarToken>> \o rest, text, t)
      <=> \E u \in 1..(Len(text) + 1) : TakesTo(L!StarToken, text, t - 1, u - 1) /\ SharesFrom(rest, text, u)
  BY FirstShares
<1> QED
  BY <1>1, <1>2, <1>3

(* Whether a token that is no star takes a character.                       *)
TakesOne(token, c) == token = L!AnyToken \/ token = L!Literal(c)

(* A token that is no star takes one character, and the rest shares out     *)
(* what follows.                                                            *)
LEMMA OtherShares ==
    ASSUME NEW token, token # L!StarToken, NEW rest, IsSequence(rest), NEW text, Len(text) \in Nat,
           NEW t \in 1..(Len(text) + 1)
    PROVE  SharesFrom(<<token>> \o rest, text, t)
           <=> t <= Len(text) /\ TakesOne(token, text[t]) /\ SharesFrom(rest, text, t + 1)
<1>1. \A u \in 1..(Len(text) + 1) :
          TakesTo(token, text, t - 1, u - 1) <=> u = t + 1 /\ TakesOne(token, text[t])
  <2>1. \A u \in 1..(Len(text) + 1) : ((u - 1) - (t - 1) = 1 <=> u = t + 1) /\ (u = t + 1 => u - 1 = t)
    OBVIOUS
  <2> QED
    BY <2>1 DEF TakesTo, TakesOne
<1>2. t + 1 \in 1..(Len(text) + 1) <=> t <= Len(text)
  OBVIOUS
<1>3. SharesFrom(<<token>> \o rest, text, t)
      <=> \E u \in 1..(Len(text) + 1) : TakesTo(token, text, t - 1, u - 1) /\ SharesFrom(rest, text, u)
  BY FirstShares
<1> QED
  BY <1>1, <1>2, <1>3

(* A pattern that is read token by token: its rest at each place, and where *)
(* the next token is.                                                       *)
IsReading(rests, token, next, n) ==
    /\ n \in Nat /\ rests[n + 1] = <<>>
    /\ \A p \in 1..(n + 1) : IsSequence(rests[p])
    /\ \A p \in 1..n :
        /\ next[p] \in 2..(n + 1) /\ next[p] > p
        /\ token[p] = L!StarToken => next[p] = p + 1
        /\ rests[p] = <<token[p]>> \o rests[next[p]]

Stars(token, n) == {p \in 1..n : token[p] = L!StarToken}
Takers(token, text, n) ==
    {x \in (1..n) \X (1..Len(text)) : token[x[1]] # L!StarToken /\ TakesOne(token[x[1]], text[x[2]])}
Sharers(rests, text, n) == {x \in (1..(n + 1)) \X (1..(Len(text) + 1)) : SharesFrom(rests[x[1]], text, x[2])}

(* What is left of it shares what is left of a text as its first token and  *)
(* its rest do.                                                             *)
LEMMA ReadingLeaves ==
    ASSUME NEW rests, NEW token, NEW n, NEW next \in [1..n -> 2..(n + 1)], IsReading(rests, token, next, n),
           NEW text, Len(text) \in Nat
    PROVE  /\ IsPattern(n, Len(text), Stars(token, n), Takers(token, text, n), next)
           /\ LeavesAlike(n, Len(text), Stars(token, n), Takers(token, text, n), next, Sharers(rests, text, n))
<1> DEFINE m == Len(text)
           stars == Stars(token, n)
           takes == Takers(token, text, n)
           fits == Sharers(rests, text, n)
<1>0. n \in Nat /\ m \in Nat
  BY DEF IsReading
<1>1. IsPattern(n, m, stars, takes, next)
  <2>1. stars \subseteq 1..n /\ \A p \in stars : p \in 1..n /\ token[p] = L!StarToken
    BY DEF Stars
  <2>2. takes \subseteq (1..n) \X (1..m)
    BY DEF Takers
  <2>3. \A p \in 1..n : next[p] > p /\ (token[p] = L!StarToken => next[p] = p + 1)
    BY DEF IsReading
  <2> HIDE DEF stars, takes, m
  <2> QED
    BY <1>0, <2>1, <2>2, <2>3 DEF IsPattern
<1>2. \A p \in 1..(n + 1) : \A t \in 1..(m + 1) : <<p, t>> \in fits <=> SharesFrom(rests[p], text, t)
  BY DEF Sharers
<1>3. fits \subseteq (1..(n + 1)) \X (1..(m + 1))
  BY DEF Sharers
<1>4. \A p \in 1..n : \A t \in 1..m :
          <<p, t>> \in takes <=> token[p] # L!StarToken /\ TakesOne(token[p], text[t])
  BY DEF Takers
<1>5. \A p \in 1..n : \A t \in 1..(m + 1) : <<p, t>> \in takes => t \in 1..m
  BY DEF Takers
<1>51. \A p \in stars : p \in 1..n /\ token[p] = L!StarToken
  BY DEF Stars
<1>52. \A p \in (1..n) \ stars : p \in 1..n /\ token[p] # L!StarToken
  BY DEF Stars
<1> HIDE DEF fits, takes, m, stars
<1>6. EndsFit(n, m, fits)
  <2>1. ASSUME NEW t \in 1..(m + 1)
        PROVE  <<n + 1, t>> \in fits <=> t = m + 1
    <3>1. n + 1 \in 1..(n + 1) /\ rests[n + 1] = <<>>
      BY <1>0 DEF IsReading
    <3>2. SharesFrom(<<>>, text, t) <=> t = m + 1
      BY <1>0, NoneShares DEF m
    <3> QED
      BY <1>2, <3>1, <3>2
  <2> QED
    BY <2>1 DEF EndsFit
<1>7. ASSUME NEW p \in 1..n
      PROVE  /\ p \in 1..(n + 1) /\ next[p] \in 1..(n + 1) /\ IsSequence(rests[next[p]])
             /\ rests[p] = <<token[p]>> \o rests[next[p]]
  <2>1. next[p] \in 2..(n + 1) /\ rests[p] = <<token[p]>> \o rests[next[p]]
    BY DEF IsReading
  <2>2. p \in 1..(n + 1) /\ next[p] \in 1..(n + 1)
    BY <1>0, <2>1
  <2> QED
    BY <2>1, <2>2 DEF IsReading
<1>8. StarsFit(m, stars, fits)
  <2>1. ASSUME NEW p \in stars, NEW t \in 1..(m + 1)
        PROVE  <<p, t>> \in fits <=> \E u \in t..(m + 1) : <<p + 1, u>> \in fits
    <3>1. p \in 1..n /\ token[p] = L!StarToken
      BY <1>51
    <3>2. next[p] = p + 1
      BY <3>1 DEF IsReading
    <3>3. SharesFrom(rests[p], text, t) <=> \E u \in t..(m + 1) : SharesFrom(rests[p + 1], text, u)
      BY <1>0, <1>7, <3>1, <3>2, StarShares DEF m
    <3>4. \A u \in t..(m + 1) : u \in 1..(m + 1)
      BY <1>0
    <3> QED
      BY <1>2, <1>7, <3>1, <3>2, <3>3, <3>4
  <2> QED
    BY <2>1 DEF StarsFit
<1>9. OthersFit(n, m, stars, takes, next, fits)
  <2>1. ASSUME NEW p \in (1..n) \ stars, NEW t \in 1..(m + 1)
        PROVE  <<p, t>> \in fits <=> <<p, t>> \in takes /\ <<next[p], t + 1>> \in fits
    <3>1. p \in 1..n /\ token[p] # L!StarToken
      BY <1>52
    <3>2. SharesFrom(rests[p], text, t)
          <=> t <= m /\ TakesOne(token[p], text[t]) /\ SharesFrom(rests[next[p]], text, t + 1)
      <4>1. token[p] # L!StarToken /\ IsSequence(rests[next[p]]) /\ rests[p] = <<token[p]>> \o rests[next[p]]
        BY <1>7, <3>1
      <4>2. Len(text) \in Nat /\ t \in 1..(Len(text) + 1)
        BY <1>0 DEF m
      <4> DEFINE one == token[p]
                 rest == rests[next[p]]
      <4> HIDE DEF one, rest
      <4>3. one # L!StarToken /\ IsSequence(rest)
        BY <4>1 DEF one, rest
      <4>4. SharesFrom(<<one>> \o rest, text, t)
            <=> t <= Len(text) /\ TakesOne(one, text[t]) /\ SharesFrom(rest, text, t + 1)
        BY <4>2, <4>3, OtherShares
      <4> QED
        BY <4>1, <4>4 DEF one, rest, m
    <3>3. CASE t <= m
      <4>1. t \in 1..m /\ t + 1 \in 1..(m + 1)
        BY <1>0, <3>3
      <4>2. <<p, t>> \in takes <=> TakesOne(token[p], text[t])
        BY <1>4, <3>1, <4>1
      <4>3. <<next[p], t + 1>> \in fits <=> SharesFrom(rests[next[p]], text, t + 1)
        BY <1>2, <1>7, <3>1, <4>1
      <4> QED
        BY <1>2, <1>7, <3>1, <3>2, <3>3, <4>2, <4>3
    <3>4. CASE ~(t <= m)
      <4>1. <<p, t>> \notin takes
        BY <1>0, <1>5, <3>1, <3>4
      <4> QED
        BY <1>2, <1>7, <3>1, <3>2, <3>4, <4>1
    <3> QED
      BY <3>3, <3>4
  <2> QED
    BY <2>1 DEF OthersFit
<1>10. LeavesAlike(n, m, stars, takes, next, fits)
  BY <1>3, <1>6, <1>8, <1>9 DEF LeavesAlike
<1> QED
  BY <1>1, <1>10 DEF m, stars, takes, fits

(* The tokens of a pattern at each character of it, and the character after *)
(* each.                                                                    *)
TokensOf(pattern) == [i \in 1..Len(pattern) |-> L!TokenAt(pattern, i)]
NextOf(pattern) == [i \in 1..Len(pattern) |-> i + L!Width(pattern, i)]

(* A token is one character long, or two of them with a tilde before; a     *)
(* star is one.                                                             *)
LEMMA NextIsAfter ==
    ASSUME NEW pattern, Len(pattern) \in Nat
    PROVE  /\ NextOf(pattern) \in [1..Len(pattern) -> 2..(Len(pattern) + 1)]
           /\ \A i \in 1..Len(pattern) :
                /\ L!Width(pattern, i) \in 1..2 /\ (L!Width(pattern, i) = 2 <=> L!Escapes(pattern, i))
                /\ i + L!Width(pattern, i) <= Len(pattern) + 1
                /\ L!TokenAt(pattern, i) = L!StarToken => L!Width(pattern, i) = 1
<1> DEFINE n == Len(pattern)
<1>1. ASSUME NEW i \in 1..n
      PROVE  /\ L!Width(pattern, i) \in 1..2 /\ (L!Width(pattern, i) = 2 <=> L!Escapes(pattern, i))
             /\ i + L!Width(pattern, i) <= n + 1
             /\ L!TokenAt(pattern, i) = L!StarToken => L!Width(pattern, i) = 1
  <2>1. CASE L!Escapes(pattern, i)
    <3>1. L!Width(pattern, i) = 2 /\ i < n
      BY <2>1 DEF L!Width, L!Escapes
    <3>2. L!TokenAt(pattern, i) = L!Literal(pattern[i + 1])
      <4>1. pattern[i] = 126
        BY <2>1 DEF L!Escapes, L!Tilde
      <4>2. pattern[i] # L!Star /\ pattern[i] # L!Question
        BY <4>1 DEF L!Star, L!Question
      <4> QED
        BY <2>1, <4>2 DEF L!TokenAt
    <3>3. L!TokenAt(pattern, i) # L!StarToken
      BY <3>2, TokensDiffer
    <3> QED
      BY <2>1, <3>1, <3>3
  <2>2. CASE ~L!Escapes(pattern, i)
    <3>1. L!Width(pattern, i) = 1
      BY <2>2 DEF L!Width
    <3> QED
      BY <2>2, <3>1
  <2> QED
    BY <2>1, <2>2
<1>2. \A i \in 1..n : i + L!Width(pattern, i) \in 2..(n + 1)
  BY <1>1
<1> QED
  BY <1>1, <1>2 DEF NextOf

(* A pattern is tokenized from its end.                                     *)
IsTokenizing(from, pattern) ==
    from = [i \in 1..(Len(pattern) + 1) |->
               IF i > Len(pattern) THEN <<>>
               ELSE <<L!TokenAt(pattern, i)>> \o from[i + L!Width(pattern, i)]]

(* There is such a tokenizing, each token made before those that follow it. *)
LEMMA SomeTokenizing ==
    ASSUME NEW pattern, Len(pattern) \in Nat
    PROVE  \E from : IsTokenizing(from, pattern)
<1> DEFINE n == Len(pattern)
           tok == TokensOf(pattern)
           U == {tok[i] : i \in 1..n}
           S == Seq(U)
           two(i) == L!Width(pattern, i) = 2
           g == [x \in (S \X S) \X (1..n) |->
                    <<<<tok[n + 1 - x[2]]>> \o (IF two(n + 1 - x[2]) THEN x[1][2] ELSE x[1][1]), x[1][1]>>]
           base == <<<<>>, <<>>>>
<1>1. n \in Nat
  OBVIOUS
<1>2. \A i \in 1..n : <<tok[i]>> \in S
  <2>1. \A i \in 1..n : tok[i] \in U
    OBVIOUS
  <2> HIDE DEF U, tok
  <2> QED
    BY <2>1
<1>3. \A a \in S, b \in S : a \o b \in S
  <2> HIDE DEF U
  <2> QED
    OBVIOUS
<1>4. <<>> \in S /\ base \in S \X S
  <2>1. <<>> \in S
    OBVIOUS
  <2> HIDE DEF S
  <2> QED
    BY <2>1
<1> HIDE DEF U, S, tok
<1>5. g \in [(S \X S) \X (1..n) -> S \X S]
  <2>1. ASSUME NEW x \in (S \X S) \X (1..n)
        PROVE  <<<<tok[n + 1 - x[2]]>> \o (IF two(n + 1 - x[2]) THEN x[1][2] ELSE x[1][1]), x[1][1]>> \in S \X S
    <3>1. x[1][1] \in S /\ x[1][2] \in S /\ n + 1 - x[2] \in 1..n
      BY <1>1
    <3> DEFINE rest == IF two(n + 1 - x[2]) THEN x[1][2] ELSE x[1][1]
               one == <<tok[n + 1 - x[2]]>>
    <3>2. rest \in S
      BY <3>1
    <3>3. one \in S
      BY <1>2, <3>1
    <3> HIDE DEF rest, one
    <3>4. one \o rest \in S
      BY <1>3, <3>2, <3>3
    <3> QED
      BY <3>1, <3>4 DEF one, rest
  <2> QED
    BY <2>1
<1>6. IsRule(g, base, S \X S, n)
  BY <1>1, <1>4, <1>5 DEF IsRule
<1>7. PICK f : Follows(f, g, base, S \X S, n)
  BY <1>6, Iterates
<1>8. f \in [0..n -> S \X S] /\ f[0] = base
  BY <1>7 DEF Follows
<1>9. \A k \in 1..n :
          /\ f[k][1] = <<tok[n + 1 - k]>> \o (IF two(n + 1 - k) THEN f[k - 1][2] ELSE f[k - 1][1])
          /\ f[k][2] = f[k - 1][1]
  <2>1. ASSUME NEW k \in 1..n
        PROVE  /\ f[k][1] = <<tok[n + 1 - k]>> \o (IF two(n + 1 - k) THEN f[k - 1][2] ELSE f[k - 1][1])
               /\ f[k][2] = f[k - 1][1]
    <3>1. f[k] = g[<<f[k - 1], k>>]
      BY <1>7 DEF Follows
    <3>2. k - 1 \in 0..n
      BY <1>1
    <3>3. <<f[k - 1], k>> \in (S \X S) \X (1..n)
      BY <1>8, <3>2
    <3>4. g[<<f[k - 1], k>>]
          = <<<<tok[n + 1 - k]>> \o (IF two(n + 1 - k) THEN f[k - 1][2] ELSE f[k - 1][1]), f[k - 1][1]>>
      BY <3>3
    <3> HIDE DEF g
    <3> QED
      BY <3>1, <3>4
  <2> QED
    BY <2>1
<1> HIDE DEF g
<1> DEFINE from == [i \in 1..(n + 1) |-> f[n + 1 - i][1]]
           body(i) == IF i > n THEN <<>> ELSE <<L!TokenAt(pattern, i)>> \o from[i + L!Width(pattern, i)]
<1>10. ASSUME NEW i \in 1..(n + 1)
       PROVE  from[i] = body(i)
  <2>1. from[i] = f[n + 1 - i][1]
    OBVIOUS
  <2>2. CASE i > n
    <3>1. n + 1 - i = 0 /\ base[1] = <<>>
      BY <1>1, <2>2
    <3> QED
      BY <1>8, <2>1, <2>2, <3>1
  <2>3. CASE i <= n
    <3> DEFINE k == n + 1 - i
    <3>1. k \in 1..n /\ n + 1 - k = i /\ i \in 1..n /\ n + 1 - (i + 1) = k - 1
      BY <1>1, <2>3
    <3>2. /\ L!Width(pattern, i) \in 1..2 /\ i + L!Width(pattern, i) <= n + 1
          /\ tok[i] = L!TokenAt(pattern, i)
      BY <3>1, NextIsAfter DEF tok, TokensOf
    <3>3. /\ from[i] = <<tok[i]>> \o (IF two(i) THEN f[k - 1][2] ELSE f[k - 1][1])
      BY <1>9, <2>1, <3>1
    <3>4. CASE L!Width(pattern, i) = 2
      <4>1. k - 1 \in 1..n /\ n + 1 - (i + 2) = (k - 1) - 1 /\ i + 2 \in 1..(n + 1)
        BY <1>1, <3>1, <3>2, <3>4
      <4>2. f[k - 1][2] = f[(k - 1) - 1][1]
        BY <1>9, <4>1
      <4>3. from[i + 2] = f[n + 1 - (i + 2)][1]
        BY <4>1
      <4>4. from[i + 2] = f[k - 1][2]
        BY <4>1, <4>2, <4>3
      <4>5. body(i) = <<tok[i]>> \o from[i + 2]
        <5> HIDE DEF from
        <5> QED
          BY <1>1, <2>3, <3>2, <3>4
      <4> HIDE DEF from, body, k
      <4> QED
        BY <3>3, <3>4, <4>4, <4>5
    <3>5. CASE L!Width(pattern, i) # 2
      <4>1. L!Width(pattern, i) = 1 /\ i + 1 \in 1..(n + 1)
        BY <1>1, <3>1, <3>2, <3>5
      <4>2. from[i + 1] = f[n + 1 - (i + 1)][1]
        BY <4>1
      <4>3. from[i + 1] = f[k - 1][1]
        BY <3>1, <4>2
      <4>4. body(i) = <<tok[i]>> \o from[i + 1]
        <5> HIDE DEF from
        <5> QED
          BY <1>1, <2>3, <3>2, <4>1
      <4> HIDE DEF from, body, k
      <4> QED
        BY <3>3, <3>5, <4>3, <4>4
    <3> QED
      BY <3>4, <3>5
  <2> QED
    BY <1>1, <2>2, <2>3
<1>11. DOMAIN from = 1..(n + 1)
  OBVIOUS
<1>12. from = [i \in 1..(n + 1) |-> body(i)]
  <2>1. from = [i \in 1..(n + 1) |-> from[i]]
    OBVIOUS
  <2> HIDE DEF from, body
  <2> QED
    BY <1>10, <2>1
<1>13. IsTokenizing(from, pattern)
  <2> HIDE DEF from
  <2> QED
    BY <1>12 DEF IsTokenizing
<1> QED
  BY <1>13

(* It is read token by token.                                               *)
LEMMA TokenizeIs ==
    ASSUME NEW pattern, Len(pattern) \in Nat
    PROVE  \E from : /\ IsReading(from, TokensOf(pattern), NextOf(pattern), Len(pattern))
                     /\ L!Tokenize(pattern) = from[1]
<1> DEFINE n == Len(pattern)
           Rec(f) == f = [i \in 1..(n + 1) |->
                             IF i > n THEN <<>> ELSE <<L!TokenAt(pattern, i)>> \o f[i + L!Width(pattern, i)]]
           from == CHOOSE f : Rec(f)
<1>1. n \in Nat
  OBVIOUS
<1>2. L!Tokenize(pattern) = from[1]
  BY DEF L!Tokenize
<1>3. Rec(from)
  <2>1. \E f : Rec(f)
    <3>1. PICK f : IsTokenizing(f, pattern)
      BY SomeTokenizing
    <3>2. Rec(f)
      BY <3>1 DEF IsTokenizing
    <3> HIDE DEF Rec
    <3> QED
      BY <3>2
  <2> HIDE DEF Rec
  <2> QED
    BY <2>1
<1>4. /\ from[n + 1] = <<>>
      /\ \A i \in 1..n : from[i] = <<L!TokenAt(pattern, i)>> \o from[i + L!Width(pattern, i)]
  <2> DEFINE body(i) == IF i > n THEN <<>> ELSE <<L!TokenAt(pattern, i)>> \o from[i + L!Width(pattern, i)]
  <2>1. \A i \in 1..(n + 1) : from[i] = body(i)
    <3> HIDE DEF from
    <3>1. from = [i \in 1..(n + 1) |-> body(i)]
      BY <1>3
    <3> HIDE DEF body
    <3> QED
      BY <3>1
  <2> HIDE DEF from
  <2>2. n + 1 \in 1..(n + 1) /\ n + 1 > n
    BY <1>1
  <2>3. \A i \in 1..n : i \in 1..(n + 1) /\ ~(i > n)
    BY <1>1
  <2> QED
    BY <2>1, <2>2, <2>3
<1> HIDE DEF from, n
<1>5. \A i \in 1..n : /\ L!Width(pattern, i) \in 1..2 /\ i + L!Width(pattern, i) <= n + 1
                      /\ L!TokenAt(pattern, i) = L!StarToken => L!Width(pattern, i) = 1
  BY NextIsAfter DEF n
<1>6. \A i \in 1..(n + 1) : IsSequence(from[i])
  <2> DEFINE Late == {k \in 0..n : \A i \in (n + 1 - k)..(n + 1) : IsSequence(from[i])}
  <2>1. 0 \in Late
    <3>1. IsSequence(<<>>)
      BY DEF IsSequence
    <3>2. \A i \in (n + 1 - 0)..(n + 1) : i = n + 1
      BY <1>1
    <3> QED
      BY <1>1, <1>4, <3>1, <3>2
  <2>2. ASSUME NEW k \in 0..(n - 1), k \in Late
        PROVE  k + 1 \in Late
    <3>1. k + 1 \in 0..n
      BY <1>1
    <3>2. ASSUME NEW i \in (n + 1 - (k + 1))..(n + 1)
          PROVE  IsSequence(from[i])
      <4>1. CASE i \in (n + 1 - k)..(n + 1)
        BY <2>2, <4>1
      <4>2. CASE i \notin (n + 1 - k)..(n + 1)
        <5> DEFINE j == i + L!Width(pattern, i)
        <5>1. i \in 1..n /\ i + 1 = n + 1 - k
          BY <1>1, <4>2
        <5>2. j \in (n + 1 - k)..(n + 1)
          BY <1>1, <1>5, <5>1
        <5> HIDE DEF j
        <5>3. IsSequence(from[j])
          BY <2>2, <5>2
        <5>4. from[i] = <<L!TokenAt(pattern, i)>> \o from[j]
          BY <1>4, <5>1 DEF j
        <5> QED
          BY <5>3, <5>4, OneBefore
      <4> QED
        BY <4>1, <4>2
    <3> QED
      BY <3>1, <3>2
  <2> HIDE DEF Late
  <2>3. 0..n \subseteq Late
    <3>1. 0 \in Nat
      OBVIOUS
    <3> QED
      BY <1>1, <2>1, <2>2, <3>1, GoesOn
  <2>4. n \in Late
    BY <1>1, <2>3
  <2>5. \A i \in 1..(n + 1) : i \in (n + 1 - n)..(n + 1)
    BY <1>1
  <2> QED
    BY <2>4, <2>5 DEF Late
<1>7. ASSUME NEW p \in 1..n
      PROVE  /\ NextOf(pattern)[p] = p + L!Width(pattern, p) /\ TokensOf(pattern)[p] = L!TokenAt(pattern, p)
             /\ NextOf(pattern)[p] \in 2..(n + 1) /\ NextOf(pattern)[p] > p
  <2>1. NextOf(pattern)[p] = p + L!Width(pattern, p) /\ TokensOf(pattern)[p] = L!TokenAt(pattern, p)
    BY DEF NextOf, TokensOf, n
  <2> QED
    BY <1>1, <1>5, <2>1
<1>8. IsReading(from, TokensOf(pattern), NextOf(pattern), n)
  BY <1>1, <1>4, <1>5, <1>6, <1>7 DEF IsReading
<1> QED
  BY <1>2, <1>8 DEF n

(* Where a greedy search goes on from a place, or whether it has won.       *)
Searched(run, at, n, m, stars, takes, next) ==
    IF at.t > m THEN at.p..n \subseteq stars
    ELSE IF at.p \in stars THEN run[L!Starred(at)]
    ELSE IF <<at.p, at.t>> \in takes THEN run[L!Passed(at, next[at.p] - at.p)]
    ELSE IF at.star # 0 THEN run[L!Retried(at)]
    ELSE FALSE
IsSearch(run, n, m, stars, takes, next) ==
    run = [at \in Spots(n, m) |-> Searched(run, at, n, m, stars, takes, next)]

(* There is a greedy search of every pattern.                               *)
LEMMA SomeSearch ==
    ASSUME NEW n, NEW m, NEW stars, NEW takes, NEW next, IsPattern(n, m, stars, takes, next)
    PROVE  \E run : IsSearch(run, n, m, stars, takes, next)
<1> DEFINE S == Spots(n, m)
           goes == {at \in S : at.t <= m /\ (at.p \in stars \/ <<at.p, at.t>> \in takes \/ at.star # 0)}
           wins == {at \in S : at.t > m /\ at.p..n \subseteq stars}
           then == [at \in S |->
                      IF at.p \in stars THEN L!Starred(at)
                      ELSE IF <<at.p, at.t>> \in takes THEN L!Passed(at, next[at.p] - at.p)
                      ELSE L!Retried(at)]
<1>1. PICK W \in SUBSET S : IsWon(W, S, goes, wins, then)
  <2> HIDE DEF S, goes, wins, then
  <2> QED
    BY SomeWin
<1> DEFINE run == [at \in S |-> at \in W]
<1>2. ASSUME NEW at \in S
      PROVE  run[at] = Searched(run, at, n, m, stars, takes, next)
  <2>0. n \in Nat /\ m \in Nat
    BY DEF IsPattern
  <2>1. run[at] = (at \in W)
    OBVIOUS
  <2>2. \A b \in S : run[b] = (b \in W)
    OBVIOUS
  <2>3. /\ at.p \in stars => L!Starred(at) \in S
        /\ <<at.p, at.t>> \in takes => L!Passed(at, next[at.p] - at.p) \in S
        /\ at.t <= m => L!Retried(at) \in S
    BY PlacesGoOn
  <2>4. /\ at \in goes <=> at.t <= m /\ (at.p \in stars \/ <<at.p, at.t>> \in takes \/ at.star # 0)
        /\ at \in wins <=> at.t > m /\ at.p..n \subseteq stars
    OBVIOUS
  <2>5. then[at] = IF at.p \in stars THEN L!Starred(at)
                   ELSE IF <<at.p, at.t>> \in takes THEN L!Passed(at, next[at.p] - at.p)
                   ELSE L!Retried(at)
    OBVIOUS
  <2>6. at.t > m <=> ~(at.t <= m)
    BY <2>0 DEF Spots
  <2>7. at \in W <=> IF at \in goes THEN then[at] \in W ELSE at \in wins
    BY <1>1 DEF IsWon
  <2> HIDE DEF goes, wins, then, run, S
  <2>8. CASE at.t > m
    <3>1. Searched(run, at, n, m, stars, takes, next) = (at.p..n \subseteq stars)
      BY <2>8 DEF Searched
    <3>2. (at \in W) = (at.p..n \subseteq stars)
      BY <2>4, <2>6, <2>7, <2>8
    <3> QED
      BY <2>1, <3>1, <3>2
  <2>9. CASE at.t <= m /\ at.p \in stars
    <3>1. Searched(run, at, n, m, stars, takes, next) = run[L!Starred(at)]
      BY <2>6, <2>9 DEF Searched
    <3>2. (at \in W) = (L!Starred(at) \in W)
      BY <2>4, <2>5, <2>7, <2>9
    <3> QED
      BY <2>1, <2>2, <2>3, <2>9, <3>1, <3>2
  <2>10. CASE at.t <= m /\ at.p \notin stars /\ <<at.p, at.t>> \in takes
    <3> DEFINE to == L!Passed(at, next[at.p] - at.p)
    <3>1. Searched(run, at, n, m, stars, takes, next) = run[to]
      BY <2>6, <2>10 DEF Searched
    <3>2. (at \in W) = (to \in W)
      BY <2>4, <2>5, <2>7, <2>10
    <3>3. to \in S
      BY <2>3, <2>10
    <3> QED
      BY <2>1, <2>2, <3>1, <3>2, <3>3
  <2>11. CASE at.t <= m /\ at.p \notin stars /\ <<at.p, at.t>> \notin takes /\ at.star # 0
    <3>1. Searched(run, at, n, m, stars, takes, next) = run[L!Retried(at)]
      BY <2>6, <2>11 DEF Searched
    <3>2. (at \in W) = (L!Retried(at) \in W)
      BY <2>4, <2>5, <2>7, <2>11
    <3> QED
      BY <2>1, <2>2, <2>3, <2>11, <3>1, <3>2
  <2>12. CASE at.t <= m /\ at.p \notin stars /\ <<at.p, at.t>> \notin takes /\ at.star = 0
    <3>1. Searched(run, at, n, m, stars, takes, next) = FALSE
      BY <2>6, <2>12 DEF Searched
    <3>2. (at \in W) = FALSE
      BY <2>4, <2>6, <2>7, <2>12
    <3> QED
      BY <2>1, <3>1, <3>2
  <2> QED
    BY <2>6, <2>8, <2>9, <2>10, <2>11, <2>12
<1>3. run = [at \in S |-> run[at]]
  OBVIOUS
<1> HIDE DEF run
<1>4. run = [at \in S |-> Searched(run, at, n, m, stars, takes, next)]
  BY <1>2, <1>3
<1>5. IsSearch(run, n, m, stars, takes, next)
  BY <1>4 DEF IsSearch
<1> QED
  BY <1>5

(* Every greedy search finds whether the whole matches the whole.           *)
LEMMA SearchIs ==
    ASSUME NEW n, NEW m, NEW stars, NEW takes, NEW next, IsPattern(n, m, stars, takes, next),
           NEW fits, LeavesAlike(n, m, stars, takes, next, fits),
           NEW run, IsSearch(run, n, m, stars, takes, next)
    PROVE  run[L!Beginning] = (<<1, 1>> \in fits)
<1>0. n \in Nat /\ m \in Nat
  BY DEF IsPattern
<1>1. \A at \in Spots(n, m) : run[at] = Searched(run, at, n, m, stars, takes, next)
  <2> DEFINE all == [at \in Spots(n, m) |-> Searched(run, at, n, m, stars, takes, next)]
  <2>1. run = all
    BY DEF IsSearch
  <2>2. \A at \in Spots(n, m) : all[at] = Searched(run, at, n, m, stars, takes, next)
    OBVIOUS
  <2> HIDE DEF all
  <2> QED
    BY <2>1, <2>2
<1>2. \A at \in Spots(n, m) : (at.t > m <=> ~(at.t <= m)) /\ (at.p..n \subseteq stars) \in BOOLEAN
  BY <1>0 DEF Spots
<1>3. \A at \in Spots(n, m) :
        /\ at.p \in stars => L!Starred(at) \in Spots(n, m)
        /\ <<at.p, at.t>> \in takes => L!Passed(at, next[at.p] - at.p) \in Spots(n, m)
        /\ at.t <= m => L!Retried(at) \in Spots(n, m)
  <2> SUFFICES ASSUME NEW at \in Spots(n, m)
               PROVE  /\ at.p \in stars => L!Starred(at) \in Spots(n, m)
                      /\ <<at.p, at.t>> \in takes => L!Passed(at, next[at.p] - at.p) \in Spots(n, m)
                      /\ at.t <= m => L!Retried(at) \in Spots(n, m)
    OBVIOUS
  <2> QED
    BY PlacesGoOn
<1>4. L!Beginning \in Spots(n, m)
  <2>1. /\ L!Beginning \in [p : 1..(n + 1), t : 1..(m + 1), star : 0..n, resume : 1..(m + 1)]
        /\ L!Beginning.resume = 1 /\ L!Beginning.t = 1
    BY <1>0 DEF L!Beginning, L!NoStar
  <2> QED
    BY <2>1 DEF Spots
<1>5. ASSUME NEW W, \A at \in Spots(n, m) : at \in W <=> run[at] = TRUE
      PROVE  IsGreedy(W, n, m, stars, takes, next)
  <2>1. ASSUME NEW at \in Spots(n, m)
        PROVE  at \in W <=>
                   IF at.t > m THEN at.p..n \subseteq stars
                   ELSE IF at.p \in stars THEN L!Starred(at) \in W
                   ELSE IF <<at.p, at.t>> \in takes THEN L!Passed(at, next[at.p] - at.p) \in W
                   ELSE at.star # 0 /\ L!Retried(at) \in W
    BY <1>1, <1>2, <1>3, <1>5 DEF Searched
  <2> QED
    BY <2>1 DEF IsGreedy
<1>6. ASSUME NEW W, \A at \in Spots(n, m) : at \in W <=> run[at] # FALSE
      PROVE  IsGreedy(W, n, m, stars, takes, next)
  <2>1. ASSUME NEW at \in Spots(n, m)
        PROVE  at \in W <=>
                   IF at.t > m THEN at.p..n \subseteq stars
                   ELSE IF at.p \in stars THEN L!Starred(at) \in W
                   ELSE IF <<at.p, at.t>> \in takes THEN L!Passed(at, next[at.p] - at.p) \in W
                   ELSE at.star # 0 /\ L!Retried(at) \in W
    BY <1>1, <1>2, <1>3, <1>6 DEF Searched
  <2> QED
    BY <2>1 DEF IsGreedy
<1>7. run[L!Beginning] = TRUE <=> <<1, 1>> \in fits
  <2> DEFINE W == {at \in Spots(n, m) : run[at] = TRUE}
  <2>1. \A at \in Spots(n, m) : at \in W <=> run[at] = TRUE
    OBVIOUS
  <2> HIDE DEF W
  <2> QED
    BY <1>4, <1>5, <2>1, GreedyIsRight
<1>8. run[L!Beginning] # FALSE <=> <<1, 1>> \in fits
  <2> DEFINE W == {at \in Spots(n, m) : run[at] # FALSE}
  <2>1. \A at \in Spots(n, m) : at \in W <=> run[at] # FALSE
    OBVIOUS
  <2> HIDE DEF W
  <2> QED
    BY <1>4, <1>6, <2>1, GreedyIsRight
<1>9. CASE <<1, 1>> \in fits
  <2>1. (<<1, 1>> \in fits) = TRUE
    BY <1>9
  <2> QED
    BY <1>7, <1>9, <2>1
<1>10. CASE <<1, 1>> \notin fits
  <2>1. (<<1, 1>> \in fits) = FALSE
    BY <1>10
  <2> QED
    BY <1>8, <1>10, <2>1
<1> QED
  BY <1>9, <1>10

(* A list of tokens is read token by token.                                 *)
RestsOf(tokens) ==
    [p \in 1..(Len(tokens) + 1) |-> [j \in 1..(Len(tokens) + 1 - p) |-> tokens[p + j - 1]]]

(* So the rests of a list are its reading, from the whole of it on.         *)
LEMMA ListIsRead ==
    ASSUME NEW tokens, IsSequence(tokens)
    PROVE  /\ IsReading(RestsOf(tokens), tokens, [p \in 1..Len(tokens) |-> p + 1], Len(tokens))
           /\ RestsOf(tokens)[1] = tokens
<1> DEFINE n == Len(tokens)
           next == [p \in 1..n |-> p + 1]
           rests == RestsOf(tokens)
           rest(p) == [j \in 1..(n + 1 - p) |-> tokens[p + j - 1]]
<1>1. n \in Nat /\ tokens = [i \in 1..n |-> tokens[i]]
  BY SequenceIsList
<1>2. \A p \in 1..(n + 1) : rests[p] = rest(p)
  BY DEF RestsOf
<1>3. \A p \in 1..n : next[p] = p + 1
  OBVIOUS
<1> HIDE DEF rests, next, n
<1>4. ASSUME NEW p \in 1..(n + 1)
      PROVE  /\ IsSequence(rest(p)) /\ Len(rest(p)) = n + 1 - p /\ DOMAIN rest(p) = 1..(n + 1 - p)
             /\ \A j \in 1..(n + 1 - p) : rest(p)[j] = tokens[p + j - 1]
  <2>1. n + 1 - p \in Nat
    BY <1>1
  <2>2. rest(p) = [j \in 1..(n + 1 - p) |-> rest(p)[j]]
    OBVIOUS
  <2>3. \A j \in 1..(n + 1 - p) : rest(p)[j] = tokens[p + j - 1]
    OBVIOUS
  <2> DEFINE s == rest(p)
  <2> HIDE DEF rest
  <2>4. s = [j \in 1..(n + 1 - p) |-> s[j]]
    BY <2>2
  <2> HIDE DEF s
  <2>5. Len(s) = n + 1 - p /\ IsSequence(s) /\ DOMAIN s = 1..(n + 1 - p)
    BY <2>1, <2>4, ListIsSequence
  <2> QED
    BY <2>3, <2>5 DEF s
<1>5. rests[n + 1] = <<>>
  <2> DEFINE s == rest(n + 1)
  <2>1. n + 1 \in 1..(n + 1) /\ n + 1 - (n + 1) = 0
    BY <1>1
  <2>2. s = [j \in 1..0 |-> tokens[(n + 1) + j - 1]]
    BY <2>1
  <2>3. DOMAIN s = {}
    BY <2>2
  <2>4. s = <<>>
    BY <2>2
  <2> QED
    BY <1>2, <2>1, <2>4
<1>6. ASSUME NEW p \in 1..n
      PROVE  rests[p] = <<tokens[p]>> \o rests[p + 1]
  <2>1. p \in 1..(n + 1) /\ p + 1 \in 1..(n + 1) /\ n + 1 - (p + 1) = n - p /\ n - p \in Nat
        /\ n + 1 - p = (n - p) + 1
    BY <1>1
  <2> DEFINE a == rest(p)
             b == rest(p + 1)
             c == <<tokens[p]>> \o b
  <2>2. /\ IsSequence(b) /\ Len(b) = n - p /\ \A j \in 1..(n - p) : b[j] = tokens[(p + 1) + j - 1]
    BY <1>4, <2>1
  <2>3. /\ IsSequence(a) /\ Len(a) = (n - p) + 1
        /\ \A j \in 1..((n - p) + 1) : a[j] = tokens[p + j - 1]
    BY <1>4, <2>1
  <2> HIDE DEF a, b
  <2>4. /\ IsSequence(c) /\ Len(c) = (n - p) + 1 /\ c[1] = tokens[p]
        /\ \A i \in 1..(n - p) : c[i + 1] = b[i]
    BY <2>2, OneBefore
  <2> HIDE DEF c
  <2>5. ASSUME NEW j \in 1..((n - p) + 1)
        PROVE  a[j] = c[j]
    <3>1. a[j] = tokens[p + j - 1]
      BY <2>3
    <3>2. CASE j = 1
      <4>1. p + 1 - 1 = p
        BY <2>1
      <4> QED
        BY <2>4, <3>1, <3>2, <4>1
    <3>3. CASE j # 1
      <4> DEFINE i == j - 1
      <4>1. i \in 1..(n - p) /\ i + 1 = j /\ (p + 1) + i - 1 = p + j - 1
        BY <2>1, <3>3
      <4> HIDE DEF i
      <4>2. c[j] = b[i] /\ b[i] = tokens[p + j - 1]
        BY <2>2, <2>4, <4>1
      <4> QED
        BY <3>1, <4>2
    <3> QED
      BY <3>2, <3>3
  <2>6. a = [j \in 1..((n - p) + 1) |-> a[j]] /\ c = [j \in 1..((n - p) + 1) |-> c[j]]
    BY <2>3, <2>4, SequenceIsList
  <2>7. a = c
    BY <2>5, <2>6
  <2>8. rests[p] = a /\ rests[p + 1] = b
    BY <1>2, <2>1 DEF a, b
  <2> QED
    BY <2>7, <2>8 DEF c
<1>7. rests[1] = tokens
  <2>1. 1 \in 1..(n + 1) /\ n + 1 - 1 = n /\ \A j \in 1..n : 1 + j - 1 = j
    BY <1>1
  <2>2. rest(1) = [j \in 1..n |-> tokens[j]]
    BY <2>1
  <2> QED
    BY <1>1, <1>2, <2>1, <2>2
<1>8. \A p \in 1..n : next[p] \in 2..(n + 1) /\ next[p] > p
  BY <1>1, <1>3
<1>9. \A p \in 1..(n + 1) : IsSequence(rests[p])
  BY <1>2, <1>4
<1>10. IsReading(rests, tokens, next, n)
  BY <1>1, <1>3, <1>5, <1>6, <1>8, <1>9 DEF IsReading
<1> QED
  BY <1>7, <1>10 DEF next, n, rests

(* Greedy search over what is read token by token shares it out.            *)
LEMMA ReadingIsSearched ==
    ASSUME NEW rests, NEW token, NEW n, NEW next \in [1..n -> 2..(n + 1)], IsReading(rests, token, next, n),
           NEW text, Len(text) \in Nat
    PROVE  /\ IsPattern(n, Len(text), Stars(token, n), Takers(token, text, n), next)
           /\ \A run : IsSearch(run, n, Len(text), Stars(token, n), Takers(token, text, n), next)
                       => run[L!Beginning] = SharesOut(rests[1], text)
<1> DEFINE m == Len(text)
           stars == Stars(token, n)
           takes == Takers(token, text, n)
           fits == Sharers(rests, text, n)
<1>1. IsPattern(n, m, stars, takes, next) /\ LeavesAlike(n, m, stars, takes, next, fits)
  BY ReadingLeaves
<1>2. 1 \in 1..(n + 1) /\ 1 \in 1..(m + 1) /\ IsSequence(rests[1])
  <2>1. n \in Nat /\ m \in Nat
    BY DEF IsReading
  <2>2. 1 \in 1..(n + 1)
    BY <2>1
  <2> QED
    BY <2>1, <2>2 DEF IsReading
<1>3. <<1, 1>> \in fits <=> SharesOut(rests[1], text)
  BY <1>2, SharesOutIs DEF Sharers
<1>4. SharesOut(rests[1], text) \in BOOLEAN
  BY DEF SharesOut
<1> HIDE DEF fits, takes, stars, m
<1>5. ASSUME NEW run, IsSearch(run, n, m, stars, takes, next)
      PROVE  run[L!Beginning] = SharesOut(rests[1], text)
  <2>1. run[L!Beginning] = (<<1, 1>> \in fits)
    BY <1>1, <1>5, SearchIs
  <2>2. CASE SharesOut(rests[1], text)
    <3>1. (<<1, 1>> \in fits) = TRUE
      BY <1>3, <2>2
    <3>2. SharesOut(rests[1], text) = TRUE
      BY <1>4, <2>2
    <3> QED
      BY <2>1, <3>1, <3>2
  <2>3. CASE ~SharesOut(rests[1], text)
    <3>1. (<<1, 1>> \in fits) = FALSE
      BY <1>3, <2>3
    <3>2. SharesOut(rests[1], text) = FALSE
      BY <1>4, <2>3
    <3> QED
      BY <2>1, <3>1, <3>2
  <2> QED
    BY <2>2, <2>3
<1> QED
  BY <1>1, <1>5 DEF m, stars, takes

(* The wildcards of the lookups: the tokens share the text out.             *)
LEMMA WildcardIs ==
    ASSUME NEW pattern, IsSequence(pattern), NEW text, IsSequence(text)
    PROVE  L!WildcardMatches(pattern, text) = SharesOut(L!Tokenize(pattern), text)
<1> DEFINE pat == L!Tokenize(pattern)
           n == Len(pat)
           m == Len(text)
           next == [p \in 1..n |-> p + 1]
           stars == Stars(pat, n)
           takes == Takers(pat, text, n)
           body(run, at) ==
               IF at.t > Len(text) THEN \A i \in at.p..Len(pat) : pat[i] = L!StarToken
               ELSE IF at.p <= Len(pat) /\ pat[at.p] = L!StarToken THEN run[L!Starred(at)]
               ELSE IF at.p <= Len(pat) /\ pat[at.p] \in {L!AnyToken, L!Literal(text[at.t])}
                    THEN run[L!Passed(at, 1)]
               ELSE IF at.star # L!NoStar THEN run[L!Retried(at)]
               ELSE FALSE
           Rec(f) == f = [at \in L!Places(pat, text) |-> body(f, at)]
           run == CHOOSE f : Rec(f)
<1>1. L!WildcardMatches(pattern, text) = run[L!Beginning]
  BY DEF L!WildcardMatches
<1> HIDE DEF run
<1>2. IsSequence(pat)
  <2>1. PICK from : IsReading(from, TokensOf(pattern), NextOf(pattern), Len(pattern)) /\ pat = from[1]
    BY TokenizeIs, SequenceIsList
  <2>2. 1 \in 1..(Len(pattern) + 1)
    BY SequenceIsList
  <2> QED
    BY <2>1, <2>2 DEF IsReading
<1> HIDE DEF pat
<1>3. n \in Nat /\ m \in Nat
  BY <1>2, SequenceIsList
<1>4. L!Places(pat, text) = Spots(n, m)
  BY DEF L!Places, Spots
<1>5. /\ IsReading(RestsOf(pat), pat, next, n) /\ RestsOf(pat)[1] = pat
      /\ next \in [1..n -> 2..(n + 1)]
  <2>1. next \in [1..n -> 2..(n + 1)]
    BY <1>3
  <2> QED
    BY <1>2, <2>1, ListIsRead
<1>6. /\ IsPattern(n, m, stars, takes, next)
      /\ \A f : IsSearch(f, n, m, stars, takes, next) => f[L!Beginning] = SharesOut(pat, text)
  <2> HIDE DEF next, n, stars, takes, m
  <2>1. /\ IsPattern(n, Len(text), Stars(pat, n), Takers(pat, text, n), next)
        /\ \A f : IsSearch(f, n, Len(text), Stars(pat, n), Takers(pat, text, n), next)
                  => f[L!Beginning] = SharesOut(RestsOf(pat)[1], text)
    <3>1. Len(text) \in Nat
      BY <1>3 DEF m
    <3> QED
      BY <1>5, <3>1, ReadingIsSearched
  <2> QED
    BY <1>5, <2>1 DEF m, stars, takes
<1>7. ASSUME NEW f, NEW at \in Spots(n, m)
      PROVE  body(f, at) = Searched(f, at, n, m, stars, takes, next)
  <2>1. /\ at.p \in 1..(n + 1) /\ at.t \in 1..(m + 1)
    BY DEF Spots
  <2>2. at.p <= n <=> at.p \in 1..n
    BY <1>3, <2>1
  <2>3. at.p \in stars <=> at.p <= n /\ pat[at.p] = L!StarToken
    BY <2>2 DEF Stars
  <2>4. (at.p..n \subseteq stars) = (\A i \in at.p..n : pat[i] = L!StarToken)
    <3>1. \A i \in at.p..n : i \in 1..n
      BY <1>3, <2>1
    <3>2. at.p..n \subseteq stars <=> \A i \in at.p..n : pat[i] = L!StarToken
      BY <3>1 DEF Stars
    <3> QED
      BY <3>2
  <2>5. ASSUME ~(at.t > m), ~(at.p <= n /\ pat[at.p] = L!StarToken)
        PROVE  <<at.p, at.t>> \in takes <=> at.p <= n /\ pat[at.p] \in {L!AnyToken, L!Literal(text[at.t])}
    <3>1. at.t \in 1..m
      BY <1>3, <2>1, <2>5
    <3>2. <<at.p, at.t>> \in takes
          <=> at.p \in 1..n /\ pat[at.p] # L!StarToken /\ TakesOne(pat[at.p], text[at.t])
      BY <3>1 DEF Takers
    <3> QED
      BY <2>2, <2>5, <3>2 DEF TakesOne
  <2>6. at.p <= n => L!Passed(at, next[at.p] - at.p) = L!Passed(at, 1)
    <3>1. ASSUME at.p <= n
          PROVE  next[at.p] - at.p = 1
      BY <1>3, <2>2, <3>1
    <3> QED
      BY <3>1
  <2> HIDE DEF stars, takes, next, n, m
  <2>7. body(f, at) =
               IF at.t > m THEN \A i \in at.p..n : pat[i] = L!StarToken
               ELSE IF at.p <= n /\ pat[at.p] = L!StarToken THEN f[L!Starred(at)]
               ELSE IF at.p <= n /\ pat[at.p] \in {L!AnyToken, L!Literal(text[at.t])}
                    THEN f[L!Passed(at, 1)]
               ELSE IF at.star # 0 THEN f[L!Retried(at)]
               ELSE FALSE
    BY DEF L!NoStar, n, m
  <2> HIDE DEF body
  <2>8. CASE at.t > m
    BY <2>4, <2>7, <2>8 DEF Searched
  <2>9. CASE ~(at.t > m)
    BY <2>3, <2>5, <2>6, <2>7, <2>9 DEF Searched
  <2> QED
    BY <2>8, <2>9
<1>8. ASSUME NEW f
      PROVE  Rec(f) <=> IsSearch(f, n, m, stars, takes, next)
  <2>1. [at \in Spots(n, m) |-> body(f, at)]
        = [at \in Spots(n, m) |-> Searched(f, at, n, m, stars, takes, next)]
    <3> HIDE DEF body, n, m, stars, takes, next
    <3> QED
      BY <1>7
  <2> QED
    BY <1>4, <2>1 DEF IsSearch
<1>9. Rec(run)
  <2>1. \E f : Rec(f)
    <3>1. PICK f : IsSearch(f, n, m, stars, takes, next)
      <4> HIDE DEF n, m, stars, takes, next
      <4> QED
        BY <1>6, SomeSearch
    <3>2. Rec(f)
      BY <1>8, <3>1
    <3> HIDE DEF Rec
    <3> QED
      BY <3>2
  <2> HIDE DEF Rec
  <2> QED
    BY <2>1 DEF run
<1>10. IsSearch(run, n, m, stars, takes, next)
  BY <1>8, <1>9
<1>11. run[L!Beginning] = SharesOut(pat, text)
  <2> HIDE DEF n, m, stars, takes, next
  <2> QED
    BY <1>6, <1>10
<1> QED
  BY <1>1, <1>11 DEF pat

(* What a character of the pattern is.                                      *)
LEMMA TokenIs ==
    ASSUME NEW pattern, NEW i
    PROVE  /\ L!TokenAt(pattern, i) = L!StarToken <=> pattern[i] = L!Star
           /\ L!TokenAt(pattern, i) = L!AnyToken <=> pattern[i] = L!Question
           /\ \A c : pattern[i] # L!Star /\ pattern[i] # L!Question =>
                (L!TokenAt(pattern, i) = L!Literal(c)
                 <=> IF L!Escapes(pattern, i) THEN pattern[i + 1] = c ELSE pattern[i] = c)
<1>1. L!Star # L!Question
  BY DEF L!Star, L!Question
<1>2. L!Escapes(pattern, i) => pattern[i] # L!Star /\ pattern[i] # L!Question
  <2>1. L!Tilde # L!Star /\ L!Tilde # L!Question
    BY DEF L!Tilde, L!Star, L!Question
  <2> QED
    BY <2>1 DEF L!Escapes
<1>3. CASE L!Escapes(pattern, i)
  <2>1. L!TokenAt(pattern, i) = L!Literal(pattern[i + 1])
    BY <1>2, <1>3 DEF L!TokenAt
  <2> QED
    BY <1>2, <1>3, <2>1, TokensDiffer
<1>4. CASE ~L!Escapes(pattern, i) /\ pattern[i] = L!Star
  <2>1. L!TokenAt(pattern, i) = L!StarToken
    BY <1>1, <1>4 DEF L!TokenAt
  <2> QED
    BY <1>1, <1>4, <2>1, TokensDiffer
<1>5. CASE ~L!Escapes(pattern, i) /\ pattern[i] = L!Question
  <2>1. L!TokenAt(pattern, i) = L!AnyToken
    BY <1>1, <1>5 DEF L!TokenAt
  <2> QED
    BY <1>1, <1>5, <2>1, TokensDiffer
<1>6. CASE ~L!Escapes(pattern, i) /\ pattern[i] # L!Star /\ pattern[i] # L!Question
  <2>1. L!TokenAt(pattern, i) = L!Literal(pattern[i])
    BY <1>6 DEF L!TokenAt
  <2> QED
    BY <1>6, <2>1, TokensDiffer
<1> QED
  BY <1>3, <1>4, <1>5, <1>6

(* The wildcards of the criteria, which read the pattern in place: they     *)
(* share the text out as its tokens do.                                     *)
LEMMA CriteriaIs ==
    ASSUME NEW pat, IsSequence(pat), NEW text, IsSequence(text)
    PROVE  L!CriteriaMatches(pat, text) = SharesOut(L!Tokenize(pat), text)
<1> DEFINE n == Len(pat)
           m == Len(text)
           token == TokensOf(pat)
           next == NextOf(pat)
           stars == Stars(token, n)
           takes == Takers(token, text, n)
           body(run, at) ==
               IF at.t > Len(text) THEN \A i \in at.p..Len(pat) : pat[i] = L!Star
               ELSE IF at.p <= Len(pat) /\ pat[at.p] = L!Star THEN run[L!Starred(at)]
               ELSE IF at.p <= Len(pat) /\ pat[at.p] = L!Question THEN run[L!Passed(at, 1)]
               ELSE IF at.p <= Len(pat) /\ L!Escapes(pat, at.p) /\ pat[at.p + 1] = text[at.t]
                    THEN run[L!Passed(at, 2)]
               ELSE IF at.p <= Len(pat) /\ ~L!Escapes(pat, at.p) /\ pat[at.p] = text[at.t]
                    THEN run[L!Passed(at, 1)]
               ELSE IF at.star # L!NoStar THEN run[L!Retried(at)]
               ELSE FALSE
           Rec(f) == f = [at \in L!Places(pat, text) |-> body(f, at)]
           run == CHOOSE f : Rec(f)
<1>1. L!CriteriaMatches(pat, text) = run[L!Beginning]
  BY DEF L!CriteriaMatches
<1> HIDE DEF run
<1>3. n \in Nat /\ m \in Nat
  BY SequenceIsList
<1>4. L!Places(pat, text) = Spots(n, m)
  BY DEF L!Places, Spots
<1>5. PICK rests : IsReading(rests, token, next, n) /\ L!Tokenize(pat) = rests[1]
  BY <1>3, TokenizeIs
<1>51. /\ next \in [1..n -> 2..(n + 1)]
       /\ \A i \in 1..n : /\ next[i] = i + L!Width(pat, i) /\ token[i] = L!TokenAt(pat, i)
                          /\ L!Width(pat, i) \in 1..2 /\ (L!Width(pat, i) = 2 <=> L!Escapes(pat, i))
  BY <1>3, NextIsAfter DEF NextOf, TokensOf
<1> HIDE DEF token, next
<1>6. /\ IsPattern(n, m, stars, takes, next)
      /\ \A f : IsSearch(f, n, m, stars, takes, next) => f[L!Beginning] = SharesOut(L!Tokenize(pat), text)
  <2> HIDE DEF n, stars, takes, m
  <2>1. /\ IsPattern(n, Len(text), Stars(token, n), Takers(token, text, n), next)
        /\ \A f : IsSearch(f, n, Len(text), Stars(token, n), Takers(token, text, n), next)
                  => f[L!Beginning] = SharesOut(rests[1], text)
    <3>1. Len(text) \in Nat
      BY <1>3 DEF m
    <3> QED
      BY <1>5, <1>51, <3>1, ReadingIsSearched
  <2> QED
    BY <1>5, <2>1 DEF m, stars, takes
<1>7. ASSUME NEW f, NEW at \in Spots(n, m)
      PROVE  body(f, at) = Searched(f, at, n, m, stars, takes, next)
  <2>1. /\ at.p \in 1..(n + 1) /\ at.t \in 1..(m + 1)
    BY DEF Spots
  <2>2. at.p <= n <=> at.p \in 1..n
    BY <1>3, <2>1
  <2>21. \A i \in 1..n : token[i] = L!StarToken <=> pat[i] = L!Star
    BY <1>51, TokenIs
  <2>3. at.p \in stars <=> at.p <= n /\ pat[at.p] = L!Star
    BY <2>2, <2>21 DEF Stars
  <2>4. (at.p..n \subseteq stars) = (\A i \in at.p..n : pat[i] = L!Star)
    <3>1. \A i \in at.p..n : i \in 1..n
      BY <1>3, <2>1
    <3>2. at.p..n \subseteq stars <=> \A i \in at.p..n : pat[i] = L!Star
      BY <2>21, <3>1 DEF Stars
    <3> QED
      BY <3>2
  <2>5. ASSUME ~(at.t > m)
        PROVE  <<at.p, at.t>> \in takes
               <=> at.p \in 1..n /\ token[at.p] # L!StarToken /\ TakesOne(token[at.p], text[at.t])
    <3>1. at.t \in 1..m
      BY <1>3, <2>1, <2>5
    <3> QED
      BY <3>1 DEF Takers
  <2>6. ASSUME at.p <= n
        PROVE  next[at.p] - at.p = IF L!Escapes(pat, at.p) THEN 2 ELSE 1
    BY <1>51, <2>1, <2>2, <2>6
  <2>7. ASSUME at.p <= n
        PROVE  /\ token[at.p] = L!AnyToken <=> pat[at.p] = L!Question
               /\ pat[at.p] # L!Star /\ pat[at.p] # L!Question =>
                    (token[at.p] = L!Literal(text[at.t])
                     <=> IF L!Escapes(pat, at.p) THEN pat[at.p + 1] = text[at.t] ELSE pat[at.p] = text[at.t])
    BY <1>51, <2>2, <2>7, TokenIs
  <2>71. L!Escapes(pat, at.p) => pat[at.p] # L!Star /\ pat[at.p] # L!Question
    <3>1. L!Tilde # L!Star /\ L!Tilde # L!Question
      BY DEF L!Tilde, L!Star, L!Question
    <3> QED
      BY <3>1 DEF L!Escapes
  <2> HIDE DEF stars, takes, n, m
  <2>8. body(f, at) =
               IF at.t > m THEN \A i \in at.p..n : pat[i] = L!Star
               ELSE IF at.p <= n /\ pat[at.p] = L!Star THEN f[L!Starred(at)]
               ELSE IF at.p <= n /\ pat[at.p] = L!Question THEN f[L!Passed(at, 1)]
               ELSE IF at.p <= n /\ L!Escapes(pat, at.p) /\ pat[at.p + 1] = text[at.t]
                    THEN f[L!Passed(at, 2)]
               ELSE IF at.p <= n /\ ~L!Escapes(pat, at.p) /\ pat[at.p] = text[at.t]
                    THEN f[L!Passed(at, 1)]
               ELSE IF at.star # 0 THEN f[L!Retried(at)]
               ELSE FALSE
    BY DEF L!NoStar, n, m
  <2> HIDE DEF body
  <2>9. CASE at.t > m
    BY <2>4, <2>8, <2>9 DEF Searched
  <2>10. CASE ~(at.t > m) /\ at.p \in stars
    <3>1. Searched(f, at, n, m, stars, takes, next) = f[L!Starred(at)]
      BY <2>10 DEF Searched
    <3>2. body(f, at) = f[L!Starred(at)]
      BY <2>3, <2>8, <2>10
    <3> QED
      BY <3>1, <3>2
  <2>11. CASE ~(at.t > m) /\ at.p \notin stars /\ at.p <= n /\ pat[at.p] = L!Question
    <3>1. <<at.p, at.t>> \in takes
      <4>1. token[at.p] = L!AnyToken
        BY <2>7, <2>11
      <4> QED
        BY <2>2, <2>5, <2>11, <4>1, TokensDiffer DEF TakesOne
    <3>2. next[at.p] - at.p = 1
      BY <2>6, <2>11, <2>71
    <3>3. Searched(f, at, n, m, stars, takes, next) = f[L!Passed(at, 1)]
      BY <2>11, <3>1, <3>2 DEF Searched
    <3>4. body(f, at) = f[L!Passed(at, 1)]
      BY <2>3, <2>8, <2>11
    <3> QED
      BY <3>3, <3>4
  <2>12. CASE ~(at.t > m) /\ at.p \notin stars /\ at.p <= n /\ pat[at.p] # L!Question
    <3> DEFINE c == text[at.t]
               k == IF L!Escapes(pat, at.p) THEN 2 ELSE 1
               hit == IF L!Escapes(pat, at.p) THEN pat[at.p + 1] = c ELSE pat[at.p] = c
    <3>1. pat[at.p] # L!Star /\ pat[at.p] # L!Question
      BY <2>3, <2>12
    <3>2. token[at.p] = L!Literal(c) <=> hit
      BY <2>7, <2>12, <3>1
    <3>3. token[at.p] # L!AnyToken /\ token[at.p] # L!StarToken
      BY <2>2, <2>21, <2>7, <2>12, <3>1
    <3>4. <<at.p, at.t>> \in takes <=> hit
      <4> HIDE DEF hit
      <4> QED
        BY <2>2, <2>5, <2>12, <3>2, <3>3 DEF TakesOne
    <3>5. next[at.p] - at.p = k
      BY <2>6, <2>12
    <3>6. Searched(f, at, n, m, stars, takes, next)
          = IF hit THEN f[L!Passed(at, k)] ELSE IF at.star # 0 THEN f[L!Retried(at)] ELSE FALSE
      <4> HIDE DEF hit, k
      <4> QED
        BY <2>12, <3>4, <3>5 DEF Searched
    <3>7. body(f, at)
          = IF hit THEN f[L!Passed(at, k)] ELSE IF at.star # 0 THEN f[L!Retried(at)] ELSE FALSE
      <4>1. CASE L!Escapes(pat, at.p)
        BY <2>8, <2>12, <3>1, <4>1
      <4>2. CASE ~L!Escapes(pat, at.p)
        BY <2>8, <2>12, <3>1, <4>2
      <4> QED
        BY <4>1, <4>2
    <3> QED
      BY <3>6, <3>7
  <2>13. CASE ~(at.t > m) /\ at.p \notin stars /\ ~(at.p <= n)
    <3>1. <<at.p, at.t>> \notin takes
      BY <2>2, <2>5, <2>13
    <3>2. Searched(f, at, n, m, stars, takes, next) = IF at.star # 0 THEN f[L!Retried(at)] ELSE FALSE
      BY <2>13, <3>1 DEF Searched
    <3>3. body(f, at) = IF at.star # 0 THEN f[L!Retried(at)] ELSE FALSE
      BY <2>8, <2>13
    <3> QED
      BY <3>2, <3>3
  <2> QED
    BY <2>9, <2>10, <2>11, <2>12, <2>13
<1>8. ASSUME NEW f
      PROVE  Rec(f) <=> IsSearch(f, n, m, stars, takes, next)
  <2>1. [at \in Spots(n, m) |-> body(f, at)]
        = [at \in Spots(n, m) |-> Searched(f, at, n, m, stars, takes, next)]
    <3> HIDE DEF body, n, m, stars, takes, next
    <3> QED
      BY <1>7
  <2> QED
    BY <1>4, <2>1 DEF IsSearch
<1>9. Rec(run)
  <2>1. \E f : Rec(f)
    <3>1. PICK f : IsSearch(f, n, m, stars, takes, next)
      <4> HIDE DEF n, m, stars, takes, next
      <4> QED
        BY <1>6, SomeSearch
    <3>2. Rec(f)
      BY <1>8, <3>1
    <3> HIDE DEF Rec
    <3> QED
      BY <3>2
  <2> HIDE DEF Rec
  <2> QED
    BY <2>1 DEF run
<1>10. IsSearch(run, n, m, stars, takes, next)
  BY <1>8, <1>9
<1>11. run[L!Beginning] = SharesOut(L!Tokenize(pat), text)
  <2> HIDE DEF n, m, stars, takes, next
  <2> QED
    BY <1>6, <1>10
<1> QED
  BY <1>1, <1>11

(* A pattern without wildcards shares out the text it is, and no other.     *)
LEMMA PlainIsEqual ==
    ASSUME NEW pattern, IsSequence(pattern), NEW text, IsSequence(text),
           \A i \in DOMAIN pattern : pattern[i] \notin L!Special
    PROVE  SharesOut(L!Tokenize(pattern), text) <=> pattern = text
<1> DEFINE n == Len(pattern)
           m == Len(text)
<1>1. n \in Nat /\ m \in Nat /\ DOMAIN pattern = 1..n /\ DOMAIN text = 1..m
  BY SequenceIsList
<1>2. PICK rests : IsReading(rests, TokensOf(pattern), NextOf(pattern), n) /\ L!Tokenize(pattern) = rests[1]
  BY <1>1, TokenizeIs
<1>3. \A p \in 1..n : /\ L!TokenAt(pattern, p) = L!Literal(pattern[p])
                      /\ rests[p] = <<L!Literal(pattern[p])>> \o rests[p + 1]
  <2>1. ASSUME NEW p \in 1..n
        PROVE  /\ L!TokenAt(pattern, p) = L!Literal(pattern[p]) /\ L!Width(pattern, p) = 1
               /\ rests[p] = <<L!TokenAt(pattern, p)>> \o rests[p + L!Width(pattern, p)]
    <3>1. pattern[p] # L!Star /\ pattern[p] # L!Question /\ pattern[p] # L!Tilde
      BY <1>1 DEF L!Special
    <3>2. ~L!Escapes(pattern, p)
      BY <3>1 DEF L!Escapes
    <3>3. L!TokenAt(pattern, p) = L!Literal(pattern[p])
      BY <3>1, <3>2 DEF L!TokenAt
    <3>4. L!Width(pattern, p) = 1
      BY <3>2 DEF L!Width
    <3>5. rests[p] = <<TokensOf(pattern)[p]>> \o rests[NextOf(pattern)[p]]
      BY <1>2 DEF IsReading
    <3>6. TokensOf(pattern)[p] = L!TokenAt(pattern, p) /\ NextOf(pattern)[p] = p + L!Width(pattern, p)
      BY DEF TokensOf, NextOf
    <3> QED
      BY <3>3, <3>4, <3>5, <3>6
  <2> QED
    BY <2>1
<1>4. rests[n + 1] = <<>> /\ \A p \in 1..(n + 1) : IsSequence(rests[p])
  BY <1>2 DEF IsReading
<1> DEFINE Alike(p, t) == n - p = m - t /\ \A j \in p..n : pattern[j] = text[t + (j - p)]
           Good == {k \in 0..n : \A t \in 1..(m + 1) : SharesFrom(rests[n + 1 - k], text, t) <=> Alike(n + 1 - k, t)}
<1>5. 0 \in Good
  <2>1. ASSUME NEW t \in 1..(m + 1)
        PROVE  SharesFrom(rests[n + 1], text, t) <=> Alike(n + 1, t)
    <3>1. SharesFrom(rests[n + 1], text, t) <=> t = m + 1
      BY <1>1, <1>4, NoneShares
    <3>2. Alike(n + 1, t) <=> t = m + 1
      BY <1>1
    <3> QED
      BY <3>1, <3>2
  <2>2. n + 1 - 0 = n + 1 /\ 0 \in 0..n
    BY <1>1
  <2> HIDE DEF Alike, n
  <2> QED
    BY <2>1, <2>2
<1>6. ASSUME NEW k \in 0..(n - 1), k \in Good
      PROVE  k + 1 \in Good
  <2> DEFINE p == n - k
  <2>1. p \in 1..n /\ p + 1 = n + 1 - k /\ p = n + 1 - (k + 1) /\ k + 1 \in 0..n /\ p + 1 \in 1..(n + 1)
    <3> HIDE DEF n, m
    <3>1. k \in Int /\ n \in Int /\ 0 <= k /\ k <= n - 1
      BY <1>1
    <3> QED
      BY <3>1
  <2>2. \A t \in 1..(m + 1) : SharesFrom(rests[p + 1], text, t) <=> Alike(p + 1, t)
    BY <1>6, <2>1
  <2> HIDE DEF p
  <2>3. ASSUME NEW t \in 1..(m + 1)
        PROVE  SharesFrom(rests[p], text, t) <=> Alike(p, t)
    <3> DEFINE one == L!Literal(pattern[p])
               rest == rests[p + 1]
    <3>1. one # L!StarToken /\ IsSequence(rest) /\ rests[p] = <<one>> \o rest
      BY <1>3, <1>4, <2>1, TokensDiffer
    <3>2. TakesOne(one, text[t]) <=> pattern[p] = text[t]
      BY TokensDiffer DEF TakesOne
    <3> HIDE DEF one, rest
    <3>3. SharesFrom(rests[p], text, t) <=> t <= m /\ pattern[p] = text[t] /\ SharesFrom(rest, text, t + 1)
      BY <1>1, <3>1, <3>2, OtherShares
    <3>4. CASE t <= m
      <4>1. t + 1 \in 1..(m + 1)
        BY <1>1, <3>4
      <4>2. SharesFrom(rest, text, t + 1) <=> Alike(p + 1, t + 1)
        BY <2>2, <4>1 DEF rest
      <4>3. pattern[p] = text[t] /\ Alike(p + 1, t + 1) <=> Alike(p, t)
        <5>1. n - (p + 1) = m - (t + 1) <=> n - p = m - t
          BY <1>1, <2>1
        <5>2. p \in p..n /\ t + (p - p) = t
          BY <1>1, <2>1
        <5>3. \A j \in (p + 1)..n : j \in p..n /\ (t + 1) + (j - (p + 1)) = t + (j - p)
          BY <1>1, <2>1
        <5>4. \A j \in p..n : j = p \/ j \in (p + 1)..n
          BY <1>1, <2>1
        <5> HIDE DEF n, m
        <5> QED
          BY <5>1, <5>2, <5>3, <5>4
      <4> QED
        BY <3>3, <3>4, <4>2, <4>3
    <3>5. CASE ~(t <= m)
      <4>1. n - p # m - t
        <5> HIDE DEF n, m
        <5>1. n \in Int /\ m \in Int /\ p \in Int /\ t \in Int /\ p <= n /\ t > m
          BY <1>1, <2>1, <3>5
        <5> QED
          BY <5>1
      <4> QED
        BY <3>3, <3>5, <4>1
    <3> QED
      BY <3>4, <3>5
  <2> HIDE DEF Alike, n, m
  <2> QED
    BY <2>1, <2>3
<1> HIDE DEF Good
<1>7. n \in Good
  <2>1. 0 \in Nat
    OBVIOUS
  <2>2. 0..n \subseteq Good
    <3> HIDE DEF n
    <3> QED
      BY <1>1, <1>5, <1>6, <2>1, GoesOn
  <2> QED
    BY <1>1, <2>2
<1>8. SharesFrom(rests[1], text, 1) <=> Alike(1, 1)
  <2>1. n + 1 - n = 1 /\ 1 \in 1..(m + 1)
    BY <1>1
  <2> HIDE DEF Alike
  <2> QED
    BY <1>7, <2>1 DEF Good
<1>9. SharesOut(rests[1], text) <=> SharesFrom(rests[1], text, 1)
  <2>1. 1 \in 1..(n + 1)
    BY <1>1
  <2> QED
    BY <1>4, <2>1, SharesOutIs
<1>10. Alike(1, 1) <=> pattern = text
  <2>1. n - 1 = m - 1 <=> n = m
    BY <1>1
  <2>2. \A j \in 1..n : 1 + (j - 1) = j
    BY <1>1
  <2>3. pattern = [i \in 1..n |-> pattern[i]] /\ text = [i \in 1..m |-> text[i]]
    BY SequenceIsList
  <2> HIDE DEF n, m
  <2>4. ASSUME Alike(1, 1)
        PROVE  pattern = text
    BY <2>1, <2>2, <2>3, <2>4
  <2>5. ASSUME pattern = text
        PROVE  Alike(1, 1)
    BY <2>1, <2>2, <2>5 DEF n, m
  <2> QED
    BY <2>4, <2>5
<1> QED
  BY <1>2, <1>8, <1>9, <1>10

----------------------------------------------------------------------------
(* The order of values.                                                      *)

(* A text comes before another when it ends, or has the lower code, where   *)
(* they part.                                                               *)
PartAt(s, t, i) ==
    /\ i \in 1..(Len(s) + 1) /\ i <= Len(t)
    /\ \A j \in 1..(i - 1) : s[j] = t[j]
    /\ i = Len(s) + 1 \/ s[i] < t[i]
Before(s, t) == \E i \in Nat : PartAt(s, t, i)

(* The comparison of texts says which of them is before the other, or that  *)
(* they are the same.                                                       *)
LEMMA TextsCompare ==
    ASSUME NEW s \in Seq(Int), NEW t \in Seq(Int)
    PROVE  /\ CompareText(s, t) \in {-1, 0, 1}
           /\ CompareText(s, t) = -1 => Before(s, t)
           /\ CompareText(s, t) = 1 => Before(t, s)
           /\ CompareText(s, t) = 0 => s = t
<1> DEFINE Differ == {i \in DOMAIN s \intersect DOMAIN t : s[i] # t[i]}
<1>1. /\ Len(s) \in Nat /\ Len(t) \in Nat /\ DOMAIN s = 1..Len(s) /\ DOMAIN t = 1..Len(t)
      /\ \A i \in 1..Len(s) : s[i] \in Int
      /\ \A i \in 1..Len(t) : t[i] \in Int
  OBVIOUS
<1>2. CompareText(s, t) = IF Differ = {} THEN Sign(Len(s) - Len(t)) ELSE Sign(s[Min(Differ)] - t[Min(Differ)])
  BY DEF CompareText
<1>3. \A n \in Int : /\ Sign(n) \in {-1, 0, 1} /\ (Sign(n) = -1 => n < 0)
                     /\ (Sign(n) = 1 => n > 0) /\ (Sign(n) = 0 => n = 0)
  BY DEF Sign
<1>4. CASE Differ = {}
  <2>1. \A i \in 1..Len(s) : i <= Len(t) => s[i] = t[i]
    BY <1>1, <1>4
  <2>2. CompareText(s, t) = Sign(Len(s) - Len(t)) /\ Len(s) - Len(t) \in Int
    BY <1>1, <1>2, <1>4
  <2> HIDE DEF Differ
  <2>3. ASSUME Len(s) - Len(t) < 0
        PROVE  Before(s, t)
    <3> DEFINE i == Len(s) + 1
    <3>1. i \in 1..(Len(s) + 1) /\ i <= Len(t) /\ i \in Nat
      BY <1>1, <2>3
    <3>2. \A j \in 1..(i - 1) : s[j] = t[j]
      BY <1>1, <2>1, <2>3
    <3>3. PartAt(s, t, i)
      BY <3>1, <3>2 DEF PartAt
    <3> QED
      BY <3>1, <3>3 DEF Before
  <2>4. ASSUME Len(s) - Len(t) > 0
        PROVE  Before(t, s)
    <3> DEFINE i == Len(t) + 1
    <3>1. i \in 1..(Len(t) + 1) /\ i <= Len(s) /\ i \in Nat
      BY <1>1, <2>4
    <3>2. \A j \in 1..(i - 1) : t[j] = s[j]
      BY <1>1, <2>1, <2>4
    <3>3. PartAt(t, s, i)
      BY <3>1, <3>2 DEF PartAt
    <3> QED
      BY <3>1, <3>3 DEF Before
  <2>5. ASSUME Len(s) - Len(t) = 0
        PROVE  s = t
    <3>0. Len(s) = Len(t) /\ \A i \in 1..Len(s) : i <= Len(t)
      <4>1. Len(s) \in Int /\ Len(t) \in Int
        BY <1>1
      <4> QED
        BY <2>5, <4>1
    <3>1. Len(s) = Len(t) /\ \A i \in 1..Len(s) : s[i] = t[i]
      BY <2>1, <3>0
    <3>2. s = [i \in 1..Len(s) |-> s[i]] /\ t = [i \in 1..Len(t) |-> t[i]]
      BY <1>1
    <3> QED
      BY <3>1, <3>2
  <2> QED
    BY <1>3, <2>2, <2>3, <2>4, <2>5
<1>5. CASE Differ # {}
  <2> DEFINE i == Min(Differ)
  <2>1. Differ \subseteq Nat
    BY <1>1
  <2>2. \E x \in Differ : \A y \in Differ : x <= y
    <3> HIDE DEF Differ
    <3> QED
      BY <1>5, <2>1, LeastNumber
  <2>3. i \in Differ /\ \A y \in Differ : i <= y
    <3> HIDE DEF Differ
    <3> QED
      BY <2>2 DEF Min
  <2> HIDE DEF i
  <2>4. i \in 1..Len(s) /\ i \in 1..Len(t) /\ s[i] # t[i] /\ i \in Nat /\ s[i] \in Int /\ t[i] \in Int
    BY <1>1, <2>3
  <2>5. \A j \in 1..(i - 1) : s[j] = t[j]
    <3>1. ASSUME NEW j \in 1..(i - 1), s[j] # t[j]
          PROVE  FALSE
      <4>1. j \in 1..Len(s) /\ j \in 1..Len(t) /\ ~(i <= j)
        BY <1>1, <2>4
      <4>2. j \in Differ
        BY <1>1, <3>1, <4>1
      <4> QED
        BY <2>3, <4>1, <4>2
    <3> QED
      BY <3>1
  <2> HIDE DEF Differ
  <2>6. CompareText(s, t) = Sign(s[i] - t[i]) /\ s[i] - t[i] \in Int
    <3>1. CompareText(s, t) = Sign(s[Min(Differ)] - t[Min(Differ)])
      BY <1>2, <1>5
    <3> QED
      BY <2>4, <3>1 DEF i
  <2>7. ASSUME s[i] - t[i] < 0
        PROVE  Before(s, t)
    <3>1. PartAt(s, t, i)
      BY <1>1, <2>4, <2>5, <2>7 DEF PartAt
    <3> QED
      BY <2>4, <3>1 DEF Before
  <2>8. ASSUME s[i] - t[i] > 0
        PROVE  Before(t, s)
    <3>1. PartAt(t, s, i)
      BY <1>1, <2>4, <2>5, <2>8 DEF PartAt
    <3> QED
      BY <2>4, <3>1 DEF Before
  <2>9. s[i] - t[i] # 0
    BY <2>4
  <2> QED
    BY <1>3, <2>6, <2>7, <2>8, <2>9
<1> QED
  BY <1>4, <1>5

(* No text is before itself, and what is before a text that is before       *)
(* another is before that one.                                              *)
LEMMA TextsInOrder ==
    /\ \A s \in Seq(Int) : ~Before(s, s)
    /\ \A s, t, u \in Seq(Int) : Before(s, t) /\ Before(t, u) => Before(s, u)
<1>1. ASSUME NEW s \in Seq(Int), Before(s, s)
      PROVE  FALSE
  <2>1. PICK i \in Nat : PartAt(s, s, i)
    BY <1>1 DEF Before
  <2>2. Len(s) \in Nat /\ i \in 1..Len(s) /\ s[i] < s[i]
    BY <2>1 DEF PartAt
  <2>3. s[i] \in Int
    BY <2>2
  <2> QED
    BY <2>2, <2>3
<1>2. ASSUME NEW s \in Seq(Int), NEW t \in Seq(Int), NEW u \in Seq(Int), Before(s, t), Before(t, u)
      PROVE  Before(s, u)
  <2>1. PICK i \in Nat : PartAt(s, t, i)
    BY <1>2 DEF Before
  <2>2. PICK k \in Nat : PartAt(t, u, k)
    BY <1>2 DEF Before
  <2>3. /\ Len(s) \in Nat /\ Len(t) \in Nat /\ Len(u) \in Nat
        /\ \A j \in 1..Len(s) : s[j] \in Int
        /\ \A j \in 1..Len(t) : t[j] \in Int
        /\ \A j \in 1..Len(u) : u[j] \in Int
    OBVIOUS
  <2>4. /\ i \in 1..(Len(s) + 1) /\ i <= Len(t) /\ (i = Len(s) + 1 \/ s[i] < t[i])
        /\ \A j \in 1..(i - 1) : s[j] = t[j]
    BY <2>1 DEF PartAt
  <2>5. /\ k \in 1..(Len(t) + 1) /\ k <= Len(u) /\ (k = Len(t) + 1 \/ t[k] < u[k])
        /\ \A j \in 1..(k - 1) : t[j] = u[j]
    BY <2>2 DEF PartAt
  <2>6. CASE i < k
    <3>1. i \in 1..(k - 1) /\ i <= Len(u)
      BY <2>3, <2>4, <2>5, <2>6
    <3>2. t[i] = u[i]
      BY <2>5, <3>1
    <3>3. \A j \in 1..(i - 1) : s[j] = u[j]
      <4>1. \A j \in 1..(i - 1) : j \in 1..(k - 1)
        BY <2>6
      <4> QED
        BY <2>4, <2>5, <4>1
    <3>4. PartAt(s, u, i)
      BY <2>4, <3>1, <3>2, <3>3 DEF PartAt
    <3> QED
      BY <3>4 DEF Before
  <2>7. CASE i = k
    <3>1. t[i] < u[i] /\ i \in 1..Len(t) /\ i \in 1..Len(u)
      BY <2>3, <2>4, <2>5, <2>7
    <3>2. i = Len(s) + 1 \/ s[i] < u[i]
      <4>1. CASE i # Len(s) + 1
        <5>1. i \in 1..Len(s) /\ s[i] < t[i]
          <6>1. Len(s) \in Nat /\ i \in 1..(Len(s) + 1)
            BY <2>3, <2>4
          <6>2. i \in 1..Len(s)
            BY <4>1, <6>1
          <6> QED
            BY <2>4, <4>1, <6>2
        <5>2. s[i] \in Int /\ t[i] \in Int /\ u[i] \in Int
          BY <2>3, <3>1, <5>1
        <5> QED
          BY <3>1, <5>1, <5>2
      <4> QED
        BY <4>1
    <3>3. \A j \in 1..(i - 1) : s[j] = u[j]
      BY <2>4, <2>5, <2>7
    <3>4. PartAt(s, u, i)
      BY <2>3, <2>4, <3>1, <3>2, <3>3 DEF PartAt
    <3> QED
      BY <3>4 DEF Before
  <2>8. CASE i > k
    <3>1. k \in 1..(i - 1) /\ k \in 1..(Len(s) + 1) /\ k # Len(t) + 1 /\ k # Len(s) + 1
      <4>1. /\ Len(s) \in Nat /\ Len(t) \in Nat /\ i \in 1..(Len(s) + 1) /\ i <= Len(t)
            /\ k \in 1..(Len(t) + 1)
        BY <2>3, <2>4, <2>5
      <4> QED
        BY <2>8, <4>1
    <3>2. s[k] = t[k] /\ t[k] < u[k]
      BY <2>4, <2>5, <3>1
    <3>3. \A j \in 1..(k - 1) : s[j] = u[j]
      <4>1. \A j \in 1..(k - 1) : j \in 1..(i - 1)
        BY <2>8
      <4> QED
        BY <2>4, <2>5, <4>1
    <3>4. PartAt(s, u, k)
      BY <2>5, <3>1, <3>2, <3>3 DEF PartAt
    <3> QED
      BY <3>4 DEF Before
  <2> QED
    BY <2>6, <2>7, <2>8
<1> QED
  BY <1>1, <1>2

(* Values of a kind that has an order are in a total one.                   *)
AreOrdered(S) ==
    /\ \A a, b \in S :
        /\ CompareValues(a, b) \in {-1, 0, 1}
        /\ CompareValues(a, b) = 0 <=> a = b
        /\ CompareValues(a, b) = 1 <=> CompareValues(b, a) = -1
    /\ \A a, b, c \in S :
        CompareValues(a, b) = -1 /\ CompareValues(b, c) = -1 => CompareValues(a, c) = -1

(* So are the numbers, the texts and the truth values.                      *)
LEMMA ValuesInOrder ==
    ASSUME NEW S, NEW kind \in {"number", "text", "bool"}, \A v \in S : IsValue(v) /\ Kind(v) = kind
    PROVE  AreOrdered(S)
<1>1. CASE kind = "number"
  <2>1. \A a \in S : ~IsEmpty(a) /\ IsNumber(a) /\ a[2] \in Int /\ a = <<"number", a[2]>>
    BY <1>1 DEF IsValue, IsEmpty, IsNumber
  <2>2. \A a, b \in S : CompareValues(a, b) = Sign(a[2] - b[2])
    BY <1>1, <2>1 DEF CompareValues, CompareKinds, Beside, IsText, IsNumber
  <2>3. \A a, b \in S : a = b <=> a[2] = b[2]
    BY <2>1
  <2> HIDE DEF CompareValues
  <2>4. \A a, b \in S : /\ CompareValues(a, b) \in {-1, 0, 1}
                        /\ CompareValues(a, b) = 0 <=> a[2] = b[2]
                        /\ CompareValues(a, b) = -1 <=> a[2] < b[2]
                        /\ CompareValues(a, b) = 1 <=> b[2] < a[2]
    <3>1. \A n \in Int : /\ Sign(n) \in {-1, 0, 1} /\ (Sign(n) = 0 <=> n = 0)
                         /\ (Sign(n) = -1 <=> n < 0) /\ (Sign(n) = 1 <=> n > 0)
      BY DEF Sign
    <3>2. \A m, n \in Int : /\ m - n \in Int /\ (m - n = 0 <=> m = n) /\ (m - n < 0 <=> m < n)
                            /\ (m - n > 0 <=> n < m)
      OBVIOUS
    <3> QED
      BY <2>1, <2>2, <3>1, <3>2
  <2> QED
    BY <2>1, <2>3, <2>4 DEF AreOrdered
<1>2. CASE kind = "text"
  <2>1. \A a \in S : ~IsEmpty(a) /\ IsText(a) /\ ~IsNumber(a) /\ a[2] \in Seq(Int) /\ a = <<"text", a[2]>>
    BY <1>2 DEF IsValue, IsEmpty, IsText, IsNumber
  <2>2. \A a, b \in S : CompareValues(a, b) = CompareText(a[2], b[2])
    BY <1>2, <2>1 DEF CompareValues, CompareKinds, Beside, IsText, IsNumber
  <2>3. \A a, b \in S : a = b <=> a[2] = b[2]
    BY <2>1
  <2>4. \A s, t \in Seq(Int) : /\ CompareText(s, t) \in {-1, 0, 1}
                               /\ CompareText(s, t) = 0 <=> s = t
                               /\ CompareText(s, t) = -1 <=> Before(s, t)
                               /\ CompareText(s, t) = 1 <=> Before(t, s)
    <3>1. ASSUME NEW s \in Seq(Int), NEW t \in Seq(Int)
          PROVE  /\ ~(Before(s, t) /\ Before(t, s)) /\ (s = t => ~Before(s, t) /\ ~Before(t, s))
      <4>1. Before(s, t) /\ Before(t, s) => Before(s, s)
        BY TextsInOrder
      <4> QED
        BY <4>1, TextsInOrder
    <3>2. ASSUME NEW s \in Seq(Int), NEW t \in Seq(Int)
          PROVE  /\ CompareText(s, t) \in {-1, 0, 1}
                 /\ CompareText(s, t) = 0 <=> s = t
                 /\ CompareText(s, t) = -1 <=> Before(s, t)
                 /\ CompareText(s, t) = 1 <=> Before(t, s)
      BY <3>1, TextsCompare
    <3> QED
      BY <3>2
  <2>5. \A a, b \in S : /\ CompareValues(a, b) \in {-1, 0, 1}
                        /\ CompareValues(a, b) = 0 <=> a = b
                        /\ CompareValues(a, b) = -1 <=> Before(a[2], b[2])
                        /\ CompareValues(a, b) = 1 <=> Before(b[2], a[2])
    BY <2>1, <2>2, <2>3, <2>4
  <2>6. \A a, b, c \in S :
            CompareValues(a, b) = -1 /\ CompareValues(b, c) = -1 => CompareValues(a, c) = -1
    BY <2>1, <2>5, TextsInOrder
  <2> QED
    BY <2>5, <2>6 DEF AreOrdered
<1>3. CASE kind = "bool"
  <2>1. \A a \in S : /\ ~IsEmpty(a) /\ ~IsText(a) /\ ~IsNumber(a) /\ Kind(a) = "bool"
                     /\ a[2] \in BOOLEAN /\ a = <<"bool", a[2]>>
    BY <1>3 DEF IsValue, IsEmpty, IsText, IsNumber
  <2>2. \A a, b \in S : CompareValues(a, b) = Sign(TruthOf(a[2]) - TruthOf(b[2]))
    BY <1>3, <2>1 DEF CompareValues, CompareKinds, Beside, IsText, IsNumber
  <2>3. \A a, b \in S : a = b <=> a[2] = b[2]
    BY <2>1
  <2>4. \A x, y \in BOOLEAN : /\ Sign(TruthOf(x) - TruthOf(y)) \in {-1, 0, 1}
                              /\ Sign(TruthOf(x) - TruthOf(y)) = 0 <=> x = y
                              /\ Sign(TruthOf(x) - TruthOf(y)) = -1 <=> x = FALSE /\ y = TRUE
                              /\ Sign(TruthOf(x) - TruthOf(y)) = 1 <=> x = TRUE /\ y = FALSE
    <3>1. /\ TruthOf(TRUE) = 1 /\ TruthOf(FALSE) = 0 /\ Sign(0) = 0 /\ Sign(1) = 1 /\ Sign(-1) = -1
          /\ 1 - 1 = 0 /\ 1 - 0 = 1 /\ 0 - 1 = -1 /\ 0 - 0 = 0 /\ -1 # 0 /\ -1 # 1 /\ 0 # 1
      BY DEF TruthOf, Sign
    <3>2. ASSUME NEW x \in BOOLEAN, NEW y \in BOOLEAN
          PROVE  /\ Sign(TruthOf(x) - TruthOf(y)) \in {-1, 0, 1}
                 /\ Sign(TruthOf(x) - TruthOf(y)) = 0 <=> x = y
                 /\ Sign(TruthOf(x) - TruthOf(y)) = -1 <=> x = FALSE /\ y = TRUE
                 /\ Sign(TruthOf(x) - TruthOf(y)) = 1 <=> x = TRUE /\ y = FALSE
      <4>1. CASE x = TRUE /\ y = TRUE
        BY <3>1, <4>1
      <4>2. CASE x = TRUE /\ y = FALSE
        BY <3>1, <4>2
      <4>3. CASE x = FALSE /\ y = TRUE
        BY <3>1, <4>3
      <4>4. CASE x = FALSE /\ y = FALSE
        BY <3>1, <4>4
      <4> QED
        BY <4>1, <4>2, <4>3, <4>4
    <3> QED
      BY <3>2
  <2>5. \A a, b \in S : /\ CompareValues(a, b) \in {-1, 0, 1}
                        /\ CompareValues(a, b) = 0 <=> a = b
                        /\ CompareValues(a, b) = -1 <=> a[2] = FALSE /\ b[2] = TRUE
                        /\ CompareValues(a, b) = 1 <=> a[2] = TRUE /\ b[2] = FALSE
    BY <2>1, <2>2, <2>3, <2>4
  <2> QED
    BY <2>5 DEF AreOrdered
<1> QED
  BY <1>1, <1>2, <1>3

----------------------------------------------------------------------------
(* Lookups.                                                                  *)

(* The lookups compare as the formulas do.                                  *)
LEMMA LookupsCompare ==
    /\ \A a, b : L!CompareValues(a, b) = CompareValues(a, b) /\ L!Equal(a, b) = Equal(a, b)
    /\ \A v : /\ L!Kind(v) = Kind(v) /\ L!IsError(v) = IsError(v) /\ L!IsNumber(v) = IsNumber(v)
              /\ L!IsText(v) = IsText(v) /\ L!IsEmpty(v) = IsEmpty(v)
    /\ \A n : L!Number(n) = Number(n)
    /\ L!NA = NA /\ L!Empty = Empty /\ L!DivError = DivError
<1>1. /\ \A v : /\ L!Kind(v) = Kind(v) /\ L!IsError(v) = IsError(v) /\ L!IsNumber(v) = IsNumber(v)
                /\ L!IsText(v) = IsText(v) /\ L!IsEmpty(v) = IsEmpty(v)
      /\ \A n : L!Number(n) = Number(n) /\ L!Sign(n) = Sign(n) /\ L!TruthOf(n) = TruthOf(n)
      /\ L!NA = NA /\ L!Empty = Empty /\ L!DivError = DivError
      /\ \A v : L!ZeroLike(v) = ZeroLike(v) /\ L!Rank(v) = Rank(v)
  BY DEF L!Kind, Kind, L!IsError, IsError, L!IsNumber, IsNumber, L!IsText, IsText, L!IsEmpty, IsEmpty,
         L!Number, Number, L!Sign, Sign, L!TruthOf, TruthOf, L!NA, NA, L!Error, Error, L!Empty, Empty,
         L!DivError, DivError, L!ZeroLike, ZeroLike, L!Rank, Rank, L!Text, Text, L!Bool, Bool
<1>2. \A S : L!Min(S) = Min(S)
  BY DEF L!Min, Min
<1>3. \A s, t : L!CompareText(s, t) = CompareText(s, t)
  BY <1>1, <1>2 DEF L!CompareText, CompareText
<1>4. \A a, b : L!CompareValues(a, b) = CompareValues(a, b)
  <2> SUFFICES ASSUME NEW a, NEW b
               PROVE  L!CompareValues(a, b) = CompareValues(a, b)
    OBVIOUS
  <2> QED
    BY <1>1, <1>3 DEF L!CompareValues, CompareValues, L!CompareKinds, CompareKinds, L!Beside, Beside
<1>5. \A a, b : L!Equal(a, b) = Equal(a, b)
  BY <1>4 DEF L!Equal, Equal
<1> QED
  BY <1>1, <1>4, <1>5

(* A row and a column of cells are tables, and the line they are of.        *)
LEMMA RowIs ==
    ASSUME NEW line, IsSequence(line), Len(line) >= 1
    PROVE  /\ Len(AsRow(line)) = 1 /\ AsRow(line)[1] = line /\ DOMAIN AsRow(line) = 1..1
           /\ L!IsVector(AsRow(line)) /\ L!AsVector(AsRow(line)) = line
           /\ L!IsErrorArgument(AsRow(line)) <=> Len(line) = 1 /\ IsError(line[1])
<1> DEFINE table == AsRow(line)
<1>1. Len(table) = 1 /\ table[1] = line /\ DOMAIN table = 1..1
  BY DEF AsRow
<1>2. L!IsVector(table)
  BY <1>1 DEF L!IsVector
<1>3. L!AsVector(table) = line
  <2>1. CASE Len(line) = 1
    <3>1. L!AsVector(table) = [r \in 1..1 |-> line[1]]
      <4>1. L!AsVector(table) = [r \in DOMAIN table |-> table[r][1]]
        BY <1>1, <2>1 DEF L!AsVector, L!Column
      <4>2. \A r \in 1..1 : table[r] = line
        BY <1>1
      <4> HIDE DEF table
      <4> QED
        BY <1>1, <4>1, <4>2
    <3>2. line = [r \in 1..1 |-> line[r]]
      BY <2>1, SequenceIsList
    <3> QED
      BY <3>1, <3>2
  <2>2. CASE Len(line) # 1
    BY <1>1, <2>2 DEF L!AsVector
  <2> QED
    BY <2>1, <2>2
<1>4. L!IsErrorArgument(table) <=> Len(line) = 1 /\ IsError(line[1])
  BY <1>1, LookupsCompare DEF L!IsErrorArgument
<1> QED
  BY <1>1, <1>2, <1>3, <1>4

(* And for a column, which is the row turned.                               *)
LEMMA ColumnIs ==
    ASSUME NEW line, IsSequence(line), Len(line) >= 1
    PROVE  /\ Len(AsColumn(line)) = Len(line) /\ DOMAIN AsColumn(line) = DOMAIN line
           /\ \A i \in DOMAIN line : AsColumn(line)[i] = <<line[i]>>
           /\ AsColumn(line)[1] = <<line[1]>>
           /\ L!Column(AsColumn(line), 1) = line
           /\ L!IsVector(AsColumn(line)) /\ L!AsVector(AsColumn(line)) = line
           /\ L!IsErrorArgument(AsColumn(line)) <=> Len(line) = 1 /\ IsError(line[1])
           /\ L!Transposed(AsRow(line)) = AsColumn(line)
<1> DEFINE table == AsColumn(line)
           n == Len(line)
<1>1. n \in Nat /\ DOMAIN line = 1..n /\ line = [i \in 1..n |-> line[i]] /\ 1 \in 1..n
  BY SequenceIsList
<1>2. /\ table = [i \in 1..n |-> table[i]] /\ \A i \in 1..n : table[i] = <<line[i]>>
  BY <1>1 DEF AsColumn
<1> HIDE DEF table, n
<1>3. Len(table) = n /\ DOMAIN table = 1..n
  BY <1>1, <1>2, ListIsSequence
<1>4. L!Column(table, 1) = line
  <2>1. L!Column(table, 1) = [r \in 1..n |-> table[r][1]]
    BY <1>3 DEF L!Column
  <2>2. \A r \in 1..n : table[r][1] = line[r]
    BY <1>2
  <2> QED
    BY <1>1, <2>1, <2>2
<1>5. table[1] = <<line[1]>> /\ Len(table[1]) = 1
  <2>1. table[1] = <<line[1]>>
    BY <1>1, <1>2
  <2>2. Len(<<line[1]>>) = 1
    OBVIOUS
  <2> QED
    BY <2>1, <2>2
<1>6. L!IsVector(table) /\ L!AsVector(table) = line
  BY <1>4, <1>5 DEF L!IsVector, L!AsVector
<1>7. L!IsErrorArgument(table) <=> n = 1 /\ IsError(line[1])
  BY <1>3, <1>5, LookupsCompare DEF L!IsErrorArgument
<1>8. L!Transposed(AsRow(line)) = table
  <2> DEFINE row == AsRow(line)
  <2>1. row[1] = line /\ DOMAIN row = 1..1
    <3>1. Len(line) >= 1
      OBVIOUS
    <3> QED
      BY RowIs
  <2> HIDE DEF row
  <2>2. L!Transposed(row) = [c \in 1..n |-> L!Column(row, c)]
    BY <1>1, <2>1 DEF L!Transposed
  <2>3. ASSUME NEW c \in 1..n
        PROVE  L!Column(row, c) = <<line[c]>>
    <3>1. L!Column(row, c) = [r \in 1..1 |-> row[r][c]]
      BY <2>1 DEF L!Column
    <3>2. \A r \in 1..1 : row[r] = line
      BY <2>1
    <3>3. L!Column(row, c) = [r \in 1..1 |-> line[c]]
      BY <3>1, <3>2
    <3>4. <<line[c]>> = [r \in 1..1 |-> line[c]]
      OBVIOUS
    <3> QED
      BY <3>3, <3>4
  <2>4. L!Transposed(row) = [c \in 1..n |-> <<line[c]>>]
    BY <2>2, <2>3
  <2>5. table = [c \in 1..n |-> <<line[c]>>]
    BY <1>2
  <2> QED
    BY <2>4, <2>5 DEF row
<1> QED
  BY <1>1, <1>2, <1>3, <1>4, <1>5, <1>6, <1>7, <1>8 DEF table, n

(* The first and the last of some places.                                   *)
LEMMA FirstIs ==
    ASSUME NEW n \in Nat, NEW S \in SUBSET (1..n)
    PROVE  /\ S = {} => L!First(S) = 0 /\ L!Final(S) = 0
           /\ S # {} => /\ L!First(S) \in S /\ \A i \in S : L!First(S) <= i
                        /\ L!Final(S) \in S /\ \A i \in S : i <= L!Final(S)
<1>1. CASE S = {}
  BY <1>1 DEF L!First, L!Final, L!Nowhere
<1>2. CASE S # {}
  <2>1. S \subseteq Nat
    OBVIOUS
  <2>2. \E x \in S : \A y \in S : x <= y
    BY <1>2, <2>1, LeastNumber
  <2>3. \E x \in S : \A y \in S : y <= x
    <3>1. \A y \in S : y <= n
      OBVIOUS
    <3> QED
      BY <1>2, <2>1, <3>1, GreatestNumber
  <2>4. L!First(S) = CHOOSE x \in S : \A y \in S : x <= y
    BY <1>2 DEF L!First, L!Min
  <2>5. L!Final(S) = CHOOSE x \in S : \A y \in S : x >= y
    BY <1>2 DEF L!Final, L!Max
  <2>6. \A x, y \in S : x >= y <=> y <= x
    BY <2>1
  <2>7. L!First(S) \in S /\ \A i \in S : L!First(S) <= i
    BY <2>2, <2>4
  <2>8. L!Final(S) \in S /\ \A i \in S : i <= L!Final(S)
    <3>1. \E x \in S : \A y \in S : x >= y
      BY <2>3, <2>6
    <3>2. L!Final(S) \in S /\ \A i \in S : L!Final(S) >= i
      BY <2>5, <3>1
    <3> QED
      BY <2>6, <3>2
  <2> QED
    BY <1>2, <2>7, <2>8
<1> QED
  BY <1>1, <1>2

(* Places with all those before them are counted by the last of them.       *)
LEMMA LastCounts ==
    ASSUME NEW n \in Nat, NEW S \in SUBSET (1..n), \A i, j \in 1..n : i < j /\ j \in S => i \in S
    PROVE  Cardinality(S) = L!Final(S)
<1>1. CASE S = {}
  BY <1>1, FirstIs, FS_EmptySet
<1>2. CASE S # {}
  <2> DEFINE k == L!Final(S)
  <2>1. k \in S /\ \A i \in S : i <= k
    BY <1>2, FirstIs
  <2> HIDE DEF k
  <2>2. k \in 1..n
    BY <2>1
  <2>3. S = 1..k
    <3>1. \A i \in 1..k : i \in 1..n /\ (i < k \/ i = k)
      BY <2>2
    <3>2. \A i \in S : i \in 1..k
      BY <2>1
    <3> QED
      BY <2>1, <2>2, <3>1, <3>2
  <2>4. Cardinality(1..k) = k
    <3>1. 1 \in Int /\ k \in Int /\ ~(1 > k) /\ k - 1 + 1 = k
      BY <2>2
    <3> QED
      BY <3>1, FS_Interval
  <2> QED
    BY <2>3, <2>4 DEF k
<1> QED
  BY <1>1, <1>2

(* The cells of a line in order that are not beyond the key come first.     *)
WithinIs(line, key, beyond) == {i \in DOMAIN line : CompareValues(line[i], key) # beyond}

(* So they are as many as the last of them is far, and two cells in order   *)
(* stay in it.                                                              *)
LEMMA OrderedLine ==
    ASSUME NEW line, IsLine(line), NEW key, NEW beyond \in {-1, 1},
           NEW S, AreOrdered(S), key \in S, \A i \in DOMAIN line : line[i] \in S,
           InOrder(line, beyond)
    PROVE  /\ WithinIs(line, key, beyond) \in SUBSET (1..Len(line))
           /\ Cardinality(WithinIs(line, key, beyond)) = L!Final(WithinIs(line, key, beyond))
           /\ \A i, j \in DOMAIN line : i <= j => CompareValues(line[i], line[j]) # beyond
<1> DEFINE n == Len(line)
           C == WithinIs(line, key, beyond)
<1>1. n \in Nat /\ DOMAIN line = 1..n
  BY SequenceIsList DEF IsLine
<1>2. \A i, j \in 1..n : i < j => CompareValues(line[i], line[j]) # beyond
  BY <1>1 DEF InOrder
<1>3. \A a, b \in S : /\ CompareValues(a, b) \in {-1, 0, 1}
                      /\ CompareValues(a, b) = 0 <=> a = b
                      /\ CompareValues(a, b) = 1 <=> CompareValues(b, a) = -1
  BY DEF AreOrdered
<1>4. \A a, b, c \in S :
          CompareValues(a, b) = -1 /\ CompareValues(b, c) = -1 => CompareValues(a, c) = -1
  BY DEF AreOrdered
<1> HIDE DEF n
<1>5. C \in SUBSET (1..n) /\ \A i \in C : CompareValues(line[i], key) # beyond
  BY <1>1 DEF WithinIs
<1>6. ASSUME NEW i \in 1..n, NEW j \in 1..n, i < j, j \in C
      PROVE  i \in C
  <2> DEFINE a == line[i]  b == line[j]
  <2>1. a \in S /\ b \in S /\ key \in S
    BY <1>1
  <2>2. CompareValues(a, b) # beyond /\ CompareValues(b, key) # beyond
    BY <1>2, <1>5, <1>6
  <2> HIDE DEF a, b
  <2>3. CompareValues(a, key) # beyond
    <3>1. CASE beyond = 1
      <4>1. a = b \/ CompareValues(a, b) = -1
        BY <1>3, <2>1, <2>2, <3>1
      <4>2. b = key \/ CompareValues(b, key) = -1
        BY <1>3, <2>1, <2>2, <3>1
      <4>3. CompareValues(a, key) = -1 \/ a = key
        BY <1>4, <2>1, <4>1, <4>2
      <4>4. a = key => CompareValues(a, key) = 0
        BY <1>3, <2>1
      <4> QED
        BY <3>1, <4>3, <4>4
    <3>2. CASE beyond = -1
      <4>1. a = b \/ CompareValues(b, a) = -1
        BY <1>3, <2>1, <2>2, <3>2
      <4>2. b = key \/ CompareValues(key, b) = -1
        BY <1>3, <2>1, <2>2, <3>2
      <4>3. CompareValues(key, a) = -1 \/ a = key
        BY <1>4, <2>1, <4>1, <4>2
      <4>4. CompareValues(key, a) = -1 => CompareValues(a, key) = 1
        BY <1>3, <2>1
      <4>5. a = key => CompareValues(a, key) = 0
        BY <1>3, <2>1
      <4> QED
        BY <3>2, <4>3, <4>4, <4>5
    <3> QED
      BY <3>1, <3>2
  <2> QED
    BY <1>1, <2>3 DEF WithinIs, a
<1>7. Cardinality(C) = L!Final(C)
  <2> HIDE DEF C
  <2> QED
    BY <1>1, <1>5, <1>6, LastCounts
<1>8. ASSUME NEW i \in 1..n, NEW j \in 1..n, i <= j
      PROVE  CompareValues(line[i], line[j]) # beyond
  <2>1. CASE i = j
    <3>1. CompareValues(line[i], line[i]) = 0
      BY <1>1, <1>3
    <3> QED
      BY <2>1, <3>1
  <2>2. CASE i # j
    <3>1. i < j
      BY <1>1, <1>8, <2>2
    <3> QED
      BY <1>2, <3>1
  <2> QED
    BY <2>1, <2>2
<1> QED
  BY <1>1, <1>5, <1>7, <1>8 DEF n

(* The nearest in the other direction is of the same value as the last.     *)
LEMMA NearestIs ==
    ASSUME NEW line, IsLine(line), NEW key, NEW beyond \in {-1, 1},
           NEW S, AreOrdered(S), key \in S, \A i \in DOMAIN line : line[i] \in S,
           InOrder(line, beyond)
    PROVE  LET next == L!XMatch(key, line, -beyond, FALSE)
               last == L!Final(WithinIs(line, key, beyond))
           IN IF last = 0 THEN next = NA ELSE line[next[2]] = line[last]
<1> DEFINE n == Len(line)
           C == WithinIs(line, key, beyond)
           last == L!Final(C)
           mode == -beyond
           hits == {i \in DOMAIN line : Equal(key, line[i])}
           beside == {i \in DOMAIN line : CompareValues(line[i], key) = mode}
           nearest == {i \in beside : \A j \in beside : CompareValues(line[j], line[i]) # -mode}
           found == IF hits # {} THEN L!First(hits) ELSE L!First(nearest)
<1>1. n \in Nat /\ DOMAIN line = 1..n
  BY SequenceIsList DEF IsLine
<1>2. mode \in {-1, 1} /\ mode # 2 /\ -mode = beyond /\ mode # 0 /\ mode # beyond
  OBVIOUS
<1>3. L!XMatch(key, line, mode, FALSE) = IF found = 0 THEN NA ELSE Number(found)
  <2>1. ASSUME NEW v
        PROVE  (IF mode = 2 /\ L!IsText(key) /\ L!IsText(v) THEN L!CriteriaMatches(key[2], v[2])
                ELSE L!Equal(key, v)) = Equal(key, v)
    BY <1>2, LookupsCompare
  <2> HIDE DEF mode
  <2>2. {i \in DOMAIN line : IF mode = 2 /\ L!IsText(key) /\ L!IsText(line[i])
                                   THEN L!CriteriaMatches(key[2], line[i][2])
                                   ELSE L!Equal(key, line[i])} = hits
    BY <2>1
  <2>3. {i \in DOMAIN line : mode \in {-1, 1} /\ L!CompareValues(line[i], key) = mode} = beside
    BY <1>2, LookupsCompare
  <2>4. {i \in beside : \A j \in beside : L!CompareValues(line[j], line[i]) # -mode} = nearest
    BY LookupsCompare
  <2>5. L!XMatch(key, line, mode, FALSE) = L!PositionOr(found)
    <3> HIDE DEF hits, beside, nearest
    <3>1. L!XMatch(key, line, mode, FALSE)
          = L!PositionOr(IF hits # {} THEN L!First(hits) ELSE L!First(nearest))
      BY <2>2, <2>3, <2>4 DEF L!XMatch
    <3> QED
      BY <3>1
  <2> QED
    BY <2>5, LookupsCompare DEF L!PositionOr, L!Nowhere
<1>4. /\ C \in SUBSET (1..n) /\ \A i, j \in 1..n : i <= j => CompareValues(line[i], line[j]) # beyond
  BY <1>1, OrderedLine
<1>5. \A a, b \in S : /\ CompareValues(a, b) \in {-1, 0, 1}
                      /\ CompareValues(a, b) = 0 <=> a = b
                      /\ CompareValues(a, b) = 1 <=> CompareValues(b, a) = -1
  BY DEF AreOrdered
<1>6. \A i \in 1..n : line[i] \in S
  BY <1>1
<1>7. /\ hits \in SUBSET (1..n) /\ \A i \in 1..n : i \in hits <=> line[i] = key
      /\ beside \in SUBSET (1..n) /\ \A i \in 1..n : i \in beside <=> CompareValues(line[i], key) = mode
      /\ nearest \in SUBSET beside
      /\ \A i \in beside : i \in nearest <=> \A j \in beside : CompareValues(line[j], line[i]) # beyond
      /\ \A i \in 1..n : i \in C <=> CompareValues(line[i], key) # beyond
  <2>1. \A i \in 1..n : Equal(key, line[i]) <=> line[i] = key
    BY <1>5, <1>6 DEF Equal
  <2> QED
    BY <1>1, <1>2, <2>1 DEF WithinIs
<1> HIDE DEF hits, beside, nearest, C, mode, n
<1>8. \A i \in 1..n : i \in C <=> i \in hits \/ i \in beside
  <2>1. \A i \in 1..n : /\ CompareValues(line[i], key) \in {-1, 0, 1}
                        /\ CompareValues(line[i], key) = 0 <=> line[i] = key
    BY <1>5, <1>6
  <2>2. \A x \in {-1, 0, 1} : x # beyond <=> x = 0 \/ x = mode
    BY DEF mode
  <2> QED
    BY <1>7, <2>1, <2>2
<1>9. \A a, b \in S : CompareValues(a, b) # beyond /\ CompareValues(b, a) # beyond => a = b
  BY <1>5
<1>10. CASE C = {}
  <2>1. last = 0
    BY <1>1, <1>10, FirstIs
  <2>2. hits = {} /\ nearest = {}
    BY <1>7, <1>8, <1>10
  <2>3. found = 0
    BY <1>1, <2>2, FirstIs
  <2> QED
    BY <1>3, <2>1, <2>3 DEF mode, C
<1>11. CASE C # {}
  <2>1. last \in C /\ last \in 1..n /\ \A i \in C : i <= last
    BY <1>1, <1>4, <1>11, FirstIs
  <2>2. last # 0
    BY <2>1
  <2> HIDE DEF last
  <2>3. CASE hits # {}
    <3>1. found \in hits /\ found \in 1..n /\ found \in C
      <4>1. L!First(hits) \in hits
        BY <1>1, <1>7, <2>3, FirstIs
      <4> QED
        BY <1>7, <1>8, <2>3, <4>1
    <3> HIDE DEF found
    <3>2. line[found] = key /\ found <= last
      BY <1>7, <2>1, <3>1
    <3>3. CompareValues(key, line[last]) # beyond /\ CompareValues(line[last], key) # beyond
      BY <1>4, <1>7, <2>1, <3>1, <3>2
    <3>4. line[last] = key
      BY <1>6, <1>9, <2>1, <3>3
    <3>5. found # 0 /\ Number(found)[2] = found
      BY <3>1 DEF Number
    <3> QED
      BY <1>3, <2>2, <3>2, <3>4, <3>5 DEF mode, last, C
  <2>4. CASE hits = {}
    <3>1. \A i \in 1..n : i \in C <=> i \in beside
      BY <1>8, <2>4
    <3>2. last \in nearest
      <4>1. \A j \in beside : CompareValues(line[j], line[last]) # beyond
        BY <1>4, <1>7, <2>1, <3>1
      <4> QED
        BY <1>7, <2>1, <3>1, <4>1
    <3>3. found \in nearest /\ found \in 1..n /\ found \in C
      <4>1. L!First(nearest) \in nearest
        BY <1>1, <1>7, <3>2, FirstIs
      <4> QED
        BY <1>7, <2>4, <3>1, <4>1
    <3> HIDE DEF found
    <3>4. CompareValues(line[found], line[last]) # beyond /\ CompareValues(line[last], line[found]) # beyond
      BY <1>4, <1>7, <2>1, <3>1, <3>3
    <3>5. line[found] = line[last]
      BY <1>6, <1>9, <2>1, <3>3, <3>4
    <3>6. found # 0 /\ Number(found)[2] = found
      BY <3>3 DEF Number
    <3> QED
      BY <1>3, <2>2, <3>5, <3>6 DEF mode, last, C
  <2> QED
    BY <2>3, <2>4
<1> QED
  BY <1>10, <1>11

(* Approximate lookups hand back the last cell that is not beyond the key.  *)
LEMMA LastOrderedIs ==
    ASSUME NEW line, NEW key, NEW beyond, AllOfType(line, key)
    PROVE  L!LastOrdered(key, line, beyond) = L!Final(WithinIs(line, key, beyond))
<1>1. \A i \in DOMAIN line : L!SameType(key, line[i])
  BY DEF AllOfType, L!SameType
<1>2. {i \in DOMAIN line : L!SameType(key, line[i]) /\ L!CompareValues(line[i], key) # beyond}
      = WithinIs(line, key, beyond)
  BY <1>1, LookupsCompare DEF WithinIs
<1> QED
  BY <1>2 DEF L!LastOrdered

(* An approximate lookup on a line in order hands back the cell that        *)
(* counting finds.                                                          *)
LEMMA NearestAlwaysCounted ==
    ASSUME NEW line, IsLine(line), NEW key, IsValue(key), \A i \in DOMAIN line : IsValue(line[i])
    PROVE  NearestByCounting(line, key)
<1> DEFINE n == Len(line)
           S == {line[i] : i \in DOMAIN line} \cup {key}
<1>1. n \in Nat /\ DOMAIN line = 1..n /\ 1 \in DOMAIN line /\ IsSequence(line) /\ Len(line) >= 1
  BY SequenceIsList DEF IsLine
<1>2. key \in S /\ \A i \in DOMAIN line : line[i] \in S
  OBVIOUS
<1>3. ASSUME AllOfType(line, key)
      PROVE  /\ AreOrdered(S) /\ ~IsError(key) /\ \A i \in DOMAIN line : ~IsError(line[i]) /\ ~IsEmpty(line[i])
  <2>1. \A i \in DOMAIN line : Kind(line[i]) = Kind(key) /\ Kind(line[i]) \in {"number", "text", "bool"}
    BY <1>3, LookupsCompare DEF AllOfType, L!SameType
  <2>2. Kind(key) \in {"number", "text", "bool"}
    BY <1>1, <2>1
  <2>3. \A v \in S : IsValue(v) /\ Kind(v) = Kind(key)
    BY <2>1
  <2>4. AreOrdered(S)
    BY <2>2, <2>3, ValuesInOrder
  <2> QED
    BY <2>1, <2>2, <2>4 DEF IsError, IsEmpty
<1> HIDE DEF S
<1>4. ASSUME NEW beyond \in {-1, 1}, NEW mode \in {-1, 1}, mode # beyond, AllOfType(line, key), InOrder(line, beyond)
      PROVE  LET last == L!Final(WithinIs(line, key, beyond)) IN
             /\ last = Cardinality(WithinIs(line, key, beyond)) /\ last \in Nat /\ (last # 0 => last \in 1..n)
             /\ L!Match(key, AsRow(line), beyond) = L!PositionOr(last)
             /\ L!Match(key, AsColumn(line), beyond) = L!PositionOr(last)
             /\ LET next == L!XMatch(key, line, mode, FALSE) IN
                IF last = 0 THEN next = NA ELSE line[next[2]] = line[last]
  <2> DEFINE C == WithinIs(line, key, beyond)
             last == L!Final(C)
  <2>1. C \in SUBSET (1..n) /\ Cardinality(C) = last
    BY <1>2, <1>3, <1>4, OrderedLine
  <2>2. last = 0 \/ last \in 1..n
    BY <1>1, <2>1, FirstIs
  <2>3. L!LastOrdered(key, line, beyond) = last
    BY <1>4, LastOrderedIs
  <2>4. ASSUME NEW table, L!AsVector(table) = line, L!IsVector(table),
               L!IsErrorArgument(table) <=> Len(line) = 1 /\ IsError(line[1])
        PROVE  L!Match(key, table, beyond) = L!PositionOr(last)
    <3>1. ~L!IsError(key) /\ ~L!IsErrorArgument(table)
      BY <1>1, <1>3, <1>4, <2>4, LookupsCompare
    <3>2. (beyond > 0 /\ beyond = 1) \/ (~(beyond > 0) /\ beyond < 0 /\ beyond = -1)
      OBVIOUS
    <3> HIDE DEF last
    <3> QED
      BY <2>3, <2>4, <3>1, <3>2 DEF L!Match
  <2>5. L!Match(key, AsRow(line), beyond) = L!PositionOr(last)
    <3> HIDE DEF last
    <3> QED
      BY <1>1, <2>4, RowIs
  <2>6. L!Match(key, AsColumn(line), beyond) = L!PositionOr(last)
    <3> HIDE DEF last
    <3> QED
      BY <1>1, <2>4, ColumnIs
  <2>7. LET next == L!XMatch(key, line, mode, FALSE) IN
        IF last = 0 THEN next = NA ELSE line[next[2]] = line[last]
    <3>1. mode = -beyond
      BY <1>4
    <3> QED
      BY <1>2, <1>3, <1>4, <3>1, NearestIs
  <2>8. last \in Nat /\ (last # 0 => last \in 1..n)
    <3> HIDE DEF last, n
    <3> QED
      BY <1>1, <2>2
  <2> HIDE DEF last
  <2> QED
    BY <2>1, <2>5, <2>6, <2>7, <2>8 DEF last
<1>5. ASSUME AllOfType(line, key), InOrder(line, 1)
      PROVE  LET below == CountOf(line, LAMBDA v : CompareValues(v, key) <= 0)
                 found == L!Match(key, AsRow(line), 1)
             IN /\ found = L!PositionOr(below)
                /\ found = L!Match(key, AsColumn(line), 1)
                /\ L!VLookup(key, AsColumn(line), 1, TRUE) = (IF below = 0 THEN NA ELSE line[below])
                /\ L!Lookup(key, line, line) = (IF below = 0 THEN NA ELSE line[below])
                /\ LET next == L!XMatch(key, line, -1, FALSE) IN
                   IF below = 0 THEN next = NA ELSE line[next[2]] = line[below]
  <2> DEFINE C == WithinIs(line, key, 1)
             last == L!Final(C)
             table == AsColumn(line)
  <2>1. /\ last = Cardinality(C) /\ last \in Nat /\ (last # 0 => last \in 1..n)
        /\ L!Match(key, AsRow(line), 1) = L!PositionOr(last)
        /\ L!Match(key, AsColumn(line), 1) = L!PositionOr(last)
        /\ LET next == L!XMatch(key, line, -1, FALSE) IN
           IF last = 0 THEN next = NA ELSE line[next[2]] = line[last]
    <3>1. -1 # 1
      OBVIOUS
    <3> QED
      BY <1>4, <1>5, <3>1
  <2>2. CountOf(line, LAMBDA v : CompareValues(v, key) <= 0) = last
    <3>1. \A i \in DOMAIN line : CompareValues(line[i], key) \in {-1, 0, 1}
      BY <1>2, <1>3, <1>5 DEF AreOrdered
    <3>2. \A x \in {-1, 0, 1} : x <= 0 <=> x # 1
      OBVIOUS
    <3>3. {i \in DOMAIN line : CompareValues(line[i], key) <= 0} = C
      BY <3>1, <3>2 DEF WithinIs
    <3> QED
      BY <2>1, <3>3 DEF CountOf, Positions
  <2>3. L!Lookup(key, line, line) = (IF last = 0 THEN NA ELSE line[last])
    <3>1. {i \in DOMAIN line : L!CompareValues(line[i], key) # 1} = C
      BY LookupsCompare DEF WithinIs
    <3>2. last \in DOMAIN line <=> last # 0
      BY <1>1, <2>1
    <3> QED
      BY <3>1, <3>2, LookupsCompare DEF L!Lookup
  <2>4. L!VLookup(key, table, 1, TRUE) = (IF last = 0 THEN NA ELSE line[last])
    <3>1. /\ Len(table[1]) = 1 /\ L!Column(table, 1) = line /\ \A i \in DOMAIN line : table[i][1] = line[i]
      <4>1. /\ table[1] = <<line[1]>> /\ L!Column(table, 1) = line /\ \A i \in DOMAIN line : table[i] = <<line[i]>>
        BY <1>1, ColumnIs
      <4> QED
        BY <4>1
    <3>2. ~L!IsErrorArgument(table) /\ ~L!IsError(key)
      BY <1>1, <1>3, <1>5, ColumnIs, LookupsCompare
    <3>3. L!LastOrdered(key, line, 1) = last
      BY <1>5, LastOrderedIs
    <3>4. last # 0 => L!CellResult(line[last]) = line[last]
      BY <1>1, <1>3, <1>5, <2>1, LookupsCompare DEF L!CellResult
    <3> HIDE DEF last, table
    <3>5. L!VLookup(key, table, 1, TRUE) = IF last = 0 THEN L!NA ELSE L!CellResult(table[last][1])
      BY <3>1, <3>2, <3>3 DEF L!VLookup, L!Nowhere
    <3> QED
      BY <1>1, <2>1, <3>1, <3>4, <3>5, LookupsCompare
  <2> HIDE DEF last, table
  <2> QED
    BY <2>1, <2>2, <2>3, <2>4 DEF table
<1>6. ASSUME AllOfType(line, key), InOrder(line, -1)
      PROVE  LET above == CountOf(line, LAMBDA v : CompareValues(v, key) >= 0)
                 next == L!XMatch(key, line, 1, FALSE)
             IN /\ L!Match(key, AsRow(line), -1) = L!PositionOr(above)
                /\ IF above = 0 THEN next = NA ELSE line[next[2]] = line[above]
  <2> DEFINE C == WithinIs(line, key, -1)
             last == L!Final(C)
  <2>1. /\ last = Cardinality(C)
        /\ L!Match(key, AsRow(line), -1) = L!PositionOr(last)
        /\ LET next == L!XMatch(key, line, 1, FALSE) IN
           IF last = 0 THEN next = NA ELSE line[next[2]] = line[last]
    <3>1. 1 # -1
      OBVIOUS
    <3> QED
      BY <1>4, <1>6, <3>1
  <2>2. CountOf(line, LAMBDA v : CompareValues(v, key) >= 0) = last
    <3>1. \A i \in DOMAIN line : CompareValues(line[i], key) \in {-1, 0, 1}
      BY <1>2, <1>3, <1>6 DEF AreOrdered
    <3>2. \A x \in {-1, 0, 1} : x >= 0 <=> x # -1
      OBVIOUS
    <3>3. {i \in DOMAIN line : CompareValues(line[i], key) >= 0} = C
      BY <3>1, <3>2 DEF WithinIs
    <3> QED
      BY <2>1, <3>3 DEF CountOf, Positions
  <2> HIDE DEF last
  <2> QED
    BY <2>1, <2>2
<1> QED
  BY <1>5, <1>6 DEF NearestByCounting

(* A text is a list of its characters.                                      *)
LEMMA TextIsSequence ==
    ASSUME NEW s \in Seq(Int)
    PROVE  IsSequence(s)
<1>1. Len(s) \in Nat /\ s = [i \in 1..Len(s) |-> s[i]]
  OBVIOUS
<1> QED
  BY <1>1 DEF IsSequence

(* A key that is not wild is equal to a cell when it matches it.            *)
LEMMA PlainKeyIsEqual ==
    ASSUME NEW key, IsValue(key), ~IsWild(key), NEW cell, IsValue(cell), IsText(key), IsText(cell)
    PROVE  /\ L!WildcardMatches(key[2], cell[2]) <=> Equal(key, cell)
           /\ L!CriteriaMatches(key[2], cell[2]) <=> Equal(key, cell)
           /\ Equal(key, cell) <=> key = cell
<1>1. key[2] \in Seq(Int) /\ cell[2] \in Seq(Int) /\ key = <<"text", key[2]>> /\ cell = <<"text", cell[2]>>
  BY DEF IsValue, IsText
<1>2. IsSequence(key[2]) /\ IsSequence(cell[2])
  BY <1>1, TextIsSequence
<1>3. \A i \in DOMAIN key[2] : key[2][i] \notin L!Special
  BY DEF IsWild
<1>4. SharesOut(L!Tokenize(key[2]), cell[2]) <=> key[2] = cell[2]
  <2> DEFINE s == key[2]  t == cell[2]
  <2>1. IsSequence(s) /\ IsSequence(t) /\ \A i \in DOMAIN s : s[i] \notin L!Special
    BY <1>2, <1>3
  <2> HIDE DEF s, t
  <2>2. SharesOut(L!Tokenize(s), t) <=> s = t
    BY <2>1, PlainIsEqual
  <2> QED
    BY <2>2 DEF s, t
<1>5. Equal(key, cell) <=> key = cell
  <2> DEFINE S == {key, cell}
  <2>1. \A v \in S : IsValue(v) /\ Kind(v) = "text"
    BY DEF IsText
  <2>2. AreOrdered(S)
    <3> HIDE DEF S
    <3>1. "text" \in {"number", "text", "bool"}
      OBVIOUS
    <3> QED
      BY <2>1, <3>1, ValuesInOrder
  <2> QED
    BY <2>2 DEF AreOrdered, Equal
<1>6. key = cell <=> key[2] = cell[2]
  BY <1>1
<1>7. /\ L!WildcardMatches(key[2], cell[2]) = SharesOut(L!Tokenize(key[2]), cell[2])
      /\ L!CriteriaMatches(key[2], cell[2]) = SharesOut(L!Tokenize(key[2]), cell[2])
  BY <1>2, WildcardIs, CriteriaIs
<1> QED
  BY <1>4, <1>5, <1>6, <1>7

(* The exact lookups find the same cell of a line without errors.           *)
LEMMA ExactAlwaysAlike ==
    ASSUME NEW line, IsLine(line), NEW key, IsValue(key), \A i \in DOMAIN line : IsValue(line[i])
    PROVE  ExactAlike(line, key)
<1> SUFFICES ASSUME ~IsError(key), ~IsWild(key), NoErrors(line), Len(line) > 1
             PROVE  LET found == L!Match(key, AsRow(line), 0)
                        result == IF IsNumber(found) THEN L!CellResult(line[found[2]]) ELSE NA
                    IN /\ found = L!XMatch(key, line, 0, FALSE)
                       /\ L!VLookup(key, AsColumn(line), 1, FALSE) = result
                       /\ L!HLookup(key, AsRow(line), 1, FALSE) = result
                       /\ L!XLookup(key, AsRow(line), AsRow(line), NA, 0) = result
                       /\ IsNumber(found) => L!IndexAlong(AsRow(line), found[2]) = result
  BY DEF ExactAlike
<1> DEFINE n == Len(line)
           E == {i \in DOMAIN line : Equal(key, line[i])}
           at == L!First(E)
           row == AsRow(line)
           column == AsColumn(line)
           result == IF at = 0 THEN NA ELSE L!CellResult(line[at])
<1>1. n \in Nat /\ DOMAIN line = 1..n /\ IsSequence(line) /\ Len(line) >= 1
  BY SequenceIsList DEF IsLine
<1>2. E \in SUBSET (1..n) /\ (at = 0 \/ at \in 1..n)
  <2>1. E \in SUBSET (1..n)
    BY <1>1
  <2> HIDE DEF E
  <2> QED
    BY <1>1, <2>1, FirstIs
<1>3. /\ L!FirstEqual(key, line, TRUE) = at /\ L!FirstEqual(key, line, FALSE) = at
  <2>1. ASSUME NEW i \in DOMAIN line
        PROVE  /\ L!LookupEqual(key, line[i], TRUE) <=> Equal(key, line[i])
               /\ L!LookupEqual(key, line[i], FALSE) <=> Equal(key, line[i])
    <3>1. ~IsError(line[i]) /\ IsValue(line[i])
      BY DEF NoErrors
    <3>2. L!LookupEqual(key, line[i], FALSE) = Equal(key, line[i])
      BY <3>1, LookupsCompare DEF L!LookupEqual
    <3>3. CASE IsText(key) /\ IsText(line[i])
      <4>1. L!LookupEqual(key, line[i], TRUE) = L!WildcardMatches(key[2], line[i][2])
        BY <3>1, <3>3, LookupsCompare DEF L!LookupEqual
      <4>2. L!WildcardMatches(key[2], line[i][2]) <=> Equal(key, line[i])
        BY <3>1, <3>3, PlainKeyIsEqual
      <4> QED
        BY <3>2, <4>1, <4>2
    <3>4. CASE ~(IsText(key) /\ IsText(line[i]))
      <4>1. L!LookupEqual(key, line[i], TRUE) = Equal(key, line[i])
        BY <3>1, <3>4, LookupsCompare DEF L!LookupEqual
      <4> QED
        BY <3>2, <4>1
    <3> QED
      BY <3>3, <3>4
  <2>2. /\ {i \in DOMAIN line : L!LookupEqual(key, line[i], TRUE)} = E
        /\ {i \in DOMAIN line : L!LookupEqual(key, line[i], FALSE)} = E
    BY <2>1
  <2> HIDE DEF E
  <2> QED
    BY <2>2 DEF L!FirstEqual
<1>4. L!XMatch(key, line, 0, FALSE) = L!PositionOr(at)
  <2>1. {i \in DOMAIN line : IF 0 = 2 /\ L!IsText(key) /\ L!IsText(line[i])
                             THEN L!CriteriaMatches(key[2], line[i][2])
                             ELSE L!Equal(key, line[i])} = E
    BY LookupsCompare
  <2> DEFINE beside == {i \in DOMAIN line : 0 \in {-1, 1} /\ L!CompareValues(line[i], key) = 0}
             nearest == {i \in beside : \A j \in beside : L!CompareValues(line[j], line[i]) # -0}
  <2>2. beside = {}
    OBVIOUS
  <2>3. nearest = {}
    BY <2>2
  <2>4. L!XMatch(key, line, 0, FALSE) = L!PositionOr(IF E # {} THEN L!First(E) ELSE L!First(nearest))
    <3> HIDE DEF E
    <3> QED
      BY <2>1 DEF L!XMatch
  <2> QED
    BY <2>3, <2>4
<1>5. /\ Len(row) = 1 /\ row[1] = line /\ L!IsVector(row) /\ L!AsVector(row) = line /\ ~L!IsErrorArgument(row)
  <2>1. Len(line) # 1
    BY <1>1
  <2>2. /\ Len(row) = 1 /\ row[1] = line /\ L!IsVector(row) /\ L!AsVector(row) = line
        /\ L!IsErrorArgument(row) <=> Len(line) = 1 /\ IsError(line[1])
    BY <1>1, RowIs
  <2> QED
    BY <2>1, <2>2
<1>6. /\ Len(column[1]) = 1 /\ \A i \in DOMAIN line : column[i][1] = line[i]
      /\ L!Column(column, 1) = line /\ ~L!IsErrorArgument(column) /\ L!Transposed(row) = column
  <2>1. /\ column[1] = <<line[1]>> /\ \A i \in DOMAIN line : column[i] = <<line[i]>>
        /\ L!Column(column, 1) = line /\ ~L!IsErrorArgument(column) /\ L!Transposed(row) = column
    <3>1. Len(line) # 1
      BY <1>1
    <3>2. /\ column[1] = <<line[1]>> /\ \A i \in DOMAIN line : column[i] = <<line[i]>>
          /\ L!Column(column, 1) = line /\ L!Transposed(row) = column
          /\ L!IsErrorArgument(column) <=> Len(line) = 1 /\ IsError(line[1])
      BY <1>1, ColumnIs
    <3> QED
      BY <3>1, <3>2
  <2>2. Len(<<line[1]>>) = 1 /\ \A i \in DOMAIN line : <<line[i]>>[1] = line[i]
    OBVIOUS
  <2> QED
    BY <2>1, <2>2
<1>7. ~L!IsError(key) /\ L!NA = NA /\ L!Nowhere = 0
  BY LookupsCompare DEF L!Nowhere
<1>71. L!PositionOr(at) = IF at = 0 THEN NA ELSE Number(at)
  BY LookupsCompare DEF L!PositionOr, L!Nowhere
<1> HIDE DEF row, column, at, n
<1>8. L!Match(key, row, 0) = L!PositionOr(at)
  <2>1. ~(0 > 0) /\ ~(0 < 0)
    OBVIOUS
  <2>2. L!Match(key, row, 0) = L!PositionOr(L!FirstEqual(key, line, TRUE))
    BY <1>5, <1>7, <2>1, Zenon DEF L!Match
  <2> QED
    BY <1>3, <2>2
<1>9. L!VLookup(key, column, 1, FALSE) = result
  <2>1. L!VLookup(key, column, 1, FALSE) = IF at = 0 THEN NA ELSE L!CellResult(column[at][1])
    <3>1. ~(1 < 1) /\ ~(1 > 1) /\ Len(column[1]) = 1
      BY <1>6
    <3> QED
      BY <1>3, <1>6, <1>7, <3>1 DEF L!VLookup
  <2> QED
    BY <1>1, <1>2, <1>6, <2>1
<1>10. L!HLookup(key, row, 1, FALSE) = result
  BY <1>6, <1>9 DEF L!HLookup
<1>11. L!XLookup(key, row, row, NA, 0) = result
  <2>1. 0 # 2 /\ 0 \in {0, 2}
    OBVIOUS
  <2> QED
    BY <1>3, <1>5, <1>7, <2>1 DEF L!XLookup
<1>12. at # 0 => L!IndexAlong(row, at) = result
  <2> SUFFICES ASSUME at # 0 PROVE L!IndexAlong(row, at) = result
    OBVIOUS
  <2>1. at \in 1..n /\ n > 1 /\ n \in Nat
    BY <1>1, <1>2 DEF n
  <2>2. Len(row) = 1 /\ Len(row[1]) = n /\ row[1] = line
    BY <1>5 DEF n
  <2>3. L!IndexAlong(row, at) = L!Index(row, 1, at)
    BY <2>1, <2>2 DEF L!IndexAlong
  <2>4. L!Line(1, 1) = 1 /\ L!Line(at, n) = at
    BY <2>1 DEF L!Line
  <2>5. ~(1 < 0 \/ at < 0 \/ 1 = 0 \/ at = 0) /\ ~(1 > 1 \/ at > n)
    BY <2>1
  <2>6. L!Index(row, 1, at) = L!CellResult(line[at])
    BY <1>5, <2>2, <2>4, <2>5 DEF L!Index
  <2> QED
    BY <2>3, <2>6
<1>13. /\ at = 0 => ~IsNumber(L!PositionOr(at))
       /\ at # 0 => IsNumber(L!PositionOr(at)) /\ L!PositionOr(at)[2] = at
  BY <1>71 DEF IsNumber, Kind, NA, Error, Number
<1>14. (IF IsNumber(L!Match(key, row, 0)) THEN L!CellResult(line[L!Match(key, row, 0)[2]]) ELSE NA) = result
  BY <1>8, <1>13
<1> HIDE DEF result
<1>15. /\ L!Match(key, row, 0) = L!XMatch(key, line, 0, FALSE)
       /\ IsNumber(L!Match(key, row, 0)) => L!IndexAlong(row, L!Match(key, row, 0)[2]) = result
  BY <1>4, <1>8, <1>12, <1>13
<1> QED
  BY <1>9, <1>10, <1>11, <1>14, <1>15 DEF row, column

----------------------------------------------------------------------------
(* Searches from the end, and references.                                    *)

(* The cells a search in mode -1, 0 or 1 may find, from either end.         *)
HitsIn(line, key) == {i \in DOMAIN line : Equal(key, line[i])}
BesideIn(line, key, mode) == {i \in DOMAIN line : mode \in {-1, 1} /\ CompareValues(line[i], key) = mode}
NearestIn(line, key, mode) ==
    {i \in BesideIn(line, key, mode) :
        \A j \in BesideIn(line, key, mode) : CompareValues(line[j], line[i]) # -mode}
FoundIn(line, key, mode) == IF HitsIn(line, key) # {} THEN HitsIn(line, key) ELSE NearestIn(line, key, mode)

(* The search takes the first of what it finds, and backwards the last.     *)
LEMMA SearchFinds ==
    ASSUME NEW line, NEW key, NEW mode \in {-1, 0, 1}
    PROVE  /\ L!XMatch(key, line, mode, FALSE) = L!PositionOr(L!First(FoundIn(line, key, mode)))
           /\ L!XMatch(key, line, mode, TRUE) = L!PositionOr(L!Final(FoundIn(line, key, mode)))
<1> DEFINE hits == HitsIn(line, key)
           beside == BesideIn(line, key, mode)
           nearest == NearestIn(line, key, mode)
<1>1. {i \in DOMAIN line : IF mode = 2 /\ L!IsText(key) /\ L!IsText(line[i])
                           THEN L!CriteriaMatches(key[2], line[i][2])
                           ELSE L!Equal(key, line[i])} = hits
  <2>1. mode # 2
    OBVIOUS
  <2> QED
    BY <2>1, LookupsCompare DEF HitsIn
<1>2. {i \in DOMAIN line : mode \in {-1, 1} /\ L!CompareValues(line[i], key) = mode} = beside
  BY LookupsCompare DEF BesideIn
<1>3. {i \in beside : \A j \in beside : L!CompareValues(line[j], line[i]) # -mode} = nearest
  BY LookupsCompare DEF NearestIn
<1> HIDE DEF hits, beside, nearest
<1>4. L!XMatch(key, line, mode, FALSE) = L!PositionOr(IF hits # {} THEN L!First(hits) ELSE L!First(nearest))
  BY <1>1, <1>2, <1>3 DEF L!XMatch
<1>5. L!XMatch(key, line, mode, TRUE) = L!PositionOr(IF hits # {} THEN L!Final(hits) ELSE L!Final(nearest))
  BY <1>1, <1>2, <1>3 DEF L!XMatch
<1>6. FoundIn(line, key, mode) = IF hits # {} THEN hits ELSE nearest
  BY DEF FoundIn, hits, nearest
<1> QED
  BY <1>4, <1>5, <1>6

(* Places counted from the other end.                                       *)
LEMMA FirstFromTheEnd ==
    ASSUME NEW n \in Nat, NEW S \in SUBSET (1..n), NEW Turned \in SUBSET (1..n),
           \A i \in 1..n : i \in Turned <=> n + 1 - i \in S
    PROVE  /\ S = {} <=> Turned = {}
           /\ S # {} => L!First(Turned) = n + 1 - L!Final(S)
<1>1. \A i \in 1..n : n + 1 - i \in 1..n /\ n + 1 - (n + 1 - i) = i
  OBVIOUS
<1>2. \A i \in S : i \in 1..n /\ n + 1 - i \in Turned
  BY <1>1
<1>3. \A i \in Turned : i \in 1..n /\ n + 1 - i \in S
  BY <1>1
<1>4. S = {} <=> Turned = {}
  BY <1>2, <1>3
<1>5. ASSUME S # {}
      PROVE  L!First(Turned) = n + 1 - L!Final(S)
  <2> DEFINE f == L!First(Turned)  l == L!Final(S)
  <2>1. l \in S /\ \A i \in S : i <= l
    BY <1>5, FirstIs
  <2>2. f \in Turned /\ \A i \in Turned : f <= i
    BY <1>4, <1>5, FirstIs
  <2> HIDE DEF f, l
  <2>3. n + 1 - f \in S /\ n + 1 - l \in Turned /\ f \in 1..n /\ l \in 1..n
    BY <1>2, <1>3, <2>1, <2>2
  <2>4. n + 1 - f <= l /\ f <= n + 1 - l
    BY <2>1, <2>2, <2>3
  <2>5. f = n + 1 - l
    BY <2>3, <2>4
  <2> QED
    BY <2>5 DEF f, l
<1> QED
  BY <1>4, <1>5

(* A search from the end finds what the search of the reversed line does.   *)
LEMMA BackwardsAlwaysReversed ==
    ASSUME NEW line, IsLine(line), NEW key
    PROVE  BackwardsIsReversed(line, key)
<1> DEFINE n == Len(line)
           rev == Reverse(line)
<1>1. n \in Nat /\ DOMAIN line = 1..n
  BY SequenceIsList DEF IsLine
<1>2. DOMAIN rev = 1..n /\ \A i \in 1..n : rev[i] = line[n + 1 - i]
  <2>1. \A i \in 1..n : (n - i) + 1 = n + 1 - i
    BY <1>1
  <2> HIDE DEF n
  <2>2. rev = [i \in 1..n |-> line[(n - i) + 1]]
    BY DEF Reverse, n
  <2> QED
    BY <2>1, <2>2
<1> HIDE DEF rev, n
<1>3. \A i \in 1..n : n + 1 - i \in 1..n /\ n + 1 - (n + 1 - i) = i
  BY <1>1
<1>4. ASSUME NEW mode \in {-1, 0, 1}
      PROVE  LET there == L!XMatch(key, line, mode, TRUE)
                 back == L!XMatch(key, rev, mode, FALSE)
             IN IF IsNumber(there) THEN back = Number(n + 1 - there[2]) ELSE back = there
  <2> DEFINE S == FoundIn(line, key, mode)
             Turned == FoundIn(rev, key, mode)
  <2>1. /\ \A i \in 1..n : i \in HitsIn(rev, key) <=> n + 1 - i \in HitsIn(line, key)
        /\ HitsIn(rev, key) \in SUBSET (1..n) /\ HitsIn(line, key) \in SUBSET (1..n)
    BY <1>1, <1>2, <1>3 DEF HitsIn
  <2>2. /\ \A i \in 1..n : i \in BesideIn(rev, key, mode) <=> n + 1 - i \in BesideIn(line, key, mode)
        /\ BesideIn(rev, key, mode) \in SUBSET (1..n) /\ BesideIn(line, key, mode) \in SUBSET (1..n)
    BY <1>1, <1>2, <1>3 DEF BesideIn
  <2>3. /\ \A i \in 1..n : i \in NearestIn(rev, key, mode) <=> n + 1 - i \in NearestIn(line, key, mode)
        /\ NearestIn(rev, key, mode) \in SUBSET (1..n) /\ NearestIn(line, key, mode) \in SUBSET (1..n)
    <3> DEFINE There == BesideIn(line, key, mode)
               Here == BesideIn(rev, key, mode)
    <3>1. NearestIn(line, key, mode) = {i \in There : \A j \in There : CompareValues(line[j], line[i]) # -mode}
      BY DEF NearestIn
    <3>2. NearestIn(rev, key, mode) = {i \in Here : \A j \in Here : CompareValues(rev[j], rev[i]) # -mode}
      BY DEF NearestIn
    <3> HIDE DEF There, Here
    <3>3. /\ \A i \in 1..n : i \in Here <=> n + 1 - i \in There
          /\ Here \in SUBSET (1..n) /\ There \in SUBSET (1..n)
      BY <2>2 DEF There, Here
    <3>4. ASSUME NEW i \in Here
          PROVE  (\A j \in Here : CompareValues(rev[j], rev[i]) # -mode)
                 <=> (\A j \in There : CompareValues(line[j], line[n + 1 - i]) # -mode)
      <4>1. i \in 1..n /\ rev[i] = line[n + 1 - i]
        BY <1>2, <3>3
      <4>2. \A j \in Here : j \in 1..n /\ n + 1 - j \in There /\ rev[j] = line[n + 1 - j]
        BY <1>2, <3>3
      <4>3. \A j \in There : /\ j \in 1..n /\ n + 1 - j \in Here
                         /\ rev[n + 1 - j] = line[j]
        <5>1. ASSUME NEW j \in There
              PROVE  j \in 1..n /\ n + 1 - j \in Here /\ rev[n + 1 - j] = line[j]
          <6>1. j \in 1..n /\ n + 1 - j \in 1..n /\ n + 1 - (n + 1 - j) = j
            BY <1>3, <3>3
          <6>2. n + 1 - j \in Here
            BY <3>3, <6>1
          <6>3. rev[n + 1 - j] = line[n + 1 - (n + 1 - j)]
            BY <1>2, <6>1
          <6> QED
            BY <6>1, <6>2, <6>3
        <5> QED
          BY <5>1
      <4> QED
        BY <4>1, <4>2, <4>3
    <3>5. ASSUME NEW i \in 1..n
          PROVE  i \in NearestIn(rev, key, mode) <=> n + 1 - i \in NearestIn(line, key, mode)
      BY <3>1, <3>2, <3>3, <3>4
    <3> QED
      BY <3>1, <3>2, <3>3, <3>5
  <2>4. HitsIn(rev, key) = {} <=> HitsIn(line, key) = {}
    <3> DEFINE H == HitsIn(line, key)  J == HitsIn(rev, key)
    <3> HIDE DEF H, J
    <3>1. (\A i \in 1..n : i \in J <=> n + 1 - i \in H) /\ J \in SUBSET (1..n) /\ H \in SUBSET (1..n)
      BY <2>1 DEF H, J
    <3>2. H = {} <=> J = {}
      BY <1>1, <3>1, FirstFromTheEnd
    <3> QED
      BY <3>2 DEF H, J
  <2>5. (\A i \in 1..n : i \in Turned <=> n + 1 - i \in S) /\ S \in SUBSET (1..n) /\ Turned \in SUBSET (1..n)
    BY <2>1, <2>3, <2>4 DEF FoundIn
  <2>6. /\ L!XMatch(key, line, mode, TRUE) = L!PositionOr(L!Final(S))
        /\ L!XMatch(key, rev, mode, FALSE) = L!PositionOr(L!First(Turned))
    BY SearchFinds
  <2> HIDE DEF S, Turned
  <2>7. (S = {} <=> Turned = {}) /\ (S # {} => L!First(Turned) = n + 1 - L!Final(S))
    BY <1>1, <2>5, FirstFromTheEnd
  <2>8. CASE S = {}
    <3>1. L!Final(S) = 0 /\ L!First(Turned) = 0
      BY <1>1, <2>5, <2>7, <2>8, FirstIs
    <3>2. L!PositionOr(0) = NA /\ ~IsNumber(NA)
      BY LookupsCompare DEF L!PositionOr, L!Nowhere, IsNumber, Kind, NA, Error
    <3> QED
      BY <2>6, <3>1, <3>2
  <2>9. CASE S # {}
    <3> DEFINE l == L!Final(S)  f == L!First(Turned)
    <3>1. l \in 1..n /\ f = n + 1 - l
      BY <1>1, <2>5, <2>7, <2>9, FirstIs
    <3> HIDE DEF l, f
    <3>2. l # 0 /\ f # 0
      BY <1>3, <3>1
    <3>3. L!PositionOr(l) = Number(l) /\ L!PositionOr(f) = Number(f)
      BY <3>2, LookupsCompare DEF L!PositionOr, L!Nowhere
    <3>4. IsNumber(Number(l)) /\ Number(l)[2] = l
      BY DEF IsNumber, Kind, Number
    <3> QED
      BY <2>6, <3>1, <3>3, <3>4 DEF l, f
  <2> QED
    BY <2>8, <2>9
<1> QED
  BY <1>4 DEF BackwardsIsReversed, rev, n

(* A reference that is on the grid is back where it was.                    *)
LEMMA MovesAreTakenBack ==
    ASSUME NEW a \in Corners, NEW b \in Corners, NEW down \in Int, NEW right \in Int,
           NEW height \in 1..GridRows, NEW width \in 1..GridCols, a[1] <= b[1], a[2] <= b[2],
           NEW ref, ref = [top |-> a[1], left |-> a[2], bottom |-> b[1], right |-> b[2]]
    PROVE  MovedBack(ref, down, right, height, width)
<1>1. GridRows \in Nat /\ GridCols \in Nat
  BY TrialsAssumption
<1>2. a[1] \in 0..(GridRows - 1) /\ a[2] \in 0..(GridCols - 1) /\ b[1] \in 0..(GridRows - 1) /\ b[2] \in 0..(GridCols - 1)
  BY DEF Corners
<1>3. ref.top = a[1] /\ ref.left = a[2] /\ ref.bottom = b[1] /\ ref.right = b[2]
  OBVIOUS
<1> DEFINE top == a[1] + down
           left == a[2] + right
           bottom == top + height - 1
           last == left + width - 1
           to == [top |-> top, left |-> left, bottom |-> bottom, right |-> last]
           off == \/ height <= 0 \/ width <= 0
                  \/ top < 0 \/ left < 0 \/ bottom >= GridRows \/ last >= GridCols
<1>4. L!Offset(ref, down, right, height, width) = IF off THEN L!NoReference ELSE to
  BY <1>3 DEF L!Offset
<1>5. CASE off
  BY <1>4, <1>5 DEF MovedBack
<1>6. CASE ~off
  <2>1. /\ to.top = top /\ to.left = left /\ to.bottom = bottom /\ to.right = last
    OBVIOUS
  <2>2. /\ top \in Int /\ left \in Int /\ top >= 0 /\ left >= 0 /\ bottom < GridRows /\ last < GridCols
        /\ bottom - top + 1 = height /\ last - left + 1 = width
    <3>1. \A x, d, h, g \in Int : /\ x + d \in Int /\ (~(x + d < 0) => x + d >= 0)
                                    /\ (~(x + d + h - 1 >= g) => x + d + h - 1 < g)
                                    /\ (x + d + h - 1) - (x + d) + 1 = h
      OBVIOUS
    <3>2. a[1] \in Int /\ a[2] \in Int /\ height \in Int /\ width \in Int /\ GridRows \in Int /\ GridCols \in Int
      BY <1>1, <1>2
    <3> QED
      BY <1>6, <3>1, <3>2
  <2>3. L!RowsIn(to) = height /\ L!ColsIn(to) = width
    BY <2>1, <2>2 DEF L!RowsIn, L!ColsIn
  <2> DEFINE rows == b[1] - a[1] + 1
             cols == b[2] - a[2] + 1
  <2>4. L!RowsIn(ref) = rows /\ L!ColsIn(ref) = cols
    BY <1>3 DEF L!RowsIn, L!ColsIn
  <2>5. /\ top + (-down) = a[1] /\ left + (-right) = a[2]
        /\ a[1] + rows - 1 = b[1] /\ a[2] + cols - 1 = b[2]
        /\ ~(rows <= 0) /\ ~(cols <= 0)
        /\ ~(a[1] < 0) /\ ~(a[2] < 0) /\ ~(b[1] >= GridRows) /\ ~(b[2] >= GridCols)
    BY <1>1, <1>2
  <2> HIDE DEF to, top, left, bottom, last, rows, cols
  <2>6. L!Offset(to, -down, -right, rows, cols) = [top |-> a[1], left |-> a[2], bottom |-> b[1], right |-> b[2]]
    BY <2>1, <2>5 DEF L!Offset
  <2>7. L!Offset(ref, down, right, height, width) = to
    BY <1>4, <1>6
  <2> QED
    BY <2>1, <2>2, <2>3, <2>4, <2>6, <2>7 DEF MovedBack
<1> QED
  BY <1>5, <1>6

----------------------------------------------------------------------------
(* Sums and criteria.                                                        *)

(* The running sums of the values at some positions.                        *)
AreSums(upto, values, positions) ==
    /\ upto \in [0..Len(values) -> Int] /\ upto[0] = 0
    /\ \A n \in 1..Len(values) :
        upto[n] = IF n \in positions THEN upto[n - 1] + values[n][2] ELSE upto[n - 1]

(* What is added up is the last of the running sums.                        *)
LEMMA SumIs ==
    ASSUME NEW values, Len(values) \in Nat, NEW positions,
           \A n \in 1..Len(values) : n \in positions => values[n][2] \in Int
    PROVE  \E upto : AreSums(upto, values, positions) /\ L!SumAt(values, positions) = upto[Len(values)]
<1> DEFINE N == Len(values)
           add(s, n) == IF n \in positions THEN s + values[n][2] ELSE s
           g == [x \in Int \X (1..N) |-> add(x[1], x[2])]
           Rec(f) == f = [n \in 0..N |-> IF n = 0 THEN 0
                                         ELSE IF n \in positions THEN f[n - 1] + values[n][2] ELSE f[n - 1]]
           upto == CHOOSE f : Rec(f)
<1>1. N \in Nat
  OBVIOUS
<1>2. L!SumAt(values, positions) = upto[N]
  BY DEF L!SumAt
<1> HIDE DEF upto, N
<1>3. \A s \in Int : \A n \in 1..N : add(s, n) \in Int
  BY DEF N
<1>4. ASSUME NEW f \in [0..N -> Int], f[0] = 0, \A n \in 1..N : f[n] = add(f[n - 1], n)
      PROVE  Rec(f)
  <2>1. \A n \in 0..N : f[n] = IF n = 0 THEN 0
                               ELSE IF n \in positions THEN f[n - 1] + values[n][2] ELSE f[n - 1]
    <3>1. ASSUME NEW n \in 0..N, n # 0
          PROVE  n \in 1..N
      BY <1>1, <3>1
    <3> QED
      BY <1>4, <3>1
  <2> QED
    BY <2>1
<1>5. \E f : Rec(f)
  <2>1. g \in [Int \X (1..N) -> Int]
    BY <1>3
  <2>2. IsRule(g, 0, Int, N)
    <3> HIDE DEF g
    <3> QED
      BY <1>1, <2>1 DEF IsRule
  <2>3. PICK f : Follows(f, g, 0, Int, N)
    <3> HIDE DEF g
    <3> QED
      BY <2>2, Iterates
  <2>4. f \in [0..N -> Int] /\ f[0] = 0 /\ \A n \in 1..N : f[n] = g[<<f[n - 1], n>>]
    BY <2>3 DEF Follows
  <2>5. \A n \in 1..N : f[n] = add(f[n - 1], n)
    <3>1. ASSUME NEW n \in 1..N
          PROVE  f[n] = add(f[n - 1], n)
      <4>1. n - 1 \in 0..N
        BY <1>1
      <4>2. <<f[n - 1], n>> \in Int \X (1..N)
        BY <2>4, <4>1
      <4>3. g[<<f[n - 1], n>>] = add(f[n - 1], n)
        BY <4>2
      <4> HIDE DEF g, add
      <4> QED
        BY <2>4, <4>3
    <3> QED
      BY <3>1
  <2>6. Rec(f)
    <3> HIDE DEF Rec, add
    <3> QED
      BY <1>4, <2>4, <2>5
  <2> HIDE DEF Rec
  <2> QED
    BY <2>6
<1>6. Rec(upto)
  <2> HIDE DEF Rec
  <2> QED
    BY <1>5 DEF upto
<1>7. /\ upto[0] = 0 /\ DOMAIN upto = 0..N
      /\ \A n \in 1..N : upto[n] = add(upto[n - 1], n)
  <2> DEFINE all == [n \in 0..N |-> IF n = 0 THEN 0
                                    ELSE IF n \in positions THEN upto[n - 1] + values[n][2] ELSE upto[n - 1]]
  <2>1. upto = all
    BY <1>6
  <2>2. /\ DOMAIN all = 0..N
        /\ \A n \in 0..N : all[n] = IF n = 0 THEN 0
                                    ELSE IF n \in positions THEN upto[n - 1] + values[n][2] ELSE upto[n - 1]
    OBVIOUS
  <2>3. 0 \in 0..N /\ \A n \in 1..N : n \in 0..N /\ n # 0
    BY <1>1
  <2> HIDE DEF all
  <2> QED
    BY <2>1, <2>2, <2>3
<1>8. \A n \in 0..N : upto[n] \in Int
  <2> DEFINE Good == {n \in 0..N : upto[n] \in Int}
  <2>1. 0 \in Good
    BY <1>1, <1>7
  <2>2. ASSUME NEW n \in 0..(N - 1), n \in Good
        PROVE  n + 1 \in Good
    <3>1. n + 1 \in 1..N /\ (n + 1) - 1 = n /\ n + 1 \in 0..N
      BY <1>1
    <3>2. upto[n + 1] = add(upto[n], n + 1)
      BY <1>7, <3>1
    <3> HIDE DEF add
    <3> QED
      BY <1>3, <2>2, <3>1, <3>2
  <2> HIDE DEF Good
  <2>3. 0 \in Nat
    OBVIOUS
  <2>4. 0..N \subseteq Good
    BY <1>1, <2>1, <2>2, <2>3, GoesOn
  <2> QED
    BY <2>4 DEF Good
<1>9. AreSums(upto, values, positions)
  <2>1. upto \in [0..N -> Int]
    <3>1. upto = [n \in 0..N |-> upto[n]]
      BY <1>6, <1>7
    <3> QED
      BY <1>8, <3>1
  <2> QED
    BY <1>7, <2>1 DEF AreSums, N
<1> QED
  BY <1>2, <1>9 DEF N

(* The sum at positions of two sorts is the sum of the two sums.            *)
LEMMA SumsAdd ==
    ASSUME NEW values, Len(values) \in Nat, NEW P, NEW Q,
           \A n \in 1..Len(values) : n \in P \cup Q => values[n][2] \in Int,
           P \cap Q = {}
    PROVE  L!SumAt(values, P \cup Q) = L!SumAt(values, P) + L!SumAt(values, Q)
<1> DEFINE N == Len(values)
<1>1. PICK a : AreSums(a, values, P) /\ L!SumAt(values, P) = a[N]
  BY SumIs
<1>2. PICK b : AreSums(b, values, Q) /\ L!SumAt(values, Q) = b[N]
  BY SumIs
<1>3. PICK c : AreSums(c, values, P \cup Q) /\ L!SumAt(values, P \cup Q) = c[N]
  <2> DEFINE both == P \cup Q
  <2>1. \A n \in 1..Len(values) : n \in both => values[n][2] \in Int
    OBVIOUS
  <2> HIDE DEF both
  <2>2. \E c : AreSums(c, values, both) /\ L!SumAt(values, both) = c[N]
    BY <2>1, SumIs
  <2> QED
    BY <2>2 DEF both
<1>4. N \in Nat
  OBVIOUS
<1> DEFINE Good == {n \in 0..N : c[n] = a[n] + b[n]}
<1>5. 0 \in Good
  BY <1>1, <1>2, <1>3, <1>4 DEF AreSums
<1>6. ASSUME NEW n \in 0..(N - 1), n \in Good
      PROVE  n + 1 \in Good
  <2> DEFINE k == n + 1  v == values[n + 1][2]
  <2>1. k \in 1..N /\ k - 1 = n /\ k \in 0..N /\ n \in 0..N
    BY <1>4
  <2>2. a[n] \in Int /\ b[n] \in Int /\ c[n] = a[n] + b[n]
    BY <1>1, <1>2, <1>6, <2>1 DEF AreSums
  <2>3. /\ a[k] = IF k \in P THEN a[n] + v ELSE a[n]
        /\ b[k] = IF k \in Q THEN b[n] + v ELSE b[n]
        /\ c[k] = IF k \in P \cup Q THEN c[n] + v ELSE c[n]
    BY <1>1, <1>2, <1>3, <2>1 DEF AreSums
  <2>4. k \in P \cup Q => v \in Int
    BY <2>1
  <2>5. ~(k \in P /\ k \in Q)
    OBVIOUS
  <2> HIDE DEF k, v
  <2>6. c[k] = a[k] + b[k]
    <3>1. CASE k \in P
      BY <2>2, <2>3, <2>4, <2>5, <3>1
    <3>2. CASE k \in Q
      BY <2>2, <2>3, <2>4, <2>5, <3>2
    <3>3. CASE k \notin P /\ k \notin Q
      BY <2>2, <2>3, <3>3
    <3> QED
      BY <3>1, <3>2, <3>3
  <2> QED
    BY <2>1, <2>6 DEF k
<1> HIDE DEF Good
<1>7. N \in Good
  <2>1. 0 \in Nat
    OBVIOUS
  <2>2. 0..N \subseteq Good
    <3> HIDE DEF N
    <3> QED
      BY <1>4, <1>5, <1>6, <2>1, GoesOn
  <2> QED
    BY <1>4, <2>2
<1> QED
  BY <1>1, <1>2, <1>3, <1>7 DEF Good

(* What a cell is to a criteria: by the blank text, whether it is blank; by *)
(* another key, how it compares to it when it is of its kind.               *)
LEMMA SatisfiesIs ==
    ASSUME NEW op \in {"=", "<>", "<", "<=", ">"}, NEW key, IsValue(key), ~IsError(key), ~IsEmpty(key),
           key # Text(<<>>), NEW v, IsValue(v), ~IsError(v)
    PROVE  L!Satisfies(L!Criteria(op, key), v) <=>
               /\ ~IsEmpty(v)
               /\ IF Kind(v) # Kind(key) THEN op = "<>"
                  ELSE IF IsText(key) /\ op = "=" THEN L!CriteriaMatches(key[2], v[2])
                  ELSE IF IsText(key) /\ op = "<>" THEN ~L!CriteriaMatches(key[2], v[2])
                  ELSE L!Orders(op, CompareValues(v, key))
<1>1. L!Text(<<>>) = Text(<<>>)
  BY DEF L!Text, Text
<1>2. L!Criteria(op, key) = [op |-> op, target |-> key]
  BY <1>1 DEF L!Criteria
<1> DEFINE criteria == L!Criteria(op, key)
<1>3. criteria.op = op /\ criteria.target = key
  BY <1>2
<1> HIDE DEF criteria
<1>4. ~L!IsEmpty(key) /\ ~L!IsError(key) /\ ~L!IsError(v) /\ (L!IsEmpty(v) <=> IsEmpty(v))
      /\ L!Kind(v) = Kind(v) /\ L!Kind(key) = Kind(key) /\ (L!IsText(key) <=> IsText(key))
      /\ L!CompareValues(v, key) = CompareValues(v, key)
  BY LookupsCompare
<1>5. L!Satisfies(criteria, v) <=>
          IF L!IsEmpty(v) THEN FALSE
          ELSE IF L!Kind(v) # L!Kind(key) THEN op = "<>"
          ELSE IF L!IsText(key) /\ op = "=" THEN L!CriteriaMatches(key[2], v[2])
          ELSE IF L!IsText(key) /\ op = "<>" THEN ~L!CriteriaMatches(key[2], v[2])
          ELSE L!Orders(op, L!CompareValues(v, key))
  BY <1>3, <1>4, Zenon DEF L!Satisfies
<1> QED
  BY <1>4, <1>5 DEF criteria

(* The blank text asks for the blanks.                                      *)
LEMMA BlankIs ==
    ASSUME NEW v
    PROVE  /\ L!Satisfies(L!Criteria("=", Text(<<>>)), v) <=> IsEmpty(v)
           /\ L!Satisfies(L!Criteria("<>", Text(<<>>)), v) <=> ~IsEmpty(v)
<1>1. L!Text(<<>>) = Text(<<>>) /\ IsEmpty(Empty)
  BY DEF L!Text, Text, IsEmpty, Empty, Kind
<1>2. /\ L!Criteria("=", Text(<<>>)) = [op |-> "=", target |-> Empty]
      /\ L!Criteria("<>", Text(<<>>)) = [op |-> "<>", target |-> Empty]
  BY <1>1, LookupsCompare DEF L!Criteria
<1> DEFINE same == L!Criteria("=", Text(<<>>))  other == L!Criteria("<>", Text(<<>>))
<1>3. same.op = "=" /\ same.target = Empty /\ other.op = "<>" /\ other.target = Empty /\ "=" # "<>"
  BY <1>2
<1> HIDE DEF same, other
<1>4. L!IsEmpty(Empty) /\ (L!IsEmpty(v) <=> IsEmpty(v))
  BY <1>1, LookupsCompare
<1>5. L!Satisfies(same, v) <=> IsEmpty(v)
  BY <1>3, <1>4 DEF L!Satisfies
<1>6. L!Satisfies(other, v) <=> ~IsEmpty(v)
  BY <1>3, <1>4 DEF L!Satisfies
<1> QED
  BY <1>5, <1>6 DEF same, other

(* The parts that criteria make of the cells: what is equal and what is     *)
(* different, and what is below, at and above a key that is not wild.       *)
LEMMA SatisfiesParts ==
    ASSUME NEW key, IsValue(key), ~IsError(key), ~IsEmpty(key), key # Text(<<>>),
           NEW v, IsValue(v), ~IsError(v)
    PROVE  /\ ~IsEmpty(v) => (L!Satisfies(L!Criteria("=", key), v) <=> ~L!Satisfies(L!Criteria("<>", key), v))
           /\ \A op \in {"=", "<>", "<", "<=", ">"} : L!Satisfies(L!Criteria(op, key), v) => ~IsEmpty(v)
           /\ ~IsWild(key) =>
                /\ ~(L!Satisfies(L!Criteria("<", key), v) /\ L!Satisfies(L!Criteria("=", key), v))
                /\ ~(L!Satisfies(L!Criteria("<", key), v) /\ L!Satisfies(L!Criteria(">", key), v))
                /\ ~(L!Satisfies(L!Criteria("=", key), v) /\ L!Satisfies(L!Criteria(">", key), v))
                /\ L!Satisfies(L!Criteria("<", key), v) => L!Satisfies(L!Criteria("<=", key), v)
                /\ L!Satisfies(L!Criteria("=", key), v) => L!Satisfies(L!Criteria("<=", key), v)
<1> DEFINE Holds(op) == L!Satisfies(L!Criteria(op, key), v)
           As(op) == IF Kind(v) # Kind(key) THEN op = "<>"
                     ELSE IF IsText(key) /\ op = "=" THEN L!CriteriaMatches(key[2], v[2])
                     ELSE IF IsText(key) /\ op = "<>" THEN ~L!CriteriaMatches(key[2], v[2])
                     ELSE L!Orders(op, CompareValues(v, key))
<1>1. \A op \in {"=", "<>", "<", "<=", ">"} : Holds(op) <=> ~IsEmpty(v) /\ As(op)
  BY SatisfiesIs
<1>2. Kind(key) \in {"number", "text", "bool"}
  BY DEF IsValue, IsError, IsEmpty
<1>3. /\ \A s : L!Orders("=", s) <=> s = 0
      /\ \A s : L!Orders("<>", s) <=> s # 0
      /\ \A s : L!Orders("<", s) <=> s < 0
      /\ \A s : L!Orders("<=", s) <=> s <= 0
      /\ \A s : L!Orders(">", s) <=> s > 0
  BY DEF L!Orders
<1>4. Kind(v) = Kind(key) => CompareValues(v, key) \in {-1, 0, 1} /\ (CompareValues(v, key) = 0 <=> v = key)
  <2> SUFFICES ASSUME Kind(v) = Kind(key)
               PROVE  CompareValues(v, key) \in {-1, 0, 1} /\ (CompareValues(v, key) = 0 <=> v = key)
    OBVIOUS
  <2> DEFINE S == {v, key}
  <2>1. \A x \in S : IsValue(x) /\ Kind(x) = Kind(key)
    OBVIOUS
  <2>2. v \in S /\ key \in S
    OBVIOUS
  <2> HIDE DEF S
  <2>3. AreOrdered(S)
    BY <1>2, <2>1, ValuesInOrder
  <2> QED
    BY <2>2, <2>3 DEF AreOrdered
<1>5. As("=") <=> ~As("<>")
  <2>1. "=" # "<>"
    OBVIOUS
  <2> QED
    BY <1>3, <2>1
<1>6. ASSUME ~IsWild(key)
      PROVE  /\ As("<") <=> Kind(v) = Kind(key) /\ CompareValues(v, key) < 0
             /\ As("<=") <=> Kind(v) = Kind(key) /\ CompareValues(v, key) <= 0
             /\ As(">") <=> Kind(v) = Kind(key) /\ CompareValues(v, key) > 0
             /\ As("=") <=> Kind(v) = Kind(key) /\ CompareValues(v, key) = 0
  <2>1. /\ "<" # "<>" /\ "<" # "=" /\ "<=" # "<>" /\ "<=" # "=" /\ ">" # "<>" /\ ">" # "=" /\ "=" # "<>"
    OBVIOUS
  <2>2. As("<") <=> Kind(v) = Kind(key) /\ CompareValues(v, key) < 0
    BY <1>3, <2>1
  <2>3. As("<=") <=> Kind(v) = Kind(key) /\ CompareValues(v, key) <= 0
    BY <1>3, <2>1
  <2>4. As(">") <=> Kind(v) = Kind(key) /\ CompareValues(v, key) > 0
    BY <1>3, <2>1
  <2>5. CASE IsText(key) /\ Kind(v) = Kind(key)
    <3>1. IsText(v)
      BY <2>5 DEF IsText
    <3>2. L!CriteriaMatches(key[2], v[2]) <=> key = v
      BY <1>6, <2>5, <3>1, PlainKeyIsEqual
    <3>3. As("=") <=> L!CriteriaMatches(key[2], v[2])
      BY <2>5
    <3> HIDE DEF As
    <3> QED
      BY <1>4, <2>2, <2>3, <2>4, <2>5, <3>2, <3>3
  <2>6. CASE ~(IsText(key) /\ Kind(v) = Kind(key))
    <3>1. As("=") <=> Kind(v) = Kind(key) /\ CompareValues(v, key) = 0
      BY <1>3, <2>1, <2>6
    <3> HIDE DEF As
    <3> QED
      BY <2>2, <2>3, <2>4, <3>1
  <2> QED
    BY <2>5, <2>6
<1> HIDE DEF As, Holds
<1>7. /\ ~IsEmpty(v) => (Holds("=") <=> ~Holds("<>"))
      /\ \A op \in {"=", "<>", "<", "<=", ">"} : Holds(op) => ~IsEmpty(v)
  BY <1>1, <1>5
<1>8. ~IsWild(key) =>
        /\ ~(Holds("<") /\ Holds("=")) /\ ~(Holds("<") /\ Holds(">")) /\ ~(Holds("=") /\ Holds(">"))
        /\ (Holds("<") => Holds("<=")) /\ (Holds("=") => Holds("<="))
  <2> SUFFICES ASSUME ~IsWild(key)
               PROVE  /\ ~(Holds("<") /\ Holds("=")) /\ ~(Holds("<") /\ Holds(">")) /\ ~(Holds("=") /\ Holds(">"))
                      /\ (Holds("<") => Holds("<=")) /\ (Holds("=") => Holds("<="))
    OBVIOUS
  <2> DEFINE c == CompareValues(v, key)
  <2>1. Kind(v) = Kind(key) => c \in {-1, 0, 1}
    BY <1>4
  <2>2. /\ As("<") <=> Kind(v) = Kind(key) /\ c < 0
        /\ As("<=") <=> Kind(v) = Kind(key) /\ c <= 0
        /\ As(">") <=> Kind(v) = Kind(key) /\ c > 0
        /\ As("=") <=> Kind(v) = Kind(key) /\ c = 0
    BY <1>6
  <2> HIDE DEF c
  <2>3. /\ ~(As("<") /\ As("=")) /\ ~(As("<") /\ As(">")) /\ ~(As("=") /\ As(">"))
        /\ (As("<") => As("<=")) /\ (As("=") => As("<="))
    BY <2>1, <2>2
  <2> QED
    BY <1>1, <2>3
<1> QED
  BY <1>7, <1>8 DEF Holds

(* The positions of a line that satisfy a criteria.                         *)
SatisfiedAt(line, op, key) == {i \in DOMAIN line : L!Satisfies(L!Criteria(op, key), line[i])}

(* Lines of the same length and without errors are counted over as a whole. *)
LEMMA OneCondition ==
    ASSUME NEW line, IsLine(line), NoErrors(line), NEW op, NEW key
    PROVE  LET one == <<Condition(line, op, key)>> IN
           /\ L!SameShape(one) /\ L!ConditionError(one) = L!Empty
           /\ L!Matching(one) = SatisfiedAt(line, op, key)
<1> DEFINE c == Condition(line, op, key)
           one == <<c>>
           n == Len(line)
           cells == [k \in 1..(n * 1) |-> one[((k - 1) % 1) + 1].line[((k - 1) \div 1) + 1]]
<1>1. c.line = line /\ c.criteria = L!Criteria(op, key)
  BY DEF Condition
<1>2. n \in Nat /\ DOMAIN line = 1..n
  BY SequenceIsList DEF IsLine
<1> HIDE DEF c, n
<1>3. Len(one) = 1 /\ DOMAIN one = {1} /\ one[1] = c
  OBVIOUS
<1>4. L!SameShape(one)
  BY <1>3 DEF L!SameShape
<1>5. L!ConditionError(one) = L!FirstError(cells)
  <2>1. Len(one[1].line) = n
    BY <1>1, <1>3 DEF n
  <2> HIDE DEF one
  <2> QED
    BY <1>3, <2>1 DEF L!ConditionError
<1>6. L!FirstError(cells) = L!Empty
  <2>1. \A k \in 1..(n * 1) : ((k - 1) % 1) + 1 = 1 /\ ((k - 1) \div 1) + 1 \in 1..n
    BY <1>2
  <2>2. \A k \in 1..(n * 1) : cells[k] = line[((k - 1) \div 1) + 1]
    <3> HIDE DEF one
    <3> QED
      BY <1>1, <1>3, <2>1
  <2>3. \A i \in 1..n : ~IsError(line[i])
    BY <1>2 DEF NoErrors
  <2>4. \A k \in 1..(n * 1) : ~IsError(cells[k])
    <3> HIDE DEF cells
    <3> QED
      BY <2>1, <2>2, <2>3
  <2>5. DOMAIN cells = 1..(n * 1)
    OBVIOUS
  <2> HIDE DEF cells
  <2>6. {k \in DOMAIN cells : L!IsError(cells[k])} = {}
    BY <2>4, <2>5, LookupsCompare
  <2> QED
    BY <2>6 DEF L!FirstError
<1>7. L!Matching(one) = SatisfiedAt(line, op, key)
  <2>1. \A i : (\A m \in DOMAIN one : L!Satisfies(one[m].criteria, one[m].line[i]))
               <=> L!Satisfies(L!Criteria(op, key), line[i])
    <3> HIDE DEF one
    <3> QED
      BY <1>1, <1>3
  <2>2. DOMAIN one[1].line = DOMAIN line
    BY <1>1, <1>3
  <2> HIDE DEF one
  <2> QED
    BY <2>1, <2>2 DEF L!Matching, SatisfiedAt
<1> QED
  BY <1>4, <1>5, <1>6, <1>7 DEF c

(* Two conditions are of the same position of both lines.                   *)
LEMMA TwoConditions ==
    ASSUME NEW line, IsLine(line), NoErrors(line), NEW other, IsLine(other), NoErrors(other),
           Len(other) = Len(line), NEW op, NEW key, NEW second, NEW target
    PROVE  LET two == <<Condition(line, op, key), Condition(other, second, target)>> IN
           /\ L!SameShape(two) /\ L!ConditionError(two) = L!Empty
           /\ L!Matching(two) = SatisfiedAt(line, op, key) \cap SatisfiedAt(other, second, target)
<1> DEFINE c == Condition(line, op, key)
           d == Condition(other, second, target)
           two == <<c, d>>
           n == Len(line)
           cells == [k \in 1..(n * 2) |-> two[((k - 1) % 2) + 1].line[((k - 1) \div 2) + 1]]
<1>1. /\ c.line = line /\ c.criteria = L!Criteria(op, key)
      /\ d.line = other /\ d.criteria = L!Criteria(second, target)
  BY DEF Condition
<1>2. n \in Nat /\ DOMAIN line = 1..n /\ DOMAIN other = 1..n /\ Len(other) = n
  BY SequenceIsList DEF IsLine
<1> HIDE DEF c, d, n
<1>3. Len(two) = 2 /\ DOMAIN two = {1, 2} /\ two[1] = c /\ two[2] = d
  OBVIOUS
<1>4. Len(two[1].line) = n /\ Len(two[2].line) = n
  BY <1>1, <1>2, <1>3 DEF n
<1>5. L!SameShape(two)
  <2> HIDE DEF two
  <2> QED
    BY <1>3, <1>4 DEF L!SameShape
<1>6. L!ConditionError(two) = L!FirstError(cells)
  <2> HIDE DEF two
  <2> QED
    BY <1>3, <1>4 DEF L!ConditionError
<1>7. L!FirstError(cells) = L!Empty
  <2>1. \A k \in 1..(n * 2) : ((k - 1) % 2) + 1 \in {1, 2} /\ ((k - 1) \div 2) + 1 \in 1..n
    BY <1>2
  <2>2. \A i \in 1..n : ~IsError(line[i]) /\ ~IsError(other[i])
    BY <1>2 DEF NoErrors
  <2>3. \A m \in {1, 2} : \A i \in 1..n : ~IsError(two[m].line[i])
    <3> HIDE DEF two
    <3> QED
      BY <1>1, <1>3, <2>2
  <2>4. \A k \in 1..(n * 2) : ~IsError(cells[k])
    <3>1. \A k \in 1..(n * 2) : cells[k] = two[((k - 1) % 2) + 1].line[((k - 1) \div 2) + 1]
      OBVIOUS
    <3> HIDE DEF two, cells
    <3> QED
      BY <2>1, <2>3, <3>1
  <2>5. DOMAIN cells = 1..(n * 2)
    OBVIOUS
  <2> HIDE DEF cells
  <2>6. {k \in DOMAIN cells : L!IsError(cells[k])} = {}
    BY <2>4, <2>5, LookupsCompare
  <2> QED
    BY <2>6 DEF L!FirstError
<1>8. L!Matching(two) = SatisfiedAt(line, op, key) \cap SatisfiedAt(other, second, target)
  <2>1. \A i : (\A m \in DOMAIN two : L!Satisfies(two[m].criteria, two[m].line[i]))
               <=> /\ L!Satisfies(L!Criteria(op, key), line[i])
                   /\ L!Satisfies(L!Criteria(second, target), other[i])
    <3> HIDE DEF two
    <3> QED
      BY <1>1, <1>3
  <2>2. DOMAIN two[1].line = DOMAIN line /\ DOMAIN line = DOMAIN other
    BY <1>1, <1>2, <1>3
  <2> HIDE DEF two
  <2>3. L!Matching(two) = {i \in DOMAIN line : /\ L!Satisfies(L!Criteria(op, key), line[i])
                                               /\ L!Satisfies(L!Criteria(second, target), other[i])}
    BY <2>1, <2>2 DEF L!Matching
  <2> QED
    BY <2>2, <2>3 DEF SatisfiedAt
<1> QED
  BY <1>5, <1>6, <1>7, <1>8 DEF c, d

(* What is counted of a line.                                               *)
LEMMA CountOneIs ==
    ASSUME NEW line, IsLine(line), NoErrors(line), NEW op, NEW key
    PROVE  CountOne(line, op, key)[2] = Cardinality(SatisfiedAt(line, op, key))
<1> DEFINE one == <<Condition(line, op, key)>>
<1>1. L!SameShape(one) /\ L!ConditionError(one) = L!Empty /\ L!Matching(one) = SatisfiedAt(line, op, key)
  BY OneCondition
<1>2. \A S : L!Cardinality(S) = Cardinality(S)
  BY DEF L!Cardinality, Cardinality
<1> HIDE DEF one
<1>3. L!CountIfs(one) = Number(Cardinality(SatisfiedAt(line, op, key)))
  BY <1>1, <1>2, LookupsCompare DEF L!CountIfs
<1> QED
  BY <1>3 DEF one, CountOne, Number

(* What is summed and averaged where conditions without errors match.       *)
LEMMA AggregateIs ==
    ASSUME NEW conditions, L!SameShape(conditions), L!ConditionError(conditions) = L!Empty,
           NEW line, IsLine(line), NoErrors(line), NEW P, L!Matching(conditions) = P, P \subseteq DOMAIN line
    PROVE  LET numbers == {i \in P : IsNumber(line[i])}
               sum == L!SumAt(line, numbers)
           IN /\ L!SumIfs(conditions, line) = Number(sum)
              /\ L!AverageIfs(conditions, line)
                 = IF Cardinality(numbers) = 0 THEN DivError ELSE <<"quotient", <<sum, Cardinality(numbers)>>>>
<1> DEFINE numbers == {i \in P : IsNumber(line[i])}
           result == L!Aggregate(conditions, line)
<1>1. \A i \in P : L!ValueAt(line, i) = line[i] /\ ~IsError(line[i])
  BY DEF L!ValueAt, NoErrors
<1>2. {i \in P : L!IsNumber(L!ValueAt(line, i))} = numbers
  BY <1>1, LookupsCompare
<1>3. {i \in P : L!IsError(L!ValueAt(line, i))} = {}
  BY <1>1, LookupsCompare
<1>4. \A S : L!Cardinality(S) = Cardinality(S)
  BY DEF L!Cardinality, Cardinality
<1> HIDE DEF numbers
<1>5. result = [error |-> L!Empty, sum |-> L!SumAt(line, numbers), count |-> Cardinality(numbers)]
  BY <1>2, <1>3, <1>4 DEF L!Aggregate
<1>6. /\ result.error = L!Empty /\ result.sum = L!SumAt(line, numbers) /\ result.count = Cardinality(numbers)
  BY <1>5
<1> HIDE DEF result
<1>7. L!SumIfs(conditions, line) = Number(L!SumAt(line, numbers))
  BY <1>6, LookupsCompare DEF L!SumIfs, result
<1>8. L!AverageIfs(conditions, line)
      = IF Cardinality(numbers) = 0 THEN DivError
        ELSE <<"quotient", <<L!SumAt(line, numbers), Cardinality(numbers)>>>>
  BY <1>6, LookupsCompare DEF L!AverageIfs, result
<1> QED
  BY <1>7, <1>8 DEF numbers

(* Positions of two sorts are counted by counting each.                     *)
LEMMA PartsCount ==
    ASSUME NEW n \in Nat, NEW P \in SUBSET (1..n), NEW Q \in SUBSET (1..n)
    PROVE  /\ Cardinality(P) \in Nat
           /\ P \cap Q = {} => Cardinality(P \cup Q) = Cardinality(P) + Cardinality(Q)
           /\ P \subseteq Q => Cardinality(P) <= Cardinality(Q)
           /\ Cardinality(P) = n => P = 1..n
<1>1. IsFiniteSet(1..n) /\ Cardinality(1..n) = n
  BY FS_Interval
<1>2. IsFiniteSet(P) /\ IsFiniteSet(Q) /\ (Cardinality(P) = Cardinality(1..n) => P = 1..n)
  BY <1>1, FS_Subset
<1>3. Cardinality(P) \in Nat /\ Cardinality(Q) \in Nat
  BY <1>2, FS_CardinalityType
<1>4. P \cap Q = {} => Cardinality(P \cup Q) = Cardinality(P) + Cardinality(Q)
  <2>1. Cardinality(P \cup Q) = Cardinality(P) + Cardinality(Q) - Cardinality(P \cap Q)
    BY <1>2, FS_Union
  <2>2. P \cap Q = {} => Cardinality(P \cap Q) = 0
    BY FS_EmptySet
  <2> QED
    BY <1>3, <2>1, <2>2
<1>5. P \subseteq Q => Cardinality(P) <= Cardinality(Q)
  BY <1>2, FS_Subset
<1> QED
  BY <1>1, <1>2, <1>3, <1>4, <1>5

(* The same of any two parts.                                               *)
LEMMA PartsAdd ==
    \A n \in Nat : \A P, Q \in SUBSET (1..n) :
        P \cap Q = {} => Cardinality(P \cup Q) = Cardinality(P) + Cardinality(Q)
<1>1. ASSUME NEW n \in Nat, NEW P \in SUBSET (1..n), NEW Q \in SUBSET (1..n)
      PROVE  P \cap Q = {} => Cardinality(P \cup Q) = Cardinality(P) + Cardinality(Q)
  BY PartsCount
<1> QED
  BY <1>1

(* The criteria part the cells they count and add up.                       *)
LEMMA CriteriaAlwaysPartitions ==
    ASSUME NEW line, IsLine(line), \A i \in DOMAIN line : IsValue(line[i]),
           NEW other, IsLine(other), \A i \in DOMAIN other : IsValue(other[i]),
           Len(line) = Len(other), NEW key, IsValue(key)
    PROVE  CriteriaPartition(line, other, key)
<1> DEFINE n == Len(other)
           Meets(op) == SatisfiedAt(other, op, key)
           filled == {i \in DOMAIN other : ~IsEmpty(other[i])}
           blank == key = Text(<<>>)
           full == IF blank THEN Len(other) ELSE CountOf(other, LAMBDA v : ~IsEmpty(v))
           equal == <<Condition(other, "=", key)>>
           given == SatisfiedAt(line, "<>", Text(<<>>))
           numbers == {i \in DOMAIN line : IsNumber(line[i])}
           summed == CountOf([i \in DOMAIN line |-> IF L!Satisfies(L!Criteria("=", key), other[i]) THEN line[i] ELSE Empty], IsNumber)
<1> SUFFICES ASSUME NoErrors(line), NoErrors(other), ~IsError(key), ~IsEmpty(key)
             PROVE  /\ CountOne(other, "=", key)[2] + CountOne(other, "<>", key)[2] = full
                    /\ ~IsWild(key) /\ ~blank =>
                        /\ CountOne(other, "<", key)[2] + CountOne(other, "=", key)[2] + CountOne(other, ">", key)[2] <= full
                        /\ CountOne(other, "<=", key)[2] >= CountOne(other, "<", key)[2] + CountOne(other, "=", key)[2]
                    /\ full = Len(other) =>
                        L!SumIfs(<<Condition(line, "<>", Text(<<>>))>>, line)[2]
                        = SumTwo(line, other, "=", key, line)[2] + SumTwo(line, other, "<>", key, line)[2]
                    /\ L!AverageIfs(equal, line) =
                        (IF summed = 0 THEN DivError ELSE <<"quotient", <<L!SumIfs(equal, line)[2], summed>>>>)
  BY DEF CriteriaPartition
<1>1. n \in Nat /\ DOMAIN other = 1..n /\ DOMAIN line = 1..n
  BY SequenceIsList DEF IsLine
<1>2. \A op : Meets(op) \in SUBSET (1..n) /\ CountOne(other, op, key)[2] = Cardinality(Meets(op))
  <2>1. \A op : Meets(op) \in SUBSET (1..n)
    BY <1>1 DEF SatisfiedAt
  <2> QED
    BY <2>1, CountOneIs
<1>3. filled \in SUBSET (1..n)
  BY <1>1
<1>4. full = IF blank THEN n ELSE Cardinality(filled)
  BY DEF CountOf, Positions
<1>5. blank => Meets("=") = DOMAIN other \ filled /\ Meets("<>") = filled
  BY BlankIs DEF SatisfiedAt
<1>6. ~blank => Meets("=") \cap Meets("<>") = {} /\ Meets("=") \cup Meets("<>") = filled
  <2>1. ASSUME ~blank, NEW i \in DOMAIN other
        PROVE  /\ ~IsEmpty(other[i]) => (i \in Meets("=") <=> i \notin Meets("<>"))
               /\ i \in Meets("=") \/ i \in Meets("<>") => ~IsEmpty(other[i])
    <3>1. IsValue(other[i]) /\ ~IsError(other[i])
      BY DEF NoErrors
    <3>2. /\ ~IsEmpty(other[i]) => (L!Satisfies(L!Criteria("=", key), other[i]) <=> ~L!Satisfies(L!Criteria("<>", key), other[i]))
          /\ \A op \in {"=", "<>", "<", "<=", ">"} : L!Satisfies(L!Criteria(op, key), other[i]) => ~IsEmpty(other[i])
      BY <2>1, <3>1, SatisfiesParts
    <3> QED
      BY <3>2 DEF SatisfiedAt
  <2>2. Meets("=") \subseteq DOMAIN other /\ Meets("<>") \subseteq DOMAIN other
    BY DEF SatisfiedAt
  <2> HIDE DEF blank, Meets
  <2> QED
    BY <2>1, <2>2
<1>7. ASSUME ~IsWild(key), ~blank
      PROVE  /\ Meets("<") \cap Meets("=") = {} /\ (Meets("<") \cup Meets("=")) \cap Meets(">") = {}
             /\ Meets("<") \cup Meets("=") \cup Meets(">") \subseteq filled /\ Meets("<") \cup Meets("=") \subseteq Meets("<=")
  <2>1. ASSUME NEW i \in DOMAIN other
        PROVE  /\ ~(i \in Meets("<") /\ i \in Meets("=")) /\ ~(i \in Meets("<") /\ i \in Meets(">")) /\ ~(i \in Meets("=") /\ i \in Meets(">"))
               /\ (i \in Meets("<") => i \in Meets("<=")) /\ (i \in Meets("=") => i \in Meets("<="))
               /\ i \in Meets("<") \/ i \in Meets("=") \/ i \in Meets(">") => ~IsEmpty(other[i])
    <3>1. IsValue(other[i]) /\ ~IsError(other[i])
      BY DEF NoErrors
    <3> DEFINE Holds(op) == L!Satisfies(L!Criteria(op, key), other[i])
    <3>2. /\ \A op \in {"=", "<>", "<", "<=", ">"} : Holds(op) => ~IsEmpty(other[i])
          /\ ~(Holds("<") /\ Holds("=")) /\ ~(Holds("<") /\ Holds(">")) /\ ~(Holds("=") /\ Holds(">"))
          /\ (Holds("<") => Holds("<=")) /\ (Holds("=") => Holds("<="))
      BY <1>7, <3>1, SatisfiesParts
    <3>3. \A op : i \in Meets(op) <=> Holds(op)
      BY DEF SatisfiedAt
    <3> HIDE DEF Holds, Meets
    <3> QED
      BY <3>2, <3>3
  <2>2. \A op : Meets(op) \subseteq DOMAIN other
    BY DEF SatisfiedAt
  <2> HIDE DEF blank, Meets
  <2> QED
    BY <2>1, <2>2
<1> HIDE DEF blank, Meets
<1>8. CountOne(other, "=", key)[2] + CountOne(other, "<>", key)[2] = full
  <2>1. Meets("=") \cap Meets("<>") = {}
    BY <1>5, <1>6
  <2>2. Cardinality(Meets("=") \cup Meets("<>")) = Cardinality(Meets("=")) + Cardinality(Meets("<>"))
    BY <1>1, <1>2, <2>1, PartsCount
  <2>3. CASE blank
    <3>1. Meets("=") \cup Meets("<>") = 1..n
      BY <1>1, <1>3, <1>5, <2>3
    <3>2. Cardinality(1..n) = n
      <4>1. n \in Nat
        BY <1>1
      <4> HIDE DEF n
      <4>2. n \in Int /\ 1 \in Int /\ (IF 1 > n THEN 0 ELSE n - 1 + 1) = n
        BY <4>1
      <4>3. Cardinality(1..n) = IF 1 > n THEN 0 ELSE n - 1 + 1
        BY <4>2, FS_Interval
      <4> QED
        BY <4>2, <4>3
    <3>3. full = n
      BY <1>4, <2>3
    <3> HIDE DEF full, n
    <3>4. CountOne(other, "=", key)[2] = Cardinality(Meets("=")) /\ CountOne(other, "<>", key)[2] = Cardinality(Meets("<>"))
      BY <1>2
    <3> QED
      BY <2>2, <3>1, <3>2, <3>3, <3>4
  <2>4. CASE ~blank
    BY <1>2, <1>4, <1>6, <2>2, <2>4
  <2> QED
    BY <2>3, <2>4
<1>9. ASSUME ~IsWild(key), ~blank
      PROVE  /\ CountOne(other, "<", key)[2] + CountOne(other, "=", key)[2] + CountOne(other, ">", key)[2] <= full
             /\ CountOne(other, "<=", key)[2] >= CountOne(other, "<", key)[2] + CountOne(other, "=", key)[2]
  <2> DEFINE below == Meets("<")  same == Meets("=")  above == Meets(">")  upto == Meets("<=")
  <2>1. /\ below \in SUBSET (1..n) /\ same \in SUBSET (1..n) /\ above \in SUBSET (1..n) /\ upto \in SUBSET (1..n)
        /\ CountOne(other, "<", key)[2] = Cardinality(below) /\ CountOne(other, "=", key)[2] = Cardinality(same)
        /\ CountOne(other, ">", key)[2] = Cardinality(above) /\ CountOne(other, "<=", key)[2] = Cardinality(upto)
    BY <1>2
  <2>2. /\ below \cap same = {} /\ (below \cup same) \cap above = {}
        /\ below \cup same \cup above \subseteq filled /\ below \cup same \subseteq upto
    BY <1>7, <1>9
  <2> HIDE DEF below, same, above, upto
  <2>3. /\ Cardinality(below) \in Nat /\ Cardinality(same) \in Nat /\ Cardinality(above) \in Nat
        /\ Cardinality(upto) \in Nat /\ Cardinality(filled) \in Nat
    BY <1>1, <1>3, <2>1, PartsCount
  <2>4. Cardinality(below \cup same) = Cardinality(below) + Cardinality(same)
    BY <1>1, <2>1, <2>2, PartsCount
  <2> DEFINE two == below \cup same
  <2>5. two \in SUBSET (1..n) /\ two \cap above = {} /\ two \cup above \in SUBSET (1..n)
        /\ two \cup above \subseteq filled /\ two \subseteq upto
    BY <2>1, <2>2
  <2>6. Cardinality(two) = Cardinality(below) + Cardinality(same)
    BY <2>4
  <2> HIDE DEF two, filled
  <2>7. Cardinality(two \cup above) = Cardinality(two) + Cardinality(above)
    <3>1. n \in Nat /\ two \in SUBSET (1..n) /\ above \in SUBSET (1..n) /\ two \cap above = {}
      BY <1>1, <2>1, <2>5
    <3> HIDE DEF n
    <3>2. \A P, Q \in SUBSET (1..n) : P \cap Q = {} => Cardinality(P \cup Q) = Cardinality(P) + Cardinality(Q)
      BY <3>1, PartsAdd
    <3> QED
      BY <3>1, <3>2
  <2>8. Cardinality(two \cup above) <= Cardinality(filled)
    BY <1>1, <1>3, <2>5, PartsCount
  <2>9. Cardinality(two) <= Cardinality(upto)
    BY <1>1, <2>1, <2>5, PartsCount
  <2>10. full = Cardinality(filled)
    BY <1>4, <1>9
  <2> QED
    BY <2>1, <2>3, <2>6, <2>7, <2>8, <2>9, <2>10
<1>10. given = {i \in DOMAIN line : ~IsEmpty(line[i])} /\ numbers \subseteq given
  <2>1. given = {i \in DOMAIN line : ~IsEmpty(line[i])}
    BY BlankIs DEF SatisfiedAt
  <2> QED
    BY <2>1 DEF IsNumber, IsEmpty
<1>11. \A k \in 1..Len(line) : IsNumber(line[k]) => line[k][2] \in Int
  BY <1>1 DEF IsValue
<1>12. ASSUME full = Len(other)
       PROVE  L!SumIfs(<<Condition(line, "<>", Text(<<>>))>>, line)[2]
              = SumTwo(line, other, "=", key, line)[2] + SumTwo(line, other, "<>", key, line)[2]
  <2> DEFINE P == numbers \cap Meets("=")
             Q == numbers \cap Meets("<>")
  <2>1. Meets("=") \cup Meets("<>") = 1..n /\ Meets("=") \cap Meets("<>") = {}
    <3>1. CASE blank
      BY <1>1, <1>3, <1>5, <3>1
    <3>2. CASE ~blank
      <4>1. Cardinality(filled) = n
        BY <1>4, <1>12, <3>2
      <4>2. filled = 1..n
        BY <1>1, <1>3, <4>1, PartsCount
      <4> QED
        BY <1>6, <3>2, <4>2
    <3> QED
      BY <3>1, <3>2
  <2>2. P \cup Q = numbers /\ P \cap Q = {}
    BY <1>1, <2>1
  <2>3. L!SumIfs(<<Condition(line, "<>", Text(<<>>))>>, line) = Number(L!SumAt(line, numbers))
    <3> DEFINE one == <<Condition(line, "<>", Text(<<>>))>>
    <3>1. L!SameShape(one) /\ L!ConditionError(one) = L!Empty /\ L!Matching(one) = given
      BY OneCondition
    <3>2. given \subseteq DOMAIN line /\ {i \in given : IsNumber(line[i])} = numbers
      BY <1>10
    <3> HIDE DEF one, given, numbers
    <3>3. L!SumIfs(one, line) = Number(L!SumAt(line, {i \in given : IsNumber(line[i])}))
      BY <3>1, <3>2, AggregateIs
    <3> QED
      BY <3>2, <3>3 DEF one
  <2>4. ASSUME NEW op
        PROVE  SumTwo(line, other, op, key, line) = Number(L!SumAt(line, numbers \cap Meets(op)))
    <3> DEFINE two == <<Condition(line, "<>", Text(<<>>)), Condition(other, op, key)>>
               both == given \cap Meets(op)
    <3>1. L!SameShape(two) /\ L!ConditionError(two) = L!Empty /\ L!Matching(two) = both
      BY TwoConditions DEF Meets
    <3>2. both \subseteq DOMAIN line /\ {i \in both : IsNumber(line[i])} = numbers \cap Meets(op)
      BY <1>10
    <3> HIDE DEF two, both, numbers
    <3>3. L!SumIfs(two, line) = Number(L!SumAt(line, {i \in both : IsNumber(line[i])}))
      BY <3>1, <3>2, AggregateIs
    <3> QED
      BY <3>2, <3>3 DEF two, SumTwo
  <2>5. \A k \in 1..Len(line) : k \in P \cup Q => line[k][2] \in Int
    BY <1>11
  <2>6. L!SumAt(line, P \cup Q) = L!SumAt(line, P) + L!SumAt(line, Q)
    <3>1. Len(line) \in Nat
      BY <1>1
    <3> HIDE DEF P, Q
    <3> QED
      BY <2>2, <2>5, <3>1, SumsAdd
  <2>7. L!SumAt(line, numbers) = L!SumAt(line, P) + L!SumAt(line, Q)
    <3> HIDE DEF P, Q
    <3> QED
      BY <2>2, <2>6
  <2>8. /\ SumTwo(line, other, "=", key, line) = Number(L!SumAt(line, P))
        /\ SumTwo(line, other, "<>", key, line) = Number(L!SumAt(line, Q))
    BY <2>4
  <2> HIDE DEF P, Q, numbers
  <2>9. \A x : Number(x)[2] = x
    BY DEF Number
  <2> QED
    BY <2>3, <2>7, <2>8, <2>9
<1>13. L!AverageIfs(equal, line) =
           (IF summed = 0 THEN DivError ELSE <<"quotient", <<L!SumIfs(equal, line)[2], summed>>>>)
  <2> DEFINE P == Meets("=")
             counted == {i \in P : IsNumber(line[i])}
             sum == L!SumAt(line, counted)
             cells == [i \in DOMAIN line |-> IF L!Satisfies(L!Criteria("=", key), other[i]) THEN line[i] ELSE Empty]
  <2>1. L!SameShape(equal) /\ L!ConditionError(equal) = L!Empty /\ L!Matching(equal) = P
    BY OneCondition DEF Meets
  <2>2. P \subseteq DOMAIN line
    BY <1>1, <1>2
  <2>3. /\ L!SumIfs(equal, line) = Number(sum)
        /\ L!AverageIfs(equal, line) = IF Cardinality(counted) = 0 THEN DivError
                                       ELSE <<"quotient", <<sum, Cardinality(counted)>>>>
    <3> HIDE DEF equal, P
    <3> QED
      BY <2>1, <2>2, AggregateIs
  <2>4. summed = Cardinality(counted)
    <3>1. ~IsNumber(Empty)
      BY DEF IsNumber, Empty, Kind
    <3>2. \A i \in DOMAIN line : IsNumber(cells[i]) <=> L!Satisfies(L!Criteria("=", key), other[i]) /\ IsNumber(line[i])
      BY <3>1
    <3>3. DOMAIN cells = DOMAIN line /\ DOMAIN line = DOMAIN other
      BY <1>1
    <3> HIDE DEF cells
    <3>4. {i \in DOMAIN cells : IsNumber(cells[i])} = counted
      BY <3>2, <3>3 DEF Meets, SatisfiedAt
    <3> QED
      BY <3>4 DEF CountOf, Positions, cells
  <2>5. Number(sum)[2] = sum
    BY DEF Number
  <2> HIDE DEF sum, counted, equal, summed
  <2> QED
    BY <2>3, <2>4, <2>5
<1> QED
  BY <1>8, <1>9, <1>12, <1>13

----------------------------------------------------------------------------
(* Lookups among the trials.                                                *)

(* What the lookups are given: values in lines of them, texts, and          *)
(* references that are on the grid.                                         *)
LookupsAreGiven ==
    /\ Trying("lookup") => trial.line \in CellLines /\ trial.key \in Keys
    /\ Trying("wildcard") => trial.pattern \in Patterns /\ trial.text \in Texts
    /\ Trying("criteria") => /\ trial.line \in CellLines /\ trial.other \in CellLines /\ trial.key \in Keys
                             /\ Len(trial.line) = Len(trial.other)
    /\ Trying("offset") => MovedBack(trial.ref, trial.down, trial.right, trial.height, trial.width)

(* They are: a line, a pattern and two lines are tried as they come.        *)
LEMMA LinesAreGiven ==
    ASSUME TryLookup \/ TryWildcard \/ TryCriteria
    PROVE  LookupsAreGiven'
<1>1. CASE TryLookup
  <2>1. PICK line \in CellLines, key \in Keys : trial' = [of |-> "lookup", line |-> line, key |-> key]
    BY <1>1 DEF TryLookup
  <2>2. trial'.of = "lookup" /\ trial'.line = line /\ trial'.key = key
    BY <2>1
  <2> QED
    BY <2>2 DEF LookupsAreGiven, Trying
<1>2. CASE TryWildcard
  <2>1. PICK p \in Patterns, t \in Texts : trial' = [of |-> "wildcard", pattern |-> p, text |-> t]
    BY <1>2 DEF TryWildcard
  <2>2. trial'.of = "wildcard" /\ trial'.pattern = p /\ trial'.text = t
    BY <2>1
  <2> QED
    BY <2>2 DEF LookupsAreGiven, Trying
<1>3. CASE TryCriteria
  <2>1. PICK line \in CellLines, other \in CellLines, key \in Keys :
            /\ Len(line) = Len(other)
            /\ trial' = [of |-> "criteria", line |-> line, other |-> other, key |-> key]
    BY <1>3 DEF TryCriteria
  <2>2. trial'.of = "criteria" /\ trial'.line = line /\ trial'.other = other /\ trial'.key = key
    BY <2>1
  <2> QED
    BY <2>1, <2>2 DEF LookupsAreGiven, Trying
<1> QED
  BY <1>1, <1>2, <1>3

(* A reference is tried with the way back.                                  *)
LEMMA OffsetsAreGiven ==
    ASSUME TryOffset
    PROVE  LookupsAreGiven'
<1>1. PICK a \in Corners, b \in Corners, down \in -2..2, right \in -2..2,
           height \in 1..GridRows, width \in 1..GridCols :
          /\ a[1] <= b[1] /\ a[2] <= b[2]
          /\ trial' = [of |-> "offset", ref |-> [top |-> a[1], left |-> a[2], bottom |-> b[1], right |-> b[2]],
                       down |-> down, right |-> right, height |-> height, width |-> width]
  BY DEF TryOffset
<1> DEFINE ref == [top |-> a[1], left |-> a[2], bottom |-> b[1], right |-> b[2]]
<1>2. /\ trial'.of = "offset" /\ trial'.ref = ref /\ trial'.down = down /\ trial'.right = right
      /\ trial'.height = height /\ trial'.width = width
  BY <1>1
<1>3. down \in Int /\ right \in Int
  OBVIOUS
<1>4. MovedBack(ref, down, right, height, width)
  BY <1>1, <1>3, MovesAreTakenBack
<1> HIDE DEF ref
<1> QED
  BY <1>2, <1>4 DEF LookupsAreGiven, Trying

(* What the lookups find of what they are given is what they promise.       *)
LEMMA GivenLookupsFind ==
    ASSUME LookupsAreGiven
    PROVE  LookupsFind
<1>1. ASSUME Trying("lookup")
      PROVE  /\ NearestByCounting(trial.line, trial.key)
             /\ ExactAlike(trial.line, trial.key)
             /\ BackwardsIsReversed(trial.line, trial.key)
  <2> DEFINE line == trial.line  key == trial.key
  <2>1. line \in CellLines /\ key \in Keys
    BY <1>1 DEF LookupsAreGiven
  <2> HIDE DEF line, key
  <2>2. IsLine(line) /\ IsValue(key) /\ \A i \in DOMAIN line : IsValue(line[i])
    BY <2>1, LookupsAssumption
  <2>3. NearestByCounting(line, key)
    BY <2>2, NearestAlwaysCounted
  <2>4. ExactAlike(line, key)
    BY <2>2, ExactAlwaysAlike
  <2>5. BackwardsIsReversed(line, key)
    BY <2>2, BackwardsAlwaysReversed
  <2> QED
    BY <2>3, <2>4, <2>5 DEF line, key
<1>2. ASSUME Trying("wildcard")
      PROVE  /\ L!WildcardMatches(trial.pattern, trial.text) = SharesOut(L!Tokenize(trial.pattern), trial.text)
             /\ L!CriteriaMatches(trial.pattern, trial.text) = SharesOut(L!Tokenize(trial.pattern), trial.text)
  <2> DEFINE pattern == trial.pattern  text == trial.text
  <2>1. pattern \in Patterns /\ text \in Texts
    BY <1>2 DEF LookupsAreGiven
  <2> HIDE DEF pattern, text
  <2>2. IsSequence(pattern) /\ IsSequence(text)
    BY <2>1, LookupsAssumption
  <2>3. L!WildcardMatches(pattern, text) = SharesOut(L!Tokenize(pattern), text)
    BY <2>2, WildcardIs
  <2>4. L!CriteriaMatches(pattern, text) = SharesOut(L!Tokenize(pattern), text)
    BY <2>2, CriteriaIs
  <2> QED
    BY <2>3, <2>4 DEF pattern, text
<1>3. ASSUME Trying("criteria")
      PROVE  CriteriaPartition(trial.line, trial.other, trial.key)
  <2> DEFINE line == trial.line  other == trial.other  key == trial.key
  <2>1. line \in CellLines /\ other \in CellLines /\ key \in Keys /\ Len(line) = Len(other)
    BY <1>3 DEF LookupsAreGiven
  <2> HIDE DEF line, other, key
  <2>2. /\ IsLine(line) /\ IsLine(other) /\ IsValue(key)
        /\ (\A i \in DOMAIN line : IsValue(line[i])) /\ (\A i \in DOMAIN other : IsValue(other[i]))
    BY <2>1, LookupsAssumption
  <2>3. CriteriaPartition(line, other, key)
    BY <2>1, <2>2, CriteriaAlwaysPartitions
  <2> QED
    BY <2>3 DEF line, other, key
<1>4. Trying("offset") => MovedBack(trial.ref, trial.down, trial.right, trial.height, trial.width)
  BY DEF LookupsAreGiven
<1> QED
  BY <1>1, <1>2, <1>3, <1>4 DEF LookupsFind

(* The lookups find what they promise: an approximate match is the last of  *)
(* those not beyond the key, which a line in order has as many of, the      *)
(* exact ones agree, a search from the end is the search of the reversed    *)
(* line, both readings of a pattern take the texts its tokens share out     *)
(* between them, criteria part what they count and add up, and OFFSET stays *)
(* on the grid and can be taken back: for lines, keys, patterns, texts and  *)
(* grids of any size.                                                       *)
THEOREM LookupsAlwaysFind == Spec => []LookupsFind
<1>1. Init => LookupsAreGiven
  BY DEF Init, Nothing, LookupsAreGiven, Trying
<1>2. ASSUME IsNamed, LookupsAreGiven, [Next]_vars
      PROVE  LookupsAreGiven'
  <2>1. CASE UNCHANGED trial
    BY <1>2, <2>1 DEF LookupsAreGiven, Trying, MovedBack
  <2>2. CASE LedgerStep
    BY <1>2, <2>2, LedgersStayApart DEF LookupsAreGiven, Trying
  <2>3. CASE trial'.of \notin {"lookup", "wildcard", "criteria", "offset"}
    BY <2>3 DEF LookupsAreGiven, Trying
  <2>4. CASE TryLookup \/ TryWildcard \/ TryCriteria
    BY <2>4, LinesAreGiven
  <2>5. CASE TryOffset
    BY <2>5, OffsetsAreGiven
  <2> QED
    BY <1>2, <2>1, <2>2, <2>3, <2>4, <2>5, TrialsStayApart
<1>3. LookupsAreGiven => LookupsFind
  BY GivenLookupsFind
<1>4. IsNamed /\ LookupsAreGiven /\ [Next]_vars => LookupsAreGiven'
  BY <1>2
<1> QED
  BY <1>1, <1>3, <1>4, AllAreNamed, PTL DEF Spec
================================================================================
