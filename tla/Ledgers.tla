------------------------------- MODULE Ledgers -------------------------------
(***************************************************************************)
(* The trials that go on: a ledger of the program is opened and kept, call  *)
(* by call, in any order its callers may come.  They are the table of       *)
(* routines that the miner and the server write, the table of buckets that  *)
(* limits requests, and the log of one page.                                *)
(***************************************************************************)
EXTENDS Integers, SequencesExt, FiniteSetsExt

CONSTANTS
    Nights, MaxNights,          \* what the mining runs find
    Callers, Capacity, Refill, Cost, MaxKeys, MaxRequests, MaxTick,     \* who asks for what, and how often
    Readings, LastRandom, SessionIdle, SessionGap, MaxEvents    \* what the clock of a page says

ASSUME LimiterAssumption ==
    Capacity \in Nat /\ Cost \in 1..Capacity /\ Refill \in Nat \ {0} /\ MaxKeys \in Nat \ {0}

(* The page and the server agree on when a session ends, ten minutes after  *)
(* its last event.                                                          *)
ASSUME StampsAssumption ==
    Readings \subseteq Nat /\ LastRandom \in Nat /\ SessionIdle \in Nat /\ SessionGap = SessionIdle

(* A run finds something for one workbook of an actor at least, and for     *)
(* each of them at once.                                                    *)
ASSUME NightsAssumption ==
    \A night \in Nights :
        /\ Len(night) \in Nat \ {0} /\ DOMAIN night = 1..Len(night)
        /\ \A k \in DOMAIN night : LET ids == night[k].ids IN Len(ids) \in Nat /\ DOMAIN ids = 1..Len(ids)
        /\ \A j, k \in DOMAIN night :
            night[j].actor = night[k].actor /\ night[j].workbook = night[k].workbook => j = k

T == INSTANCE RoutineStore
B == INSTANCE RateLimits
K == INSTANCE Stamps

VARIABLE trial

vars == <<trial>>

Nothing == [of |-> "nothing"]

Init == trial = Nothing

Trying(algorithm) == trial.of = algorithm

OpenStore ==
    /\ trial = Nothing
    /\ trial' = T!NewStore

UseStore ==
    /\ trial.of = "store"
    /\ trial' \in T!AfterStatement(trial)

OpenLimiter ==
    /\ trial = Nothing
    /\ trial' = B!NewLimiter

AskLimiter ==
    /\ trial.of = "limiter"
    /\ trial' \in B!AfterRequest(trial)

OpenPage ==
    /\ trial = Nothing
    /\ trial' \in K!NewPages

RecordEvent ==
    /\ trial.of = "page"
    /\ trial' \in K!AfterEvent(trial)

LedgerStep ==
    \/ OpenStore
    \/ UseStore
    \/ OpenLimiter
    \/ AskLimiter
    \/ OpenPage
    \/ RecordEvent

----------------------------------------------------------------------------
(* What the ledgers keep.                                                   *)

(* What a user has answered stays, whatever the miner finds on the nights   *)
(* after, but for an answer that comes between the miner's reading of the   *)
(* stale proposals and their deletion.  Nothing is answered but by its      *)
(* user.  After a run that did not fail, every routine that was found is    *)
(* its actor's, and answered or proposed in a workbook it was found in, and *)
(* no other proposal is left in the workbooks that were mined.  A run fails *)
(* only for a routine another actor has as well.                            *)
AnswersStay ==
    Trying("store") =>
        LET st == trial
            Found(actor, workbook) == UNION {T!Ids(g) : g \in {g \in ToSet(st.mined) : g.actor = actor /\ g.workbook = workbook}}
            shared == \E night \in Nights, other \in Nights : \E g \in ToSet(night), h \in ToSet(other) :
                        g.actor # h.actor /\ T!Ids(g) \cap T!Ids(h) # {}
        IN /\ \A id \in DOMAIN st.answers \ st.late : id \in DOMAIN st.rows /\ st.rows[id].status = st.answers[id]
           /\ \A id \in DOMAIN st.rows : st.rows[id].status # "proposed" => id \in DOMAIN st.answers
           /\ st.failed => shared
           /\ \A g \in ToSet(st.mined) :
                /\ \A id \in T!Ids(g) :
                    /\ T!Owns(st, g.actor, id)
                    /\ st.rows[id].status = "proposed" => id \in Found(g.actor, st.rows[id].workbook)
                /\ \A id \in T!Listed(st, g.actor, g.workbook) : st.rows[id].status = "proposed" => id \in Found(g.actor, g.workbook)

(* However the requests of several callers come, overtaken ones among them, *)
(* each is granted what its bucket held at first, what the time it waited   *)
(* brought and what it was let off, and nothing more; and that time is no   *)
(* longer than the clock says, as long as no request is overtaken.  Who     *)
(* leaves time for a token between two requests is never refused.  The      *)
(* table keeps its bound, and gives up a bucket that is still in debt only  *)
(* when that many others are, none of them seen before it.                  *)
LimitsHold ==
    Trying("limiter") =>
        LET l == trial
            lost == DOMAIN l.asked \ DOMAIN l.buckets
        IN /\ Cardinality(DOMAIN l.buckets) <= MaxKeys
           /\ \A c \in Callers :
                /\ Cost * l.passed[c] <= Capacity + Refill * l.waited[c] + l.waived[c]
                /\ l.orderly => l.waited[c] <= l.now
                /\ c \notin l.hurried => l.refused[c] = 0
                /\ l.waived[c] > 0 => Cardinality({d \in Callers : l.seen[d] # <<>>}) > MaxKeys
           /\ \A c \in lost :
                B!IsIndebted(l.asked, c, l.now) =>
                    /\ Cardinality(DOMAIN l.buckets) = MaxKeys
                    /\ \A d \in DOMAIN l.buckets : B!IsIndebted(l.buckets, d, l.now) /\ l.buckets[d].last >= l.asked[c].last

(* Sessions cut the events into runs: each event is in one, and counts      *)
(* there with what it claims; no gap within a run is too long, and every    *)
(* one between two is.                                                      *)
AreRuns(sessions, ordered) ==
    \E cut \in [0..Len(sessions) -> 0..Len(ordered)] :
        /\ cut[0] = 0 /\ cut[Len(sessions)] = Len(ordered)
        /\ \A i \in DOMAIN sessions :
            /\ cut[i - 1] < cut[i] /\ sessions[i].count = cut[i] - cut[i - 1]
            /\ sessions[i].started = ordered[cut[i - 1] + 1].ts /\ sessions[i].ended = ordered[cut[i]].ts
            /\ sessions[i].claimed = {ordered[k].session : k \in (cut[i - 1] + 1)..cut[i]}
            /\ \A k \in (cut[i - 1] + 1)..(cut[i] - 1) : ordered[k + 1].ts - ordered[k].ts <= SessionGap
            /\ i > 1 => sessions[i].started - sessions[i - 1].ended > SessionGap

(* Whatever the clock does, the ids of a page ascend, the export gives its  *)
(* events in the order in which they were recorded, and the server derives  *)
(* sessions that count each event once.  When the clock is not set back,    *)
(* they are the sessions the page has claimed, one after the other.         *)
StampsAgree ==
    Trying("page") =>
        LET events == trial.events
            forward == \A i, j \in DOMAIN events : i < j => events[i].ts <= events[j].ts
        IN /\ \A i, j \in DOMAIN events : i < j => K!Ascends(events[i].id, events[j].id)
           /\ K!Exported(events) = {events}
           /\ \A ordered \in K!Timed(events) : AreRuns(K!SessionsFor(ordered), ordered)
           /\ forward =>
                LET sessions == K!SessionsFor(events) IN
                /\ K!Timed(events) = {events}
                /\ \A i \in DOMAIN sessions : \A a, b \in sessions[i].claimed : a = b
                /\ \A i, j \in DOMAIN sessions : i < j =>
                        \A a \in sessions[i].claimed, b \in sessions[j].claimed : K!Ascends(a, b)
=============================================================================
