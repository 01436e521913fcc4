------------------------------ MODULE RateLimits ------------------------------
(***************************************************************************)
(* The token buckets of the two public endpoints (server/ratelimit.rs): one *)
(* per address for registrations, one per user for batches.  The table is   *)
(* bounded, and what is evicted from it starts again with a full bucket.    *)
(*                                                                          *)
(* Tokens are counted in parts, Cost of them to a request, so that a tick   *)
(* of the clock may bring less than a token.                                *)
(***************************************************************************)
EXTENDS Integers, FiniteSetsExt, Functions

CONSTANTS
    Callers,        \* addresses or users
    Capacity, Refill, Cost,     \* of a bucket, per tick, and of a request, in parts
    MaxKeys,        \* of the table
    MaxRequests, MaxTick        \* how long a trial goes on, and how far its clock

(* A limiter is its table, the last reading of the clock, and what each     *)
(* caller was granted, waited for and was let off; "asked" is the table     *)
(* before the eviction.                                                     *)
NewLimiter ==
    [of |-> "limiter", buckets |-> <<>>, asked |-> <<>>, now |-> 0, orderly |-> TRUE, requests |-> 0,
     passed |-> [c \in Callers |-> 0], refused |-> [c \in Callers |-> 0], waited |-> [c \in Callers |-> 0],
     seen |-> [c \in Callers |-> <<>>], hurried |-> {}, waived |-> [c \in Callers |-> 0]]

Later(a, b) == IF a < b THEN b - a ELSE 0

Refilled(bucket, now) ==
    LET full == bucket.tokens + Refill * Later(bucket.last, now) IN IF full < Capacity THEN full ELSE Capacity

IsIndebted(buckets, c, now) == Refilled(buckets[c], now) < Capacity

(* Mutant: what a bucket held when it was last touched decides. *)
Untouched(buckets, now) == {c \in DOMAIN buckets : buckets[c].tokens < Capacity}

Indebted(buckets, now) == {c \in DOMAIN buckets : IsIndebted(buckets, c, now)}

(* First the full buckets go, then the oldest: of those of one age any.     *)
Evicted(buckets, now) ==
    LET kept == Indebted(buckets, now)
        excess == Cardinality(kept) - MaxKeys
    IN IF Cardinality(DOMAIN buckets) <= MaxKeys THEN {buckets}
       ELSE IF excess <= 0 THEN {Restrict(buckets, kept)}
       ELSE {Restrict(buckets, kept \ gone) :
                gone \in {S \in kSubset(excess, kept) : \A c \in S, d \in kept \ S : buckets[c].last <= buckets[d].last}}

Put(buckets, c, bucket) == [d \in DOMAIN buckets \cup {c} |-> IF d = c THEN bucket ELSE buckets[d]]

(* The time that has gone by for a bucket: what it has waited when it is    *)
(* asked for or evicted.                                                    *)
Elapsed(buckets, c, now) == IF c \in DOMAIN buckets THEN Later(buckets[c].last, now) ELSE 0

(* What a bucket that is evicted was still owed.                            *)
Debt(buckets, c, now) == Capacity - Refilled(buckets[c], now)

(* allow_at.  A caller that is back before a request's worth of tokens      *)
(* could come in is hurried.                                                *)
Allow(l, c, now) ==
    LET held == IF c \in DOMAIN l.buckets THEN Refilled(l.buckets[c], now) ELSE Capacity
        allowed == held >= Cost
        asked == Put(l.buckets, c, [tokens |-> IF allowed THEN held - Cost ELSE held, last |-> now])
        soon == l.seen[c] # <<>> /\ Refill * Later(l.seen[c][1], now) < Cost
    IN {LET lost == DOMAIN asked \ DOMAIN buckets IN
        [l EXCEPT !.buckets = buckets, !.asked = asked, !.now = now, !.requests = @ + 1, !.seen[c] = <<now>>,
                  !.orderly = @ /\ l.now <= now,
                  !.passed[c] = @ + (IF allowed THEN 1 ELSE 0), !.refused[c] = @ + (IF allowed THEN 0 ELSE 1),
                  !.waited = [d \in Callers |->
                                @[d] + (IF d = c THEN Elapsed(l.buckets, c, now) ELSE 0)
                                     + (IF d \in lost THEN Elapsed(asked, d, now) ELSE 0)],
                  !.hurried = IF soon THEN @ \cup {c} ELSE @,
                  !.waived = [d \in Callers |-> @[d] + IF d \in lost THEN Debt(asked, d, now) ELSE 0]]
            : buckets \in Evicted(asked, now)}

(* The clock is read before the table is locked: requests with later        *)
(* readings may have been there before.                                     *)
AfterRequest(l) ==
    IF l.requests = MaxRequests THEN {}
    ELSE UNION {Allow(l, c, now) : c \in Callers, now \in 0..MaxTick}
=============================================================================
