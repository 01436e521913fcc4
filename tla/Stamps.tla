-------------------------------- MODULE Stamps --------------------------------
(***************************************************************************)
(* What one page stamps on the events it records (capture/capture.ts), by a *)
(* clock that may be set back: an id that sorts by time, the session and    *)
(* the place in it; and the sessions the server derives from the times      *)
(* (server/sessions.rs).                                                    *)
(*                                                                          *)
(* An id is a time and a random field of a fixed number of digits, here the *)
(* number they spell; ids compare as the texts do, time first.              *)
(***************************************************************************)
EXTENDS Integers, Sequences, Functions

CONSTANTS
    Readings,       \* of the clock
    LastRandom,     \* the random field at its largest
    SessionIdle,    \* of the page, and
    SessionGap,     \* of the server
    MaxEvents

Draws == 0..LastRandom

Ascends(a, b) == a[1] < b[1] \/ (a[1] = b[1] /\ a[2] < b[2])

(* Mutant: an id has the time of the clock, were it earlier than the last. *)
UlidByClock(last, now, draw) == IF now = last[1] /\ last[2] < LastRandom THEN <<now, last[2] + 1>> ELSE <<now, draw>>

(* Within a tick the field counts on; when it is spent, or the clock was    *)
(* set back, the next tick is borrowed.                                     *)
Ulid(last, now, draw) ==
    IF now = last[1] /\ last[2] < LastRandom THEN <<now, last[2] + 1>>
    ELSE <<IF now > last[1] THEN now ELSE last[1] + 1, draw>>

(* A page begins a session with itself. *)
NewPages ==
    {LET id == Ulid(<<-1, 0>>, now, draw) IN
     [of |-> "page", ulid |-> id, session |-> id, seq |-> 0, active |-> now, events |-> <<>>]
        : now \in Readings, draw \in Draws}

(* record, as far as the stamps go: after a long gap the session is new. *)
Recorded(page, now, draws) ==
    LET isNew == now - page.active > SessionIdle
        session == IF isNew THEN Ulid(page.ulid, now, draws[1]) ELSE page.session
        seq == IF isNew THEN 1 ELSE page.seq + 1
        id == Ulid(IF isNew THEN session ELSE page.ulid, now, draws[2])
    IN [page EXCEPT !.ulid = id, !.session = session, !.seq = seq, !.active = now,
                    !.events = Append(@, [id |-> id, session |-> session, seq |-> seq, ts |-> now])]

AfterEvent(page) ==
    IF Len(page.events) = MaxEvents THEN {}
    ELSE {Recorded(page, now, draws) : now \in Readings, draws \in Draws \X Draws}

(* What a query may give in an order that leaves some events undecided.     *)
Ordered(events, Before(_, _)) ==
    LET places == DOMAIN events
        Kept(p) == \A i, j \in places : i < j => ~Before(events[p[j]], events[p[i]])
    IN {[i \in places |-> events[p[i]]] : p \in {p \in Bijection(places, places) : Kept(p)}}

(* ORDER BY session_id, seq. *)
BySession(e, f) == Ascends(e.session, f.session) \/ (e.session = f.session /\ e.seq < f.seq)
Exported(events) == Ordered(events, BySession)

(* ORDER BY ts_ms, seq. *)
ByTime(e, f) == e.ts < f.ts \/ (e.ts = f.ts /\ e.seq < f.seq)
Timed(events) == Ordered(events, ByTime)

(* An event goes on with the last session, unless it comes too late. *)
Joins(sessions, e) == sessions # <<>> /\ e.ts - sessions[Len(sessions)].ended <= SessionGap

Joined(session, e) ==
    [started |-> session.started, ended |-> e.ts, count |-> session.count + 1, claimed |-> session.claimed \cup {e.session}]

Begun(e) == [started |-> e.ts, ended |-> e.ts, count |-> 1, claimed |-> {e.session}]

With(sessions, e) ==
    IF Joins(sessions, e)
    THEN [sessions EXCEPT ![Len(sessions)] = Joined(sessions[Len(sessions)], e)]
    ELSE Append(sessions, Begun(e))

(* The sessions of a user, event by event. *)
SessionsFor(ordered) ==
    LET after[n \in 0..Len(ordered)] == IF n = 0 THEN <<>> ELSE With(after[n - 1], ordered[n])
    IN after[Len(ordered)]
=============================================================================
