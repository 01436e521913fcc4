--------------------------- MODULE CapturePipeline ---------------------------
(***************************************************************************)
(* The way of one captured event from the grid to the server's log: the    *)
(* capture controller's ring buffer (capture.ts), the delivery queue and    *)
(* its IndexedDB store (queue.ts), the POST /v1/events exchange (api.ts)    *)
(* and the ingest handler (events.rs), with page reloads and a network      *)
(* that loses requests and answers.                                         *)
(*                                                                          *)
(* An event is its number: events are numbered in the order in which they   *)
(* are recorded, which is the order of their ULIDs.  What is left out of    *)
(* the envelope is what no step looks at.  Time is left out: a timer that   *)
(* is armed may fire at any moment.                                         *)
(***************************************************************************)
EXTENDS Naturals, Sequences, FiniteSets

CONSTANTS
    Capacity,           \* slots of the ring buffer (5000 in the code)
    BatchSize,          \* events in one request (200 in the code)
    MaxEvents,          \* bound: events recorded in a behaviour
    MaxReloads,         \* bound: times the page is closed or crashes
    MaxNetworkFaults,   \* bound: requests that fail or are answered too late
    MaxStorageFaults,   \* bound: IndexedDB openings or transactions that fail
    MaxConsentChanges   \* bound: changes of the server's consent record

ASSUME PipelineAssumption ==
    /\ Capacity \in Nat \ {0}
    /\ BatchSize \in Nat \ {0}
    /\ MaxEvents \in Nat
    /\ MaxReloads \in Nat
    /\ MaxNetworkFaults \in Nat
    /\ MaxStorageFaults \in Nat
    /\ MaxConsentChanges \in Nat

VARIABLES
    (* The capture controller, lost with the page. *)
    ring,       \* the events in the ring buffer; the oldest is the least
    (* The delivery queue, lost with the page. *)
    items,      \* queued event -> the part of the array it stands in
    storage,    \* which store the queue has
    live,       \* the request the queue is waiting for
    retryTimer, \* whether a backoff is waiting its turn
    (* IndexedDB, which survives the page. *)
    disk,       \* the events in the store
    writes,     \* transactions of this page that have not run yet
    (* The server. *)
    late,       \* requests at the server nobody waits for any more
    consent,    \* mode of the actor's latest consent row
    rows,       \* rows[e] is how many rows of the events table have e's id
    (* What happened, for the properties only. *)
    recorded,   \* recorded[e] is the privacy mode event e claims
    released,   \* events the queue forgot because the server said 200
    thrown,     \* events the queue discarded, and counted
    gone,       \* events overwritten in the full ring buffer (and counted), or
                \* nowhere but in memory when the page died
    (* Bounds. *)
    reloads, networkFaults, storageFaults, consentChanges

queueVars == <<items, storage, live, retryTimer>>
diskVars == <<disk, writes>>
serverVars == <<late, consent, rows>>
historyVars == <<recorded, released, thrown, gone>>
boundVars == <<reloads, networkFaults, storageFaults, consentChanges>>
vars == <<ring, queueVars, diskVars, serverVars, historyVars, boundVars>>

----------------------------------------------------------------------------
Event == 1..MaxEvents
Mode == {"structural", "full"}
Consent == Mode \union {"off", "none"}

(* The queue's array only grows at its end, and takes the backlog of        *)
(* earlier pages in once: an event's place in it is its part and, within a  *)
(* part, its number.                                                        *)
BeforeBacklog == 1
Backlog == 2
AfterBacklog == 3
Part == {BeforeBacklog, Backlog, AfterBacklog}

(* A request, and the consent the handler read for it, once. *)
Request == [batch : SUBSET Event, under : Consent \union {"unread"}]
NoRequest == [batch |-> {}, under |-> "unread"]

Write == [op : {"all", "put", "remove"}, events : SUBSET Event]

TypeOK ==
    /\ ring \in SUBSET Event
    /\ DOMAIN items \in SUBSET Event
    /\ \A e \in DOMAIN items : items[e] \in Part
    /\ storage \in {"opening", "reading", "idb", "memory"}
    /\ live \in Request /\ retryTimer \in BOOLEAN
    /\ disk \in SUBSET Event /\ writes \in Seq(Write)
    /\ late \in SUBSET Request /\ consent \in Consent
    /\ rows \in [Event -> Nat]
    /\ recorded \in Seq(Mode) /\ Len(recorded) <= MaxEvents
    /\ released \in SUBSET Event /\ thrown \in SUBSET Event /\ gone \in SUBSET Event
    /\ reloads \in 0..MaxReloads
    /\ networkFaults \in 0..MaxNetworkFaults
    /\ storageFaults \in 0..MaxStorageFaults
    /\ consentChanges \in 0..MaxConsentChanges

Queued == DOMAIN items
InTable == {e \in Event : rows[e] > 0}

EmptyQueue == [e \in {} |-> BeforeBacklog]

(* The first page of a browser whose user may be known to the server. *)
Init ==
    /\ ring = {}
    /\ items = EmptyQueue /\ storage = "opening" /\ live = NoRequest /\ retryTimer = FALSE
    /\ disk = {} /\ writes = <<>>
    /\ late = {} /\ consent \in Consent /\ rows = [e \in Event |-> 0]
    /\ recorded = <<>> /\ released = {} /\ thrown = {} /\ gone = {}
    /\ reloads = 0 /\ networkFaults = 0 /\ storageFaults = 0 /\ consentChanges = 0

----------------------------------------------------------------------------
(* EventQueue.                                                              *)

(* a stands before b in the queue q. *)
Before(q, a, b) == q[a] < q[b] \/ (q[a] = q[b] /\ a < b)

FirstBatch(q) ==
    {e \in DOMAIN q : Cardinality({x \in DOMAIN q : Before(q, x, e)}) < BatchSize}

RequestFor(q) ==
    IF DOMAIN q = {} THEN NoRequest
    ELSE [batch |-> FirstBatch(q), under |-> "unread"]

(* Mutant: the test of the loop's guard is the wrong way round. *)
FlushWhenBusy(q) == live' = IF live # NoRequest THEN RequestFor(q) ELSE live

(* One delivery loop at a time; while one runs, a flush changes nothing. *)
Flush(q) == live' = IF live = NoRequest THEN RequestFor(q) ELSE live

(* The queue with "fresh" added at its end. *)
Extended(fresh, part) ==
    [e \in Queued \union fresh |-> IF e \in Queued THEN items[e] ELSE part]

OnDisk == storage \in {"reading", "idb"}
Issue(op, events) == IF OnDisk THEN Append(writes, [op |-> op, events |-> events]) ELSE writes

(* flushNow: what is taken out of the ring buffer goes to the queue and to  *)
(* its store, and the queue delivers.  It asks for the delivery itself,     *)
(* whether or not a backoff is waiting.                                     *)
HandOver(taken) ==
    LET fresh == taken \ Queued IN
    /\ items' = Extended(fresh, IF storage = "idb" THEN AfterBacklog ELSE BeforeBacklog)
    /\ writes' = IF fresh = {} THEN writes ELSE Issue("put", fresh)
    /\ Flush(items')
    /\ UNCHANGED <<storage, retryTimer, disk>>

RetryFires ==
    /\ retryTimer
    /\ retryTimer' = FALSE
    /\ Flush(items)
    /\ UNCHANGED <<ring, items, storage, diskVars, serverVars, historyVars, boundVars>>

----------------------------------------------------------------------------
(* CaptureController.                                                       *)

NextEvent == Len(recorded) + 1

(* What a push overwrites: the oldest event, when every slot is taken. *)
Evicted ==
    IF Cardinality(ring) >= Capacity THEN {e \in ring : \A x \in ring : e <= x} ELSE {}

(* An action of the engine or the shell, a sampled selection change, or the *)
(* mark of a change of mode or a pause.  When capture is on, and in which   *)
(* mode, is ConsentSync's; here an event may be recorded at any time.       *)
Record(m) ==
    /\ Len(recorded) < MaxEvents
    /\ recorded' = Append(recorded, m)
    /\ ring' = (ring \ Evicted) \union {NextEvent}
    /\ gone' = gone \union Evicted
    /\ UNCHANGED <<queueVars, diskVars, serverVars, released, thrown, boundVars>>

(* The five second timer, a full batch, a pause, a withdrawal, or the page  *)
(* being hidden.                                                            *)
FlushNow ==
    /\ ring' = {}
    /\ HandOver(ring)
    /\ UNCHANGED <<serverVars, historyVars, boundVars>>

----------------------------------------------------------------------------
(* The exchange with the ingest handler.                                    *)

(* The handler reads the actor's consent once, before it looks at the batch. *)
ReadConsent(r) ==
    /\ r.under = "unread"
    /\ IF r = live THEN live' = [r EXCEPT !.under = consent] /\ UNCHANGED late
       ELSE late' = (late \ {r}) \union {[r EXCEPT !.under = consent]} /\ UNCHANGED live
    /\ UNCHANGED <<ring, items, storage, retryTimer, diskVars, consent, rows,
                   historyVars, boundVars>>

(* Refused for want of consent, and refused because the event claims more   *)
(* than the actor agreed to.                                                *)
Barred(r) == IF r.under \in {"none", "off"} THEN r.batch ELSE {}
TooWide(r) == IF r.under = "structural" THEN {e \in r.batch : recorded[e] = "full"} ELSE {}
Accepted(r) == r.batch \ (Barred(r) \union TooWide(r))

(* Mutants: any refusal makes it a 403; there is no 403. *)
ForbiddenOnAnyRefusal(r) == Barred(r) \union TooWide(r) # {}
NeverForbidden(r) == FALSE

(* 403 when there are refusals and consent is the reason for all of them, else 200. *)
Forbidden(r) == Barred(r) \union TooWide(r) # {} /\ TooWide(r) = {}

(* INSERT ... ON CONFLICT(event_id) DO NOTHING, for each event of S. *)
Insert(S) == rows' = [e \in Event |-> IF e \in S \ InTable THEN rows[e] + 1 ELSE rows[e]]

(* The handler goes through the batch and its answer arrives.  The batch    *)
(* leaves the queue and its store, counted as discarded under a 403, and    *)
(* the delivery loop goes on with what is left.                             *)
Answer ==
    LET left == [e \in Queued \ live.batch |-> items[e]] IN
    /\ live.under # "unread"
    /\ Insert(Accepted(live))
    /\ items' = left
    /\ writes' = Issue("remove", live.batch)
    /\ live' = RequestFor(left)
    /\ IF Forbidden(live)
       THEN thrown' = thrown \union live.batch /\ UNCHANGED released
       ELSE released' = released \union live.batch /\ UNCHANGED thrown
    /\ UNCHANGED <<ring, storage, retryTimer, disk, late, consent,
                   recorded, gone, boundVars>>

(* The handler's work on a batch whose answer nobody waits for.  It may     *)
(* have stopped half-way, with some of the batch stored.                    *)
LateIngest(r) ==
    /\ r.under # "unread"
    /\ \E S \in SUBSET Accepted(r) : Insert(S)
    /\ late' = late \ {r}
    /\ UNCHANGED <<ring, queueVars, diskVars, consent, historyVars, boundVars>>

(* Mutant: the batch leaves the store as soon as it was sent. *)
RequestFailsForgetting ==
    /\ live # NoRequest
    /\ networkFaults < MaxNetworkFaults
    /\ networkFaults' = networkFaults + 1
    /\ writes' = Issue("remove", live.batch)
    /\ live' = NoRequest
    /\ retryTimer' = TRUE
    /\ late' \in {late, late \union {live}}
    /\ UNCHANGED <<ring, items, storage, disk, consent, rows, historyVars,
                   reloads, storageFaults, consentChanges>>

(* Offline, a time-out, a 408, a 429 or a 5xx: the queue backs off, and the *)
(* handler has not seen the batch, or is at work on it still (LateIngest).  *)
RequestFails ==
    /\ live # NoRequest
    /\ networkFaults < MaxNetworkFaults
    /\ networkFaults' = networkFaults + 1
    /\ live' = NoRequest
    /\ retryTimer' = TRUE
    /\ late' \in {late, late \union {live}}
    /\ UNCHANGED <<ring, items, storage, diskVars, consent, rows, historyVars,
                   reloads, storageFaults, consentChanges>>

(* POST /v1/consent commits.  What makes the client send one is in          *)
(* ConsentSync; here any mode may be on record at any time.                 *)
ConsentChanges(c) ==
    /\ c \notin {"none", consent}
    /\ consentChanges < MaxConsentChanges
    /\ consentChanges' = consentChanges + 1
    /\ consent' = c
    /\ UNCHANGED <<ring, queueVars, diskVars, late, rows, historyVars,
                   reloads, networkFaults, storageFaults>>

----------------------------------------------------------------------------
(* IndexedDB, and the page's life.                                          *)

(* useStorage: the store is adopted and asked for its backlog. *)
StorageOpens ==
    /\ storage = "opening"
    /\ storage' = "reading"
    /\ writes' = Append(writes, [op |-> "all", events |-> {}])
    /\ UNCHANGED <<ring, items, live, retryTimer, disk, serverVars, historyVars,
                   boundVars>>

StorageUnavailable ==
    /\ storage = "opening"
    /\ storageFaults < MaxStorageFaults
    /\ storageFaults' = storageFaults + 1
    /\ storage' = "memory"
    /\ UNCHANGED <<ring, items, live, retryTimer, diskVars, serverVars, historyVars,
                   reloads, networkFaults, consentChanges>>

(* Mutants: the backlog replaces what is queued; the queue is not stored    *)
(* after the adoption; the backlog is left in the store.                    *)
AdoptReplacing(backlog) ==
    /\ storage' = "idb"
    /\ items' = [e \in backlog |-> Backlog]
    /\ writes' = IF DOMAIN items' = {} THEN Tail(writes)
                 ELSE Append(Tail(writes), [op |-> "put", events |-> DOMAIN items'])
AdoptWithoutStoring(backlog) ==
    /\ storage' = "idb"
    /\ items' = Extended(backlog \ Queued, Backlog)
    /\ writes' = Tail(writes)
AdoptNothing(backlog) ==
    /\ storage' = "idb"
    /\ items' = items
    /\ writes' = IF Queued = {} THEN Tail(writes)
                 ELSE Append(Tail(writes), [op |-> "put", events |-> Queued])

(* The backlog goes behind what is queued, and the whole queue is stored. *)
Adopt(backlog) ==
    /\ storage' = "idb"
    /\ items' = Extended(backlog \ Queued, Backlog)
    /\ writes' = IF DOMAIN items' = {} THEN Tail(writes)
                 ELSE Append(Tail(writes), [op |-> "put", events |-> DOMAIN items'])

(* Transactions on the store run in the order in which they were issued. *)
RunWrite ==
    /\ writes # <<>>
    /\ \/ /\ Head(writes).op = "all"
          /\ Adopt(disk)
          /\ UNCHANGED disk
       \/ /\ Head(writes).op = "put"
          /\ disk' = disk \union Head(writes).events
          /\ writes' = Tail(writes)
          /\ UNCHANGED <<items, storage>>
       \/ /\ Head(writes).op = "remove"
          /\ disk' = disk \ Head(writes).events
          /\ writes' = Tail(writes)
          /\ UNCHANGED <<items, storage>>
    /\ UNCHANGED <<ring, live, retryTimer, serverVars, historyVars, boundVars>>

WriteFails ==
    /\ writes # <<>>
    /\ storageFaults < MaxStorageFaults
    /\ storageFaults' = storageFaults + 1
    /\ \/ /\ Head(writes).op = "all"
          /\ Adopt({})
       \/ /\ Head(writes).op # "all"
          /\ writes' = Tail(writes)
          /\ UNCHANGED <<items, storage>>
    /\ UNCHANGED <<ring, live, retryTimer, disk, serverVars, historyVars,
                   reloads, networkFaults, consentChanges>>

(* The page dies and is opened again: memory is gone, transactions that     *)
(* have not run are gone, the store, the mode kept in localStorage and the  *)
(* requests that reached the server are not.                                *)
Reload ==
    /\ reloads < MaxReloads
    /\ reloads' = reloads + 1
    /\ ring' = {}
    /\ items' = EmptyQueue /\ storage' = "opening" /\ live' = NoRequest /\ retryTimer' = FALSE
    /\ writes' = <<>>
    /\ late' \in {late, late \union ({live} \ {NoRequest})}
    /\ gone' = gone \union ((ring \union Queued) \ disk)
    /\ UNCHANGED <<disk, consent, rows, recorded, released, thrown,
                   networkFaults, storageFaults, consentChanges>>

----------------------------------------------------------------------------
ServerStep ==
    \/ \E r \in late \union ({live} \ {NoRequest}) : ReadConsent(r)
    \/ \E r \in late : LateIngest(r)
    \/ Answer

Next ==
    \/ (\E m \in Mode : Record(m)) \/ FlushNow
    \/ RetryFires \/ RequestFails
    \/ ServerStep \/ (\E c \in Consent : ConsentChanges(c))
    \/ StorageOpens \/ StorageUnavailable \/ RunWrite \/ WriteFails
    \/ Reload

Spec == Init /\ [][Next]_vars

(* The page's timers fire, the store's transactions run and the server      *)
(* answers what it was sent.  The user need do nothing, and nothing need    *)
(* fail.                                                                    *)
Fairness ==
    /\ WF_vars(FlushNow) /\ WF_vars(RetryFires)
    /\ WF_vars(StorageOpens) /\ WF_vars(RunWrite)
    /\ WF_vars(ServerStep)

FairSpec == Spec /\ Fairness

----------------------------------------------------------------------------
(* Properties.                                                              *)

(* No event vanishes.  An event that was recorded is in the ring buffer, in *)
(* the queue or in the store, or it left by one of the ways the code counts *)
(* or the server confirmed, or it died with the page's memory.              *)
NothingVanishes ==
    DOMAIN recorded \subseteq
        ring \union Queued \union disk \union released \union thrown \union gone

(* The table holds no event twice, however often a batch is sent again:     *)
(* after a lost answer, by a late request, or by the next page from a store *)
(* that still held what had been acknowledged.                              *)
StoredAtMostOnce == \A e \in Event : rows[e] <= 1

(* What the queue forgets because of a 200 is in the server's table, unless *)
(* the event claims more than a structural consent allows.                  *)
ReleasedIsStored ==
    \A e \in released : recorded[e] = "structural" => e \in InTable

(* A batch the client discards and counts as refused is one of which the    *)
(* server stored nothing in that request.                                   *)
DiscardedIsNotStored ==
    [][thrown' # thrown => rows' = rows]_vars

(* An event leaves the store only after the server answered for it: not     *)
(* because of a reload, a failed request or the adoption of the backlog.    *)
StoreKeepsUnanswered ==
    [][disk \ disk' \subseteq released \union thrown]_vars

(* Once the store is adopted, each queued event is in it or about to be, so *)
(* that a crash takes at most what the transactions under way would write.  *)
QueueIsStored ==
    storage = "idb" /\ storageFaults = 0 =>
        \A e \in Queued :
            \/ e \in disk
            \/ \E i \in DOMAIN writes : writes[i].op = "put" /\ e \in writes[i].events

(* Everything that reached the store is answered for in the end, by this    *)
(* page or by a later one: a backlog does not wait for ever.                *)
BacklogIsDelivered ==
    \A e \in Event : e \in disk ~> e \in released \union thrown

(* What a client would say of event e: the best of the answers it had for   *)
(* it, and that it is lost only when no answer can come any more.           *)
FateOf(e) ==
    CASE e \in released -> "acknowledged"
      [] e \in thrown \ released -> "refused"
      [] e \in gone \ (released \union thrown) -> "lost"
      [] e \in DOMAIN recorded \ (released \union thrown \union gone) -> "held"
      [] OTHER -> "unborn"

Log == INSTANCE DeliveryLog WITH
    offered <- recorded, log <- rows, fate <- [e \in Event |-> FateOf(e)]

(* The pipeline delivers at least once into a log that keeps nothing twice, *)
(* and tells the truth about the rest: ring buffer, queue, store, network   *)
(* and handler together implement DeliveryLog.  In particular an event that *)
(* was once given up as lost is never acknowledged or refused later, and an *)
(* acknowledgment is never taken back by a retry or a later page.           *)
Delivers == Log!Spec

(* The queue empties for every event: no event waits for ever behind a      *)
(* failed batch, a backoff or a reload.                                     *)
QueueDrains == \A e \in Event : e \in Queued ~> e \notin Queued
=============================================================================
