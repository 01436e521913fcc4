------------------------ MODULE CapturePipeline_proofs ------------------------
(***************************************************************************)
(* What the capture pipeline promises, for every capacity, batch size and   *)
(* bound: the type invariant, that no event vanishes, is stored twice, or   *)
(* is forgotten by the queue without being in the server's table, that it   *)
(* implements DeliveryLog, and that the queue is in the browser's store.    *)
(***************************************************************************)
EXTENDS CapturePipeline, TLAPS

----------------------------------------------------------------------------
(* Lemmas about the operators the actions are made of.                      *)

(* A request is made of events of the queue. *)
LEMMA RequestOfQueue ==
    ASSUME NEW q, DOMAIN q \in SUBSET Event
    PROVE  /\ RequestFor(q) \in Request
           /\ RequestFor(q).batch \subseteq DOMAIN q
<1>1. FirstBatch(q) \subseteq DOMAIN q
  BY DEF FirstBatch
<1> QED
  BY <1>1 DEF RequestFor, NoRequest, Request

(* The extended queue holds the old events and the new ones. *)
LEMMA ExtendedQueue ==
    ASSUME TypeOK, NEW fresh \in SUBSET Event, NEW part \in Part
    PROVE  /\ DOMAIN Extended(fresh, part) = Queued \union fresh
           /\ \A e \in Queued \union fresh : Extended(fresh, part)[e] \in Part
BY DEF TypeOK, Extended, Queued

(* The transactions that wait. *)
Waiting == {writes[i] : i \in 1..Len(writes)}

(* A transaction is issued at the end of those that wait, or not at all. *)
LEMMA IssueAppends ==
    ASSUME TypeOK, NEW op \in {"all", "put", "remove"}, NEW events \in SUBSET Event,
           writes' = Issue(op, events)
    PROVE  /\ writes' \in Seq(Write)
           /\ Waiting' \subseteq Waiting \union {[op |-> op, events |-> events]}
<1> DEFINE w == [op |-> op, events |-> events]
<1>1. w \in Write
  BY DEF Write
<1>2. writes \in Seq(Write)
  BY DEF TypeOK
<1>3. writes' = writes \/ writes' = Append(writes, w)
  BY DEF Issue
<1> HIDE DEF w
<1>4. writes' \in Seq(Write)
  BY <1>1, <1>2, <1>3
<1>5. ASSUME NEW i \in 1..Len(writes')
      PROVE  writes'[i] \in Waiting \union {w}
  BY <1>1, <1>2, <1>3 DEF Waiting
<1> QED
  BY <1>4, <1>5 DEF Waiting, w

(* What waits when the first transaction is over waited before. *)
LEMMA TailWaits ==
    ASSUME TypeOK, writes # <<>>
    PROVE  /\ Tail(writes) \in Seq(Write)
           /\ Head(writes) \in Write /\ Head(writes) \in Waiting
           /\ \A i \in 1..Len(Tail(writes)) : Tail(writes)[i] \in Waiting
<1>1. writes \in Seq(Write) /\ Len(writes) \in Nat /\ Len(writes) >= 1
  BY DEF TypeOK
<1>2. Head(writes) = writes[1]
  BY <1>1
<1>3. \A i \in 1..Len(Tail(writes)) :
        i + 1 \in 1..Len(writes) /\ Tail(writes)[i] = writes[i + 1]
  BY <1>1
<1> QED
  BY <1>1, <1>2, <1>3 DEF Waiting

(* An insertion adds the events it is given to the table, and none twice. *)
LEMMA InsertAdds ==
    ASSUME TypeOK, NEW S \in SUBSET Event, Insert(S)
    PROVE  /\ rows' \in [Event -> Nat]
           /\ InTable' = InTable \union S
           /\ StoredAtMostOnce => StoredAtMostOnce'
<1> DEFINE fresh == S \ InTable
<1>1. /\ rows \in [Event -> Nat]
      /\ rows' = [e \in Event |-> IF e \in fresh THEN rows[e] + 1 ELSE rows[e]]
  BY DEF TypeOK, Insert
<1>2. \A e \in Event : /\ e \in fresh => rows[e] = 0 /\ rows'[e] = 1
                       /\ e \notin fresh => rows'[e] = rows[e]
  BY <1>1 DEF InTable
<1>3. rows' \in [Event -> Nat]
  BY <1>1
<1>4. InTable' = InTable \union S
  <2> HIDE DEF fresh
  <2>1. \A e \in Event : rows[e] > 0 \/ e \in S => rows'[e] > 0
    BY <1>1, <1>2 DEF fresh, InTable
  <2>2. \A e \in Event : rows'[e] > 0 => rows[e] > 0 \/ e \in S
    BY <1>1, <1>2 DEF fresh
  <2> QED
    BY <2>1, <2>2 DEF InTable
<1>5. StoredAtMostOnce => StoredAtMostOnce'
  BY <1>2 DEF StoredAtMostOnce
<1> QED
  BY <1>3, <1>4, <1>5

----------------------------------------------------------------------------
(* Type correctness.                                                        *)

(* The first page of a browser is well typed. *)
LEMMA TypeInit == Init => TypeOK
<1> SUFFICES ASSUME Init PROVE TypeOK
  OBVIOUS
<1>1. NoRequest \in Request
  BY DEF NoRequest, Request
<1>2. DOMAIN items = {}
  BY DEF Init, EmptyQueue
<1>3. <<>> \in Seq(Write) /\ <<>> \in Seq(Mode) /\ Len(<<>>) = 0
  OBVIOUS
<1>4. rows \in [Event -> Nat]
  BY DEF Init
<1>5. /\ reloads \in 0..MaxReloads /\ networkFaults \in 0..MaxNetworkFaults
      /\ storageFaults \in 0..MaxStorageFaults /\ consentChanges \in 0..MaxConsentChanges
      /\ Len(<<>>) <= MaxEvents
  BY PipelineAssumption DEF Init
<1> QED
  BY <1>1, <1>2, <1>3, <1>4, <1>5 DEF Init, TypeOK

(* The batch of the live request is a set of events. *)
LEMMA LiveIsTyped ==
    ASSUME TypeOK
    PROVE  /\ live \in Request
           /\ live.batch \in SUBSET Event
           /\ Accepted(live) \in SUBSET Event
BY DEF TypeOK, Request, Accepted

(* The adopted backlog is queued, and what waits is what waited and the     *)
(* storing of the whole queue.                                              *)
LEMMA Adoption ==
    ASSUME TypeOK, writes # <<>>, NEW backlog \in SUBSET Event, Adopt(backlog)
    PROVE  /\ storage' = "idb"
           /\ Queued' = Queued \union backlog
           /\ \A e \in Queued' : items'[e] \in Part
           /\ writes' \in Seq(Write)
           /\ Waiting' \subseteq Waiting \union {[op |-> "put", events |-> Queued']}
<1> DEFINE put == [op |-> "put", events |-> Queued']
<1>1. /\ Queued' = Queued \union backlog
      /\ \A e \in Queued' : items'[e] \in Part
  BY ExtendedQueue DEF Adopt, Queued, Part
<1>2. Queued' \in SUBSET Event
  BY <1>1 DEF TypeOK, Queued
<1>3. put \in Write
  BY <1>2 DEF Write
<1>4. writes' = Tail(writes) \/ writes' = Append(Tail(writes), put)
  BY DEF Adopt, Queued
<1> HIDE DEF put
<1>5. writes' \in Seq(Write)
  BY <1>3, <1>4, TailWaits
<1>6. ASSUME NEW i \in 1..Len(writes')
      PROVE  writes'[i] \in Waiting \union {put}
  BY <1>3, <1>4, TailWaits
<1>7. storage' = "idb"
  BY DEF Adopt
<1> QED
  BY <1>1, <1>5, <1>6, <1>7 DEF Waiting, put

(* No step of the page, the store, the network or the server leaves the types. *)
LEMMA TypeStep == TypeOK /\ [Next]_vars => TypeOK'
<1> SUFFICES ASSUME TypeOK, [Next]_vars PROVE TypeOK'
  OBVIOUS
<1> USE PipelineAssumption
<1>1. ASSUME NEW m \in Mode, Record(m) PROVE TypeOK'
  <2>1. NextEvent \in Event
    BY <1>1 DEF Record, TypeOK, NextEvent, Event
  <2>2. Evicted \in SUBSET Event
    BY DEF TypeOK, Evicted
  <2>3. recorded' \in Seq(Mode) /\ Len(recorded') <= MaxEvents
    BY <1>1 DEF Record, TypeOK
  <2> QED
    BY <1>1, <2>1, <2>2, <2>3 DEF Record, TypeOK, queueVars, diskVars, serverVars, boundVars
<1>2. CASE FlushNow
  <2> DEFINE fresh == ring \ Queued
             part == IF storage = "idb" THEN AfterBacklog ELSE BeforeBacklog
  <2>1. fresh \in SUBSET Event /\ part \in Part
    BY DEF TypeOK, Part
  <2>2. items' = Extended(fresh, part)
    BY <1>2 DEF FlushNow, HandOver
  <2> HIDE DEF fresh, part
  <2>3. DOMAIN items' \in SUBSET Event /\ \A e \in DOMAIN items' : items'[e] \in Part
    <3>1. /\ DOMAIN items' = Queued \union fresh
          /\ \A e \in Queued \union fresh : items'[e] \in Part
      BY <2>1, <2>2, ExtendedQueue
    <3> QED
      BY <2>1, <3>1 DEF TypeOK, Queued
  <2>4. live' \in Request
    BY <1>2, <2>3, RequestOfQueue DEF FlushNow, HandOver, Flush, TypeOK
  <2>5. writes' \in Seq(Write)
    BY <1>2, <2>1, IssueAppends DEF FlushNow, HandOver, TypeOK, fresh
  <2> QED
    BY <1>2, <2>3, <2>4, <2>5
    DEF FlushNow, HandOver, TypeOK, serverVars, historyVars, boundVars
<1>3. CASE RetryFires
  <2>1. live' \in Request
    BY <1>3, RequestOfQueue DEF RetryFires, Flush, TypeOK
  <2> QED
    BY <1>3, <2>1 DEF RetryFires, TypeOK, diskVars, serverVars, historyVars, boundVars
<1>4. CASE RequestFails
  <2>1. live' \in Request /\ late' \in SUBSET Request
    BY <1>4 DEF RequestFails, TypeOK, NoRequest, Request
  <2> QED
    BY <1>4, <2>1 DEF RequestFails, TypeOK, diskVars, historyVars
<1>5. ASSUME NEW r \in late \union ({live} \ {NoRequest}), ReadConsent(r) PROVE TypeOK'
  <2>1. [r EXCEPT !.under = consent] \in Request
    BY DEF TypeOK, Request
  <2>2. live' \in Request /\ late' \in SUBSET Request
    BY <1>5, <2>1 DEF ReadConsent, TypeOK
  <2> QED
    BY <1>5, <2>2 DEF ReadConsent, TypeOK, diskVars, historyVars, boundVars
<1>6. ASSUME NEW r \in late, LateIngest(r) PROVE TypeOK'
  <2>1. Accepted(r) \in SUBSET Event
    BY DEF TypeOK, Request, Accepted
  <2>2. rows' \in [Event -> Nat]
    BY <1>6, <2>1, InsertAdds DEF LateIngest
  <2> QED
    BY <1>6, <2>2 DEF LateIngest, TypeOK, queueVars, diskVars, historyVars, boundVars
<1>7. CASE Answer
  <2> DEFINE left == [e \in Queued \ live.batch |-> items[e]]
  <2>1. DOMAIN left \in SUBSET Event /\ \A e \in DOMAIN left : left[e] \in Part
    BY DEF TypeOK, Queued
  <2>2. items' = left /\ live' \in Request
    BY <1>7, <2>1, RequestOfQueue DEF Answer
  <2>3. writes' \in Seq(Write)
    BY <1>7, LiveIsTyped, IssueAppends DEF Answer
  <2>4. rows' \in [Event -> Nat]
    BY <1>7, LiveIsTyped, InsertAdds DEF Answer
  <2>5. released' \in SUBSET Event /\ thrown' \in SUBSET Event
    BY <1>7, LiveIsTyped DEF Answer, TypeOK
  <2> HIDE DEF left
  <2> QED
    BY <1>7, <2>1, <2>2, <2>3, <2>4, <2>5 DEF Answer, TypeOK, boundVars
<1>8. ASSUME NEW c \in Consent, ConsentChanges(c) PROVE TypeOK'
  BY <1>8 DEF ConsentChanges, TypeOK, queueVars, diskVars, historyVars
<1>9. CASE StorageOpens
  <2>1. [op |-> "all", events |-> {}] \in Write
    BY DEF Write
  <2> QED
    BY <1>9, <2>1 DEF StorageOpens, TypeOK, serverVars, historyVars, boundVars
<1>10. CASE StorageUnavailable
  BY <1>10 DEF StorageUnavailable, TypeOK, diskVars, serverVars, historyVars
<1>11. CASE RunWrite
  <2>1. Head(writes) \in Write /\ Tail(writes) \in Seq(Write)
    BY <1>11, TailWaits DEF RunWrite
  <2>2. disk' \in SUBSET Event
    BY <1>11, <2>1 DEF RunWrite, TypeOK, Write
  <2>3. /\ DOMAIN items' \in SUBSET Event /\ \A e \in DOMAIN items' : items'[e] \in Part
        /\ storage' \in {"opening", "reading", "idb", "memory"}
        /\ writes' \in Seq(Write)
    <3>1. CASE Adopt(disk)
      <4>1. writes # <<>> /\ disk \in SUBSET Event
        BY <1>11 DEF RunWrite, TypeOK
      <4>2. /\ Queued' = Queued \union disk /\ \A e \in Queued' : items'[e] \in Part
            /\ storage' = "idb" /\ writes' \in Seq(Write)
        BY <3>1, <4>1, Adoption
      <4> QED
        BY <4>1, <4>2 DEF TypeOK, Queued
    <3>2. CASE ~Adopt(disk)
      BY <1>11, <2>1, <3>2 DEF RunWrite, TypeOK
    <3> QED
      BY <3>1, <3>2
  <2> QED
    BY <1>11, <2>2, <2>3 DEF RunWrite, TypeOK, serverVars, historyVars, boundVars
<1>12. CASE WriteFails
  <2>1. Tail(writes) \in Seq(Write)
    BY <1>12, TailWaits DEF WriteFails
  <2>2. /\ DOMAIN items' \in SUBSET Event /\ \A e \in DOMAIN items' : items'[e] \in Part
        /\ storage' \in {"opening", "reading", "idb", "memory"}
        /\ writes' \in Seq(Write)
    <3>1. CASE Adopt({})
      <4>1. writes # <<>> /\ {} \in SUBSET Event
        BY <1>12 DEF WriteFails, TypeOK
      <4>2. /\ Queued' = Queued \union {} /\ \A e \in Queued' : items'[e] \in Part
            /\ storage' = "idb" /\ writes' \in Seq(Write)
        BY <3>1, <4>1, Adoption
      <4> QED
        BY <4>1, <4>2 DEF TypeOK, Queued
    <3>2. CASE ~Adopt({})
      BY <1>12, <2>1, <3>2 DEF WriteFails, TypeOK
    <3> QED
      BY <3>1, <3>2
  <2> QED
    BY <1>12, <2>2 DEF WriteFails, TypeOK, serverVars, historyVars
<1>13. CASE Reload
  <2>1. NoRequest \in Request /\ late' \in SUBSET Request
    BY <1>13 DEF Reload, TypeOK, NoRequest, Request
  <2>2. DOMAIN items' = {}
    BY <1>13 DEF Reload, EmptyQueue
  <2>3. gone' \in SUBSET Event
    BY <1>13 DEF Reload, TypeOK, Queued
  <2>4. <<>> \in Seq(Write)
    OBVIOUS
  <2>5. reloads' \in 0..MaxReloads
    BY <1>13 DEF Reload, TypeOK
  <2> QED
    BY <1>13, <2>1, <2>2, <2>3, <2>4, <2>5 DEF Reload, TypeOK
<1>14. CASE UNCHANGED vars
  BY <1>14 DEF vars, TypeOK, queueVars, diskVars, serverVars, historyVars, boundVars
<1> QED
  BY <1>1, <1>2, <1>3, <1>4, <1>5, <1>6, <1>7, <1>8, <1>9, <1>10, <1>11, <1>12, <1>13, <1>14
  DEF Next, ServerStep

(* The type invariant holds for every value of the constants. *)
THEOREM TypeCorrect == Spec => []TypeOK
BY TypeInit, TypeStep, PTL DEF Spec

----------------------------------------------------------------------------
(* No event is stored twice.                                                *)

(* The two inserting steps skip what the table has, and no other touches it. *)
LEMMA StoredStep ==
    TypeOK /\ StoredAtMostOnce /\ [Next]_vars => StoredAtMostOnce'
<1> SUFFICES ASSUME TypeOK, StoredAtMostOnce, [Next]_vars PROVE StoredAtMostOnce'
  OBVIOUS
<1>1. ASSUME NEW r \in late, LateIngest(r) PROVE StoredAtMostOnce'
  <2>1. Accepted(r) \in SUBSET Event
    BY DEF TypeOK, Request, Accepted
  <2> QED
    BY <1>1, <2>1, InsertAdds DEF LateIngest
<1>2. CASE Answer
  BY <1>2, LiveIsTyped, InsertAdds DEF Answer
<1>3. CASE UNCHANGED rows
  BY <1>3 DEF StoredAtMostOnce
<1> QED
  BY <1>1, <1>2, <1>3
  DEF Next, ServerStep, vars, serverVars, Record, FlushNow, HandOver, RetryFires, RequestFails,
      ReadConsent, ConsentChanges, StorageOpens, StorageUnavailable, RunWrite, WriteFails, Reload

(* The table holds no event twice, whatever is sent again, by whom and when. *)
THEOREM AtMostOnce == Spec => []StoredAtMostOnce
<1>1. Init => StoredAtMostOnce
  BY DEF Init, StoredAtMostOnce
<1> QED
  BY <1>1, StoredStep, TypeCorrect, PTL DEF Spec

----------------------------------------------------------------------------
(* A batch that is discarded is not stored.                                 *)

(* Insertion of nothing leaves the table as it is. *)
LEMMA InsertNothing == ASSUME TypeOK, Insert({}) PROVE rows' = rows
<1>1. rows' = [e \in Event |-> rows[e]]
  BY DEF Insert
<1> QED
  BY <1>1 DEF TypeOK

(* A request answered by 403 is refused as a whole. *)
LEMMA ForbiddenAcceptsNothing ==
    ASSUME NEW r, Forbidden(r) PROVE Accepted(r) = {}
BY DEF Forbidden, Accepted, Barred

(* Only an answer discards, and one that does is a 403, which stores nothing. *)
LEMMA DiscardStep == TypeOK /\ [Next]_vars => (thrown' # thrown => rows' = rows)
<1> SUFFICES ASSUME TypeOK, [Next]_vars, thrown' # thrown PROVE rows' = rows
  OBVIOUS
<1>1. CASE Answer
  <2>1. Forbidden(live)
    BY <1>1 DEF Answer
  <2>2. Insert({})
    BY <1>1, <2>1, ForbiddenAcceptsNothing DEF Answer
  <2> QED
    BY <2>2, InsertNothing
<1> QED
  BY <1>1
  DEF Next, ServerStep, vars, historyVars, Record, FlushNow, RetryFires, RequestFails, ReadConsent,
      LateIngest, ConsentChanges, StorageOpens, StorageUnavailable, RunWrite, WriteFails, Reload

(* Nothing of a batch the client counts as refused was stored by the request *)
(* that refused it: a 403 never covers an event the server took.            *)
THEOREM RefusedMeansNotStored == Spec => DiscardedIsNotStored
<1>1. TypeOK /\ [Next]_vars => [thrown' # thrown => rows' = rows]_vars
  BY DiscardStep
<1> QED
  BY <1>1, TypeCorrect, PTL DEF Spec, DiscardedIsNotStored

----------------------------------------------------------------------------
(* The strengthening: where an event is, it was recorded; and what is about *)
(* to be removed from the store is answered for.                            *)

KnownEvents ==
    /\ ring \subseteq DOMAIN recorded /\ Queued \subseteq DOMAIN recorded
    /\ disk \subseteq DOMAIN recorded /\ released \subseteq DOMAIN recorded
    /\ live.batch \subseteq DOMAIN recorded
    /\ \A w \in Waiting : w.events \subseteq DOMAIN recorded

RemovesAnswered ==
    \A w \in Waiting : w.op = "remove" => w.events \subseteq released \union thrown

(* At first there is no event and no transaction. *)
LEMMA StrengtheningInit == Init => KnownEvents /\ RemovesAnswered
<1> SUFFICES ASSUME Init PROVE KnownEvents /\ RemovesAnswered
  OBVIOUS
<1>1. Waiting = {} /\ Queued = {} /\ NoRequest.batch = {}
  BY DEF Init, Waiting, Queued, EmptyQueue, NoRequest
<1> QED
  BY <1>1 DEF Init, KnownEvents, RemovesAnswered

(* What is recorded stays, and a new event has the next number. *)
LEMMA RecordGrows ==
    ASSUME TypeOK, NEW m \in Mode, Record(m)
    PROVE  /\ DOMAIN recorded' = DOMAIN recorded \union {NextEvent}
           /\ \A e \in DOMAIN recorded : recorded'[e] = recorded[e]
BY DEF TypeOK, Record, NextEvent

(* Events come into being by Record only, and are passed on after that. *)
LEMMA KnownStep == TypeOK /\ KnownEvents /\ [Next]_vars => KnownEvents'
<1> SUFFICES ASSUME TypeOK, KnownEvents, [Next]_vars PROVE KnownEvents'
  OBVIOUS
<1>1. ASSUME NEW m \in Mode, Record(m) PROVE KnownEvents'
  <2>1. Waiting' = Waiting /\ Queued' = Queued
    BY <1>1 DEF Record, Waiting, Queued, queueVars, diskVars
  <2>2. ring' \subseteq ring \union {NextEvent}
    BY <1>1 DEF Record
  <2> QED
    BY <1>1, <2>1, <2>2, RecordGrows DEF Record, KnownEvents, queueVars, diskVars
<1>2. CASE FlushNow
  <2> DEFINE fresh == ring \ Queued
             part == IF storage = "idb" THEN AfterBacklog ELSE BeforeBacklog
  <2>1. fresh \in SUBSET Event /\ part \in Part
    BY DEF TypeOK, Part
  <2>2. items' = Extended(fresh, part)
    BY <1>2 DEF FlushNow, HandOver
  <2>3. writes' = writes \/ writes' = Issue("put", fresh)
    BY <1>2 DEF FlushNow, HandOver
  <2>4. live' = live \/ live' = RequestFor(items')
    BY <1>2 DEF FlushNow, HandOver, Flush
  <2> HIDE DEF fresh, part
  <2>5. Queued' = Queued \union fresh
    BY <2>1, <2>2, ExtendedQueue DEF Queued
  <2>6. Waiting' \subseteq Waiting \union {[op |-> "put", events |-> fresh]}
    BY <2>1, <2>3, IssueAppends DEF Waiting
  <2>7. live'.batch \subseteq live.batch \union Queued'
    BY <2>1, <2>4, <2>5, RequestOfQueue DEF Queued, TypeOK
  <2>8. fresh \subseteq ring /\ ring' = {} /\ UNCHANGED <<disk, recorded, released>>
    BY <1>2 DEF FlushNow, HandOver, historyVars, fresh
  <2> QED
    BY <2>5, <2>6, <2>7, <2>8 DEF KnownEvents
<1>3. CASE RetryFires
  <2>1. live'.batch \subseteq live.batch \union Queued
    BY <1>3, RequestOfQueue DEF RetryFires, Flush, TypeOK, Queued
  <2> QED
    BY <1>3, <2>1 DEF RetryFires, KnownEvents, Waiting, Queued, diskVars, historyVars
<1>4. CASE RequestFails
  BY <1>4 DEF RequestFails, KnownEvents, Waiting, Queued, NoRequest, diskVars, historyVars
<1>5. ASSUME NEW r \in late \union ({live} \ {NoRequest}), ReadConsent(r) PROVE KnownEvents'
  <2>1. live'.batch = live.batch
    BY <1>5 DEF ReadConsent, TypeOK, Request
  <2> QED
    BY <1>5, <2>1 DEF ReadConsent, KnownEvents, Waiting, Queued, diskVars, historyVars
<1>6. ASSUME NEW r \in late, LateIngest(r) PROVE KnownEvents'
  BY <1>6 DEF LateIngest, KnownEvents, Waiting, Queued, queueVars, diskVars, historyVars
<1>7. CASE Answer
  <2> DEFINE left == [e \in Queued \ live.batch |-> items[e]]
  <2>1. /\ items' = left /\ live' = RequestFor(left)
        /\ writes' = Issue("remove", live.batch)
        /\ released' \subseteq released \union live.batch
        /\ UNCHANGED <<ring, disk, recorded>>
    BY <1>7 DEF Answer
  <2>2. Queued' = Queued \ live.batch
    BY <2>1 DEF Queued
  <2>3. live'.batch \subseteq Queued'
    BY <2>1, <2>2, RequestOfQueue DEF Queued, TypeOK
  <2>4. Waiting' \subseteq Waiting \union {[op |-> "remove", events |-> live.batch]}
    BY <2>1, LiveIsTyped, IssueAppends
  <2>5. \A w \in Waiting' : w.events \subseteq DOMAIN recorded
    BY <2>4 DEF KnownEvents
  <2>6. UNCHANGED recorded /\ ring' = ring /\ disk' = disk
    BY <2>1
  <2>7. released' \subseteq DOMAIN recorded
    BY <2>1 DEF KnownEvents
  <2> HIDE DEF left
  <2> QED
    BY <2>2, <2>3, <2>5, <2>6, <2>7 DEF KnownEvents
<1>8. ASSUME NEW c \in Consent, ConsentChanges(c) PROVE KnownEvents'
  BY <1>8 DEF ConsentChanges, KnownEvents, Waiting, Queued, queueVars, diskVars, historyVars
<1>9. CASE StorageOpens
  <2>1. \A i \in 1..Len(writes') :
            writes'[i] \in Waiting \union {[op |-> "all", events |-> {}]}
    BY <1>9 DEF StorageOpens, TypeOK, Waiting
  <2>2. Waiting' \subseteq Waiting \union {[op |-> "all", events |-> {}]}
    BY <2>1 DEF Waiting
  <2> QED
    BY <1>9, <2>2 DEF StorageOpens, KnownEvents, Queued, historyVars
<1>10. CASE StorageUnavailable
  BY <1>10 DEF StorageUnavailable, KnownEvents, Waiting, Queued, diskVars, historyVars
<1>11. CASE RunWrite
  <2>1. Head(writes) \in Waiting /\ \A i \in 1..Len(Tail(writes)) : Tail(writes)[i] \in Waiting
    BY <1>11, TailWaits DEF RunWrite
  <2>2. UNCHANGED <<ring, live, recorded, released>>
    BY <1>11 DEF RunWrite, historyVars
  <2>3. CASE Adopt(disk) /\ UNCHANGED disk
    <3>1. writes # <<>> /\ disk \in SUBSET Event
      BY <1>11 DEF RunWrite, TypeOK
    <3>2. /\ Queued' = Queued \union disk
          /\ Waiting' \subseteq Waiting \union {[op |-> "put", events |-> Queued']}
      BY <2>3, <3>1, Adoption
    <3> QED
      BY <2>2, <2>3, <3>2 DEF KnownEvents
  <2>4. CASE /\ writes' = Tail(writes) /\ UNCHANGED items
             /\ disk' \subseteq disk \union Head(writes).events
    <3>1. Waiting' \subseteq Waiting /\ Queued' = Queued
      BY <2>1, <2>4 DEF Waiting, Queued
    <3>2. Head(writes).events \subseteq DOMAIN recorded
      BY <2>1 DEF KnownEvents
    <3> QED
      BY <2>2, <2>4, <3>1, <3>2 DEF KnownEvents
  <2> QED
    BY <1>11, <2>3, <2>4 DEF RunWrite
<1>12. CASE WriteFails
  <2>1. \A i \in 1..Len(Tail(writes)) : Tail(writes)[i] \in Waiting
    BY <1>12, TailWaits DEF WriteFails
  <2>2. UNCHANGED <<ring, live, disk, recorded, released>>
    BY <1>12 DEF WriteFails, historyVars
  <2>3. CASE Adopt({})
    <3>1. writes # <<>> /\ {} \in SUBSET Event
      BY <1>12 DEF WriteFails
    <3>2. /\ Queued' = Queued \union {}
          /\ Waiting' \subseteq Waiting \union {[op |-> "put", events |-> Queued']}
      BY <2>3, <3>1, Adoption
    <3> QED
      BY <2>2, <3>2 DEF KnownEvents
  <2>4. CASE writes' = Tail(writes) /\ UNCHANGED items
    BY <2>1, <2>2, <2>4 DEF KnownEvents, Waiting, Queued
  <2> QED
    BY <1>12, <2>3, <2>4 DEF WriteFails
<1>13. CASE Reload
  <2>1. Waiting' = {} /\ Queued' = {} /\ live'.batch = {} /\ ring' = {}
    BY <1>13 DEF Reload, Waiting, Queued, EmptyQueue, NoRequest
  <2>2. UNCHANGED <<disk, recorded, released>>
    BY <1>13 DEF Reload
  <2> QED
    BY <2>1, <2>2 DEF KnownEvents
<1>14. CASE UNCHANGED vars
  BY <1>14 DEF vars, KnownEvents, Waiting, Queued, queueVars, diskVars, historyVars
<1> QED
  BY <1>1, <1>2, <1>3, <1>4, <1>5, <1>6, <1>7, <1>8, <1>9, <1>10, <1>11, <1>12, <1>13, <1>14
  DEF Next, ServerStep

(* A removal is issued only for a batch whose answer has arrived. *)
LEMMA RemovesStep == TypeOK /\ RemovesAnswered /\ [Next]_vars => RemovesAnswered'
<1> SUFFICES ASSUME TypeOK, RemovesAnswered, [Next]_vars PROVE RemovesAnswered'
  OBVIOUS
(* A step that lets nothing wait for removal, and forgets no answer. *)
<1> DEFINE Harmless ==
        /\ \A w \in Waiting' : w.op = "remove" => w \in Waiting
        /\ released \subseteq released' /\ thrown \subseteq thrown'
<1>0. Harmless => RemovesAnswered'
  BY DEF RemovesAnswered
<1>1. ASSUME NEW m \in Mode, Record(m) PROVE RemovesAnswered'
  BY <1>1, <1>0 DEF Record, Waiting, diskVars
<1>2. CASE FlushNow
  <2>1. writes' = writes \/ writes' = Issue("put", ring \ Queued)
    BY <1>2 DEF FlushNow, HandOver
  <2>2. ring \ Queued \in SUBSET Event
    BY DEF TypeOK
  <2>3. Waiting' \subseteq Waiting \union {[op |-> "put", events |-> ring \ Queued]}
    BY <2>1, <2>2, IssueAppends DEF Waiting
  <2> QED
    BY <1>0, <1>2, <2>3 DEF FlushNow, historyVars
<1>3. CASE RetryFires \/ RequestFails
  BY <1>3, <1>0 DEF RetryFires, RequestFails, Waiting, diskVars, historyVars
<1>4. ASSUME NEW r \in late \union ({live} \ {NoRequest}), ReadConsent(r) PROVE RemovesAnswered'
  BY <1>4, <1>0 DEF ReadConsent, Waiting, diskVars, historyVars
<1>5. ASSUME NEW r \in late, LateIngest(r) PROVE RemovesAnswered'
  BY <1>5, <1>0 DEF LateIngest, Waiting, diskVars, historyVars
<1>6. CASE Answer
  <2>1. Waiting' \subseteq Waiting \union {[op |-> "remove", events |-> live.batch]}
    BY <1>6, LiveIsTyped, IssueAppends DEF Answer
  <2>2. /\ released \subseteq released' /\ thrown \subseteq thrown'
        /\ live.batch \subseteq released' \union thrown'
    BY <1>6 DEF Answer
  <2> QED
    BY <2>1, <2>2 DEF RemovesAnswered
<1>7. ASSUME NEW c \in Consent, ConsentChanges(c) PROVE RemovesAnswered'
  BY <1>7, <1>0 DEF ConsentChanges, Waiting, diskVars, historyVars
<1>8. CASE StorageOpens
  <2>1. \A i \in 1..Len(writes') :
            writes'[i] \in Waiting \union {[op |-> "all", events |-> {}]}
    BY <1>8 DEF StorageOpens, TypeOK, Waiting
  <2>2. Waiting' \subseteq Waiting \union {[op |-> "all", events |-> {}]}
    BY <2>1 DEF Waiting
  <2> QED
    BY <1>0, <1>8, <2>2 DEF StorageOpens, historyVars
<1>9. CASE StorageUnavailable
  BY <1>9, <1>0 DEF StorageUnavailable, Waiting, diskVars, historyVars
<1>10. CASE RunWrite \/ WriteFails
  <2>1. writes # <<>> /\ UNCHANGED <<released, thrown>>
    BY <1>10 DEF RunWrite, WriteFails, historyVars
  <2>2. ASSUME NEW backlog \in SUBSET Event, Adopt(backlog) PROVE RemovesAnswered'
    <3>1. Waiting' \subseteq Waiting \union {[op |-> "put", events |-> Queued']}
      BY <2>1, <2>2, Adoption
    <3> QED
      BY <1>0, <2>1, <3>1
  <2>3. CASE writes' = Tail(writes)
    <3>1. Waiting' \subseteq Waiting
      BY <2>1, <2>3, TailWaits DEF Waiting
    <3> QED
      BY <1>0, <2>1, <3>1
  <2>4. disk \in SUBSET Event
    BY DEF TypeOK
  <2> QED
    BY <1>10, <2>2, <2>3, <2>4 DEF RunWrite, WriteFails
<1>11. CASE Reload
  <2>1. Waiting' = {}
    BY <1>11 DEF Reload, Waiting
  <2> QED
    BY <1>0, <1>11, <2>1 DEF Reload
<1>12. CASE UNCHANGED vars
  BY <1>12, <1>0 DEF vars, Waiting, diskVars, historyVars
<1> QED
  BY <1>1, <1>2, <1>3, <1>4, <1>5, <1>6, <1>7, <1>8, <1>9, <1>10, <1>11, <1>12
  DEF Next, ServerStep

(* The invariant the remaining proofs rest on. *)
LEMMA Strengthening == Spec => [](TypeOK /\ KnownEvents /\ RemovesAnswered)
BY TypeInit, TypeStep, StrengtheningInit, KnownStep, RemovesStep, PTL DEF Spec

----------------------------------------------------------------------------
(* The store keeps what has not been answered for.                          *)

(* Only a removal takes events out of the store, and it was answered for. *)
LEMMA StoreStep ==
    TypeOK /\ RemovesAnswered /\ [Next]_vars => disk \ disk' \subseteq released \union thrown
<1> SUFFICES ASSUME TypeOK, RemovesAnswered, [Next]_vars
             PROVE  disk \ disk' \subseteq released \union thrown
  OBVIOUS
<1>1. CASE RunWrite
  <2>1. Head(writes) \in Waiting
    BY <1>1, TailWaits DEF RunWrite
  <2> QED
    BY <1>1, <2>1 DEF RunWrite, RemovesAnswered
<1>2. CASE UNCHANGED disk
  BY <1>2
<1> QED
  BY <1>1, <1>2
  DEF Next, ServerStep, vars, diskVars, Record, FlushNow, HandOver, RetryFires, RequestFails,
      ReadConsent, LateIngest, Answer, ConsentChanges, StorageOpens, StorageUnavailable,
      WriteFails, Reload

(* An event leaves the browser's store only after the server answered for   *)
(* it, by whichever page it was sent.                                       *)
THEOREM StoreKeeps == Spec => StoreKeepsUnanswered
<1>1. TypeOK /\ KnownEvents /\ RemovesAnswered /\ [Next]_vars
        => [disk \ disk' \subseteq released \union thrown]_vars
  BY StoreStep
<1> QED
  BY <1>1, Strengthening, PTL DEF Spec, StoreKeepsUnanswered

----------------------------------------------------------------------------
(* No event vanishes.                                                       *)

(* Each step that takes an event out of one place puts it in another. *)
LEMMA NothingVanishesStep ==
    TypeOK /\ RemovesAnswered /\ NothingVanishes /\ [Next]_vars => NothingVanishes'
<1> SUFFICES ASSUME TypeOK, RemovesAnswered, NothingVanishes, [Next]_vars
             PROVE  NothingVanishes'
  OBVIOUS
<1>1. ASSUME NEW m \in Mode, Record(m) PROVE NothingVanishes'
  <2>1. Queued' = Queued
    BY <1>1 DEF Record, Queued, queueVars
  <2> QED
    BY <1>1, <2>1, RecordGrows DEF Record, NothingVanishes, diskVars
<1>2. CASE FlushNow
  <2> DEFINE fresh == ring \ Queued
             part == IF storage = "idb" THEN AfterBacklog ELSE BeforeBacklog
  <2>1. fresh \in SUBSET Event /\ part \in Part
    BY DEF TypeOK, Part
  <2>2. items' = Extended(fresh, part)
    BY <1>2 DEF FlushNow, HandOver
  <2> HIDE DEF part
  <2>3. Queued' = Queued \union ring
    BY <2>1, <2>2, ExtendedQueue DEF Queued
  <2> QED
    BY <1>2, <2>3 DEF FlushNow, HandOver, NothingVanishes, historyVars
<1>3. CASE RetryFires \/ RequestFails
  BY <1>3 DEF RetryFires, RequestFails, NothingVanishes, Queued, diskVars, historyVars
<1>4. ASSUME NEW r \in late \union ({live} \ {NoRequest}), ReadConsent(r) PROVE NothingVanishes'
  BY <1>4 DEF ReadConsent, NothingVanishes, Queued, diskVars, historyVars
<1>5. ASSUME NEW r \in late, LateIngest(r) PROVE NothingVanishes'
  BY <1>5 DEF LateIngest, NothingVanishes, Queued, queueVars, diskVars, historyVars
<1>6. CASE Answer
  <2>1. Queued' = Queued \ live.batch
    BY <1>6 DEF Answer, Queued
  <2>2. /\ released \union thrown \union live.batch \subseteq released' \union thrown'
        /\ UNCHANGED <<ring, disk, recorded, gone>>
    BY <1>6 DEF Answer
  <2> QED
    BY <2>1, <2>2 DEF NothingVanishes
<1>7. ASSUME NEW c \in Consent, ConsentChanges(c) PROVE NothingVanishes'
  BY <1>7 DEF ConsentChanges, NothingVanishes, Queued, queueVars, diskVars, historyVars
<1>8. CASE StorageOpens \/ StorageUnavailable
  BY <1>8 DEF StorageOpens, StorageUnavailable, NothingVanishes, Queued, diskVars, historyVars
<1>9. CASE RunWrite \/ WriteFails
  <2>1. writes # <<>> /\ UNCHANGED <<ring, recorded, released, thrown, gone>>
    BY <1>9 DEF RunWrite, WriteFails, historyVars
  <2>2. disk \ disk' \subseteq released \union thrown
    BY StoreStep
  <2>3. Queued \subseteq Queued'
    <3>1. ASSUME NEW backlog \in SUBSET Event, Adopt(backlog) PROVE Queued \subseteq Queued'
      BY <2>1, <3>1, Adoption
    <3>2. disk \in SUBSET Event
      BY DEF TypeOK
    <3> QED
      BY <1>9, <3>1, <3>2 DEF RunWrite, WriteFails, Queued
  <2> QED
    BY <2>1, <2>2, <2>3 DEF NothingVanishes
<1>10. CASE Reload
  BY <1>10 DEF Reload, NothingVanishes
<1>11. CASE UNCHANGED vars
  BY <1>11 DEF vars, NothingVanishes, Queued, queueVars, diskVars, historyVars
<1> QED
  BY <1>1, <1>2, <1>3, <1>4, <1>5, <1>6, <1>7, <1>8, <1>9, <1>10, <1>11
  DEF Next, ServerStep

(* Whatever crashes, fails or is lost, each recorded event is somewhere, or *)
(* left in one of the ways the code accounts for.                           *)
THEOREM NothingIsLostSilently == Spec => []NothingVanishes
<1>1. Init => NothingVanishes
  BY DEF Init, NothingVanishes
<1> QED
  BY <1>1, NothingVanishesStep, Strengthening, PTL DEF Spec

----------------------------------------------------------------------------
(* What the queue forgets is stored.                                        *)

(* A request that is not answered by 403 is accepted but for the events     *)
(* that claim too much.                                                     *)
LEMMA NotForbiddenIsAccepted ==
    ASSUME NEW r, ~Forbidden(r), NEW e \in r.batch, recorded[e] # "full"
    PROVE  e \in Accepted(r)
BY DEF Forbidden, Accepted, Barred, TooWide

(* What an answer releases was inserted by it, and rows are never deleted. *)
LEMMA ReleasedStep ==
    TypeOK /\ KnownEvents /\ ReleasedIsStored /\ [Next]_vars => ReleasedIsStored'
<1> SUFFICES ASSUME TypeOK, KnownEvents, ReleasedIsStored, [Next]_vars
             PROVE  ReleasedIsStored'
  OBVIOUS
<1>1. ASSUME NEW m \in Mode, Record(m) PROVE ReleasedIsStored'
  <2>1. InTable' = InTable /\ released' = released
    BY <1>1 DEF Record, InTable, serverVars
  <2> QED
    BY <1>1, <2>1, RecordGrows DEF ReleasedIsStored, KnownEvents
<1>2. ASSUME NEW r \in late, LateIngest(r) PROVE ReleasedIsStored'
  <2>1. PICK S \in SUBSET Accepted(r) : Insert(S)
    BY <1>2 DEF LateIngest
  <2>2. S \in SUBSET Event
    BY DEF TypeOK, Request, Accepted
  <2>3. InTable' = InTable \union S
    BY <2>1, <2>2, InsertAdds
  <2> QED
    BY <1>2, <2>3 DEF LateIngest, ReleasedIsStored, historyVars
<1>3. CASE Answer
  <2>1. InTable' = InTable \union Accepted(live)
    BY <1>3, LiveIsTyped, InsertAdds DEF Answer
  <2>2. UNCHANGED recorded
    BY <1>3 DEF Answer
  <2>3. CASE Forbidden(live)
    <3>1. released' = released
      BY <1>3, <2>3 DEF Answer
    <3> QED
      BY <2>1, <2>2, <3>1 DEF ReleasedIsStored
  <2>4. CASE ~Forbidden(live)
    <3>1. released' = released \union live.batch
      BY <1>3, <2>4 DEF Answer
    <3>2. \A e \in live.batch : recorded[e] = "structural" => e \in Accepted(live)
      BY <2>4, NotForbiddenIsAccepted
    <3> QED
      BY <2>1, <2>2, <3>1, <3>2 DEF ReleasedIsStored
  <2> QED
    BY <2>3, <2>4
<1>4. CASE UNCHANGED <<rows, recorded, released>>
  BY <1>4 DEF ReleasedIsStored, InTable
<1> QED
  BY <1>1, <1>2, <1>3, <1>4
  DEF Next, ServerStep, vars, serverVars, historyVars, FlushNow, RetryFires, RequestFails,
      ReadConsent, ConsentChanges, StorageOpens, StorageUnavailable, RunWrite, WriteFails, Reload

(* An event the queue forgot because of a 200 is in the server's table,     *)
(* unless it claims more than its actor's consent allows.                   *)
THEOREM ReleasedMeansStored == Spec => []ReleasedIsStored
<1>1. Init => ReleasedIsStored
  BY DEF Init, ReleasedIsStored
<1> QED
  BY <1>1, ReleasedStep, Strengthening, PTL DEF Spec

----------------------------------------------------------------------------
(* An event is at one place of memory at a time, and what was given up as   *)
(* lost is nowhere from where it could still be sent.                       *)

(* What transactions are about to store, and what may be sent some time. *)
Puts == UNION {w.events : w \in {x \in Waiting : x.op = "put"}}
Owed == Queued \union disk \union Puts

Apart ==
    /\ thrown \subseteq DOMAIN recorded /\ gone \subseteq DOMAIN recorded
    /\ live.batch \subseteq Queued
    /\ ring \intersect (Owed \union gone) = {}
    /\ gone \intersect Owed = {}

(* A request nobody waits for holds recorded events too. *)
LateKnown == \A r \in late : r.batch \subseteq DOMAIN recorded

Settled == TypeOK /\ KnownEvents /\ Apart /\ LateKnown

(* At first there is nothing anywhere. *)
LEMMA ApartInit == Init => Apart
<1> SUFFICES ASSUME Init PROVE Apart
  OBVIOUS
<1>1. Waiting = {} /\ Queued = {} /\ NoRequest.batch = {}
  BY DEF Init, Waiting, Queued, EmptyQueue, NoRequest
<1>2. Puts = {}
  BY <1>1 DEF Puts
<1> QED
  BY <1>1, <1>2 DEF Init, Apart, Owed

(* What waits to be stored grows by the put that is issued. *)
LEMMA PutsGrow ==
    ASSUME NEW events, Waiting' \subseteq Waiting \union {[op |-> "put", events |-> events]}
    PROVE  Puts' \subseteq Puts \union events
BY DEF Puts

(* No other transaction adds to it. *)
LEMMA PutsStay ==
    ASSUME NEW op \in {"all", "remove"}, NEW events,
           Waiting' \subseteq Waiting \union {[op |-> op, events |-> events]}
    PROVE  Puts' \subseteq Puts
BY DEF Puts

(* A step that keeps the events where they are, or moves them on within the *)
(* queue and the store, keeps them apart.                                   *)
LEMMA ApartMoves ==
    ASSUME Apart, UNCHANGED <<ring, recorded, thrown, gone>>,
           live'.batch \subseteq Queued', Owed' \subseteq Owed
    PROVE  Apart'
BY DEF Apart

(* No step brings an event to two places. *)
LEMMA ApartStep == Settled /\ [Next]_vars => Apart'
<1> SUFFICES ASSUME Settled, [Next]_vars PROVE Apart'
  OBVIOUS
<1> USE DEF Settled
<1>1. ASSUME NEW m \in Mode, Record(m) PROVE Apart'
  <2>1. /\ Waiting' = Waiting /\ Queued' = Queued /\ disk' = disk /\ live' = live
        /\ ring' = (ring \ Evicted) \union {NextEvent} /\ gone' = gone \union Evicted
        /\ thrown' = thrown
    BY <1>1 DEF Record, Waiting, Queued, queueVars, diskVars
  <2>2. Owed' = Owed /\ Evicted \subseteq ring
    BY <2>1 DEF Owed, Puts, Evicted
  <2>3. NextEvent \notin DOMAIN recorded
    BY DEF TypeOK, NextEvent
  <2>4. Owed \subseteq DOMAIN recorded
    BY DEF Owed, Puts, KnownEvents
  <2>5. DOMAIN recorded \subseteq DOMAIN recorded'
    BY <1>1, RecordGrows
  <2> QED
    BY <2>1, <2>2, <2>3, <2>4, <2>5 DEF Apart, KnownEvents
<1>2. CASE FlushNow
  <2> DEFINE fresh == ring \ Queued
             part == IF storage = "idb" THEN AfterBacklog ELSE BeforeBacklog
  <2>1. fresh \in SUBSET Event /\ part \in Part
    BY DEF TypeOK, Part
  <2>2. items' = Extended(fresh, part)
    BY <1>2 DEF FlushNow, HandOver
  <2>3. writes' = writes \/ writes' = Issue("put", fresh)
    BY <1>2 DEF FlushNow, HandOver
  <2>4. live' = live \/ live' = RequestFor(items')
    BY <1>2 DEF FlushNow, HandOver, Flush
  <2> HIDE DEF fresh, part
  <2>5. Queued' = Queued \union fresh
    BY <2>1, <2>2, ExtendedQueue DEF Queued
  <2>6. Waiting' \subseteq Waiting \union {[op |-> "put", events |-> fresh]}
    BY <2>1, <2>3, IssueAppends DEF Waiting
  <2>7. Queued' \in SUBSET Event
    BY <2>1, <2>5 DEF TypeOK, Queued
  <2>8. live'.batch \subseteq Queued'
    BY <2>4, <2>5, <2>7, RequestOfQueue DEF Queued, Apart
  <2>9. fresh \subseteq ring /\ ring' = {} /\ UNCHANGED <<disk, recorded, thrown, gone>>
    BY <1>2 DEF FlushNow, HandOver, historyVars, fresh
  <2>10. Owed' \subseteq Owed \union ring
    BY <2>5, <2>6, <2>9, PutsGrow DEF Owed
  <2> QED
    BY <2>8, <2>9, <2>10 DEF Apart
<1>3. CASE RetryFires
  <2>1. /\ Queued' = Queued /\ disk' = disk /\ Waiting' = Waiting
        /\ UNCHANGED <<ring, recorded, thrown, gone>>
    BY <1>3 DEF RetryFires, Queued, Waiting, diskVars, historyVars
  <2>2. live'.batch \subseteq Queued'
    BY <1>3, <2>1, RequestOfQueue DEF RetryFires, Flush, TypeOK, Queued, Apart
  <2> QED
    BY <2>1, <2>2, ApartMoves DEF Owed, Puts
<1>4. CASE RequestFails
  BY <1>4 DEF RequestFails, Apart, Owed, Puts, Waiting, Queued, NoRequest, diskVars, historyVars
<1>5. ASSUME NEW r \in late \union ({live} \ {NoRequest}), ReadConsent(r) PROVE Apart'
  <2>1. live'.batch = live.batch
    BY <1>5 DEF ReadConsent, TypeOK, Request
  <2> QED
    BY <1>5, <2>1 DEF ReadConsent, Apart, Owed, Puts, Waiting, Queued, diskVars, historyVars
<1>6. CASE \/ \E r \in late : LateIngest(r)
           \/ \E c \in Consent : ConsentChanges(c)
           \/ StorageUnavailable
           \/ UNCHANGED vars
  BY <1>6
  DEF LateIngest, ConsentChanges, StorageUnavailable, vars, Apart, Owed, Puts, Waiting, Queued,
      queueVars, diskVars, historyVars
<1>7. CASE Answer
  <2> DEFINE left == [e \in Queued \ live.batch |-> items[e]]
  <2>1. /\ items' = left /\ live' = RequestFor(left)
        /\ writes' = Issue("remove", live.batch)
        /\ thrown' \subseteq thrown \union live.batch
        /\ UNCHANGED <<ring, disk, recorded, gone>>
    BY <1>7 DEF Answer
  <2>2. Queued' = Queued \ live.batch
    BY <2>1 DEF Queued
  <2>3. live'.batch \subseteq Queued'
    BY <2>1, <2>2, RequestOfQueue DEF Queued, TypeOK
  <2>4. Waiting' \subseteq Waiting \union {[op |-> "remove", events |-> live.batch]}
    BY <2>1, LiveIsTyped, IssueAppends
  <2>5. Puts' \subseteq Puts
    BY <2>4, PutsStay
  <2>6. Owed' \subseteq Owed
    BY <2>1, <2>2, <2>5 DEF Owed
  <2>7. thrown' \subseteq DOMAIN recorded
    BY <2>1 DEF Apart, KnownEvents
  <2> HIDE DEF left
  <2> QED
    BY <2>1, <2>3, <2>6, <2>7 DEF Apart
<1>8. CASE StorageOpens
  <2>1. \A i \in 1..Len(writes') :
            writes'[i] \in Waiting \union {[op |-> "all", events |-> {}]}
    BY <1>8 DEF StorageOpens, TypeOK, Waiting
  <2>2. Waiting' \subseteq Waiting \union {[op |-> "all", events |-> {}]}
    BY <2>1 DEF Waiting
  <2>3. Puts' \subseteq Puts
    BY <2>2, PutsStay
  <2> QED
    BY <1>8, <2>3 DEF StorageOpens, Apart, Owed, Queued, historyVars
<1>9. CASE RunWrite \/ WriteFails
  <2>1. writes # <<>> /\ UNCHANGED <<ring, live, recorded, thrown, gone>>
    BY <1>9 DEF RunWrite, WriteFails, historyVars
  <2>2. Head(writes) \in Waiting /\ \A i \in 1..Len(Tail(writes)) : Tail(writes)[i] \in Waiting
    BY <2>1, TailWaits
  <2>3. ASSUME NEW backlog \in SUBSET Event, Adopt(backlog), backlog \subseteq disk,
               UNCHANGED disk
        PROVE  Apart'
    <3>1. /\ Queued' = Queued \union backlog
          /\ Waiting' \subseteq Waiting \union {[op |-> "put", events |-> Queued']}
      BY <2>1, <2>3, Adoption
    <3>2. Puts' \subseteq Puts \union Queued'
      BY <3>1, PutsGrow
    <3>3. Owed' \subseteq Owed
      BY <2>3, <3>1, <3>2 DEF Owed
    <3>4. live'.batch \subseteq Queued'
      BY <2>1, <3>1 DEF Apart
    <3> QED
      BY <2>1, <3>3, <3>4, ApartMoves
  <2>4. CASE /\ writes' = Tail(writes) /\ UNCHANGED items
             /\ \/ disk' \subseteq disk
                \/ Head(writes).op = "put" /\ disk' = disk \union Head(writes).events
    <3>1. Waiting' \subseteq Waiting /\ Queued' = Queued
      BY <2>2, <2>4 DEF Waiting, Queued
    <3>2. Puts' \subseteq Puts
      BY <3>1 DEF Puts
    <3>3. Head(writes).op = "put" => Head(writes).events \subseteq Puts
      BY <2>2 DEF Puts
    <3>4. Owed' \subseteq Owed
      BY <2>4, <3>1, <3>2, <3>3 DEF Owed
    <3>5. live'.batch \subseteq Queued'
      BY <2>1, <3>1 DEF Apart
    <3> QED
      BY <2>1, <3>4, <3>5, ApartMoves
  <2>5. disk \in SUBSET Event /\ {} \in SUBSET Event
    BY DEF TypeOK
  <2>6. CASE RunWrite
    BY <2>3, <2>4, <2>5, <2>6 DEF RunWrite
  <2>7. CASE WriteFails
    BY <2>3, <2>4, <2>5, <2>7 DEF WriteFails
  <2> QED
    BY <1>9, <2>6, <2>7
<1>10. CASE Reload
  <2>1. Waiting' = {} /\ Queued' = {} /\ live'.batch = {} /\ ring' = {}
    BY <1>10 DEF Reload, Waiting, Queued, EmptyQueue, NoRequest
  <2>2. Owed' = disk
    BY <1>10, <2>1 DEF Owed, Puts, Reload
  <2>3. /\ gone' = gone \union ((ring \union Queued) \ disk)
        /\ UNCHANGED <<recorded, thrown>>
    BY <1>10 DEF Reload
  <2> QED
    BY <2>1, <2>2, <2>3 DEF Apart, KnownEvents, Owed
<1> QED
  BY <1>1, <1>2, <1>3, <1>4, <1>5, <1>6, <1>7, <1>8, <1>9, <1>10 DEF Next, ServerStep

(* Only the request the queue gave up on becomes a late one. *)
LEMMA LateStep == Settled /\ [Next]_vars => LateKnown'
<1> SUFFICES ASSUME Settled, [Next]_vars PROVE LateKnown'
  OBVIOUS
<1> USE DEF Settled
<1>1. DOMAIN recorded \subseteq DOMAIN recorded'
  <2>1. ASSUME NEW m \in Mode, Record(m) PROVE DOMAIN recorded \subseteq DOMAIN recorded'
    BY <2>1, RecordGrows
  <2> QED
    BY <2>1
    DEF Next, ServerStep, vars, historyVars, FlushNow, RetryFires, RequestFails, ReadConsent,
        LateIngest, Answer, ConsentChanges, StorageOpens, StorageUnavailable, RunWrite,
        WriteFails, Reload
<1>2. \A r \in late' : r.batch \subseteq DOMAIN recorded
  <2>1. ASSUME NEW q \in late \union ({live} \ {NoRequest}), ReadConsent(q)
        PROVE  \A r \in late' : r.batch \subseteq DOMAIN recorded
    BY <2>1 DEF ReadConsent, LateKnown, KnownEvents, TypeOK, Request
  <2>2. CASE late' \subseteq late \union {live}
    BY <2>2 DEF LateKnown, KnownEvents
  <2> QED
    BY <2>1, <2>2
    DEF Next, ServerStep, vars, serverVars, Record, FlushNow, RetryFires, RequestFails,
        LateIngest, Answer, ConsentChanges, StorageOpens, StorageUnavailable, RunWrite,
        WriteFails, Reload
<1> QED
  BY <1>1, <1>2 DEF LateKnown

(* The invariant the implementation rests on. *)
LEMMA SettledAlways == Spec => []Settled
<1>1. Init => Settled
  BY TypeInit, StrengtheningInit, ApartInit DEF Settled, Init, LateKnown
<1>2. Settled /\ [Next]_vars => Settled'
  BY TypeStep, KnownStep, ApartStep, LateStep DEF Settled
<1> QED
  BY <1>1, <1>2, PTL DEF Spec

----------------------------------------------------------------------------
(* The pipeline implements DeliveryLog.                                     *)

Fates == [e \in Event |-> FateOf(e)]

(* Events are numbered in the order of their recording. *)
LEMMA RecordedAreEvents ==
    ASSUME Settled
    PROVE  DOMAIN recorded \subseteq Event /\ DOMAIN recorded = 1..Len(recorded)
BY PipelineAssumption DEF Settled, TypeOK, Event

(* The fate of an event, told by where it was last seen. *)
LEMMA FateIs ==
    ASSUME Settled, NEW e \in Event
    PROVE  /\ FateOf(e) \in Log!Fate
           /\ FateOf(e) = "acknowledged" <=> e \in released
           /\ FateOf(e) = "refused" <=> e \in thrown \ released
           /\ FateOf(e) = "lost" <=> e \in gone \ (released \union thrown)
           /\ FateOf(e) = "held" <=> e \in DOMAIN recorded \ (released \union thrown \union gone)
           /\ FateOf(e) = "unborn" <=> e \notin DOMAIN recorded
BY DEF Settled, KnownEvents, Apart, FateOf, Log!Fate

(* An event's fate depends on nothing else. *)
LEMMA SameFate ==
    ASSUME UNCHANGED <<released, thrown, gone>>, DOMAIN recorded' = DOMAIN recorded
    PROVE  Fates' = Fates
BY DEF Fates, FateOf

(* The first page starts with an empty log. *)
LEMMA LogInit == Init => Log!Init
<1> SUFFICES ASSUME Init PROVE Log!Init
  OBVIOUS
<1>1. \A e \in Event : FateOf(e) = "unborn"
  BY DEF Init, FateOf
<1> QED
  BY <1>1 DEF Init, Log!Init, Log!Event, Event

(* Recording an event offers it, and may lose the one it overwrites. *)
LEMMA RecordOffers ==
    ASSUME Settled, NEW m \in Mode, Record(m)
    PROVE  Log!Offer(m)
<1> USE DEF Settled
<1>1. /\ recorded' = Append(recorded, m) /\ gone' = gone \union Evicted
      /\ UNCHANGED <<released, thrown, rows>>
  BY DEF Record, serverVars
<1>2. /\ NextEvent = Len(recorded') /\ NextEvent \in Event
      /\ NextEvent \notin DOMAIN recorded
      /\ DOMAIN recorded' = DOMAIN recorded \union {NextEvent}
      /\ DOMAIN recorded \subseteq Event
  <2>1. recorded \in Seq(Mode) /\ Len(recorded) < MaxEvents
    BY DEF Record, TypeOK
  <2>2. NextEvent = Len(recorded') /\ Len(recorded) \in Nat
    BY <1>1, <2>1 DEF NextEvent
  <2>3. NextEvent \in Event
    BY <2>1, <2>2, PipelineAssumption DEF NextEvent, Event
  <2>4. NextEvent \notin DOMAIN recorded /\ DOMAIN recorded \subseteq Event
    BY <2>2, RecordedAreEvents DEF NextEvent
  <2>5. DOMAIN recorded' = DOMAIN recorded \union {NextEvent}
    BY RecordGrows
  <2> QED
    BY <2>2, <2>3, <2>4, <2>5
<1>3. Evicted \subseteq ring /\ ring \subseteq DOMAIN recorded
  BY DEF Evicted, KnownEvents
<1>4. Fates'[NextEvent] = "held"
  BY <1>1, <1>2, <1>3 DEF Fates, FateOf, Apart, KnownEvents
<1>5. \A e \in DOMAIN recorded : /\ Fates'[e] \in {Fates[e], "lost"}
                                 /\ Log!MayBecome(Fates[e], Fates'[e])
  BY <1>1, <1>2, <1>3 DEF Fates, FateOf, Log!MayBecome
<1>6. \A e \in Event \ DOMAIN recorded' : Fates'[e] = Fates[e]
  BY <1>1, <1>2, <1>3 DEF Fates, FateOf
<1>7. Fates' \in [Event -> Log!Fate]
  BY DEF Fates, FateOf, Log!Fate
<1> QED
  BY <1>1, <1>2, <1>4, <1>5, <1>6, <1>7 DEF Log!Offer, Log!Event, Event, Fates

(* What the handler inserts is in the log once. *)
LEMMA InsertIsOnce ==
    ASSUME Settled, NEW S \in SUBSET Event, Insert(S)
    PROVE  /\ Log!Once(S)
           /\ \A e \in S : rows'[e] > 0
<1>1. /\ rows \in [Event -> Nat]
      /\ rows' = [e \in Event |-> IF e \in S \ InTable THEN rows[e] + 1 ELSE rows[e]]
  BY DEF Settled, TypeOK, Insert
<1>2. \A e \in Event : e \in InTable <=> rows[e] # 0
  BY <1>1 DEF InTable
<1>3. \A e \in Event : (IF e \in S \ InTable THEN rows[e] + 1 ELSE rows[e])
                     = (IF e \in S /\ rows[e] = 0 THEN 1 ELSE rows[e])
  BY <1>1, <1>2
<1>4. Log!Once(S)
  BY <1>1, <1>3 DEF Log!Once, Log!Event, Event
<1>5. \A e \in S : rows'[e] > 0
  BY <1>1, <1>2
<1> QED
  BY <1>4, <1>5

(* Work on a request nobody waits for reaches the log, and tells no one. *)
LEMMA LateReaches ==
    ASSUME Settled, NEW r \in late, LateIngest(r)
    PROVE  Log!Reach
<1>1. PICK S \in SUBSET Accepted(r) : Insert(S)
  BY DEF LateIngest
<1>2. S \in SUBSET Event /\ S \in SUBSET DOMAIN recorded
  BY DEF Settled, LateKnown, TypeOK, Request, Accepted
<1>3. Log!Once(S)
  BY <1>1, <1>2, InsertIsOnce
<1>4. UNCHANGED <<recorded, released, thrown, gone>>
  BY DEF LateIngest, historyVars
<1>5. Fates' = Fates
  BY <1>4, SameFate
<1> QED
  BY <1>2, <1>3, <1>4, <1>5 DEF Log!Reach, Fates

(* An answer refuses its batch, or acknowledges it. *)
LEMMA AnswerTells ==
    ASSUME Settled, Answer
    PROVE  Log!Acknowledge(live.batch) \/ Log!Refuse(live.batch)
<1> USE DEF Settled
<1>1. /\ live.batch \subseteq DOMAIN recorded /\ live.batch \subseteq Event
      /\ live.batch \intersect gone = {} /\ DOMAIN recorded \subseteq Event
  BY LiveIsTyped, RecordedAreEvents DEF KnownEvents, Apart, Owed
<1>2. Insert(Accepted(live)) /\ UNCHANGED <<recorded, gone>>
  BY DEF Answer
<1>3. ASSUME Forbidden(live) PROVE Log!Refuse(live.batch)
  <2>1. rows' = rows
    BY <1>2, <1>3, ForbiddenAcceptsNothing, InsertNothing
  <2>2. thrown' = thrown \union live.batch /\ UNCHANGED released
    BY <1>3 DEF Answer
  <2>3. \A e \in Event : Fates'[e] = IF e \in live.batch /\ Fates[e] # "acknowledged"
                                  THEN "refused" ELSE Fates[e]
    BY <1>1, <1>2, <2>2 DEF Fates, FateOf
  <2>4. Fates' = [e \in Event |-> IF e \in live.batch /\ Fates[e] # "acknowledged"
                                 THEN "refused" ELSE Fates[e]]
    BY <2>3 DEF Fates
  <2>5. \A e \in live.batch : Log!MayBecome(Fates[e], Fates'[e])
    BY <1>1, <1>2, <2>2 DEF Fates, FateOf, Log!MayBecome
  <2> QED
    BY <1>2, <2>1, <2>4, <2>5 DEF Log!Refuse, Log!Event, Event, Fates
<1>4. ASSUME ~Forbidden(live) PROVE Log!Acknowledge(live.batch)
  <2>1. Accepted(live) \in SUBSET live.batch /\ Accepted(live) \in SUBSET Event
    BY <1>1 DEF Accepted
  <2>2. Log!Once(Accepted(live)) /\ \A e \in Accepted(live) : rows'[e] > 0
    BY <1>2, <2>1, InsertIsOnce
  <2>3. \A e \in live.batch : Log!Acceptable(e) => rows'[e] > 0
    BY <1>4, <2>2, NotForbiddenIsAccepted DEF Log!Acceptable
  <2>4. released' = released \union live.batch /\ UNCHANGED thrown
    BY <1>4 DEF Answer
  <2>5. \A e \in Event : Fates'[e] = IF e \in live.batch THEN "acknowledged" ELSE Fates[e]
    BY <1>1, <1>2, <2>4 DEF Fates, FateOf
  <2>6. Fates' = [e \in Event |-> IF e \in live.batch THEN "acknowledged" ELSE Fates[e]]
    BY <2>5 DEF Fates
  <2>7. \A e \in live.batch : Log!MayBecome(Fates[e], "acknowledged")
    BY <1>1 DEF Fates, FateOf, Log!MayBecome
  <2> QED
    BY <1>2, <2>1, <2>2, <2>3, <2>6, <2>7 DEF Log!Acknowledge, Log!Event, Event, Fates
<1> QED
  BY <1>3, <1>4

(* A page that dies takes with it what only its memory held. *)
LEMMA ReloadPerishes ==
    ASSUME Settled, Reload
    PROVE  \E B \in SUBSET DOMAIN recorded : Log!Perish(B)
<1> USE DEF Settled
<1> DEFINE B == ((ring \union Queued) \ disk) \ (released \union thrown \union gone)
<1>1. /\ gone' = gone \union ((ring \union Queued) \ disk)
      /\ UNCHANGED <<recorded, released, thrown, rows>>
  BY DEF Reload
<1>2. B \in SUBSET DOMAIN recorded /\ DOMAIN recorded \subseteq Event
  BY RecordedAreEvents DEF KnownEvents
<1>3. \A e \in B : Fates[e] = "held"
  BY <1>2 DEF Fates, FateOf
<1>4. \A e \in Event : Fates'[e] = IF e \in B THEN "lost" ELSE Fates[e]
  BY <1>1, <1>2 DEF Fates, FateOf
<1>5. Fates' = [e \in Event |-> IF e \in B THEN "lost" ELSE Fates[e]]
  BY <1>4 DEF Fates
<1> QED
  BY <1>1, <1>2, <1>3, <1>5 DEF Log!Perish, Log!Event, Event, Fates

(* Every other step says nothing of any event. *)
LEMMA OtherStepsStutter ==
    ASSUME Settled,
           \/ FlushNow \/ RetryFires \/ RequestFails
           \/ \E r \in late \union ({live} \ {NoRequest}) : ReadConsent(r)
           \/ \E c \in Consent : ConsentChanges(c)
           \/ StorageOpens \/ StorageUnavailable \/ RunWrite \/ WriteFails
           \/ UNCHANGED vars
    PROVE  UNCHANGED <<recorded, rows, Fates>>
<1>1. UNCHANGED <<recorded, rows, released, thrown, gone>>
  BY DEF FlushNow, RetryFires, RequestFails, ReadConsent, ConsentChanges, StorageOpens,
         StorageUnavailable, RunWrite, WriteFails, vars, serverVars, historyVars
<1> QED
  BY <1>1, SameFate

(* Each step of the pipeline is a step of the log, or none. *)
LEMMA LogStep == Settled /\ [Next]_vars => [Log!Next]_(Log!vars)
<1> SUFFICES ASSUME Settled, [Next]_vars PROVE [Log!Next]_(Log!vars)
  OBVIOUS
<1>1. ASSUME NEW m \in Mode, Record(m) PROVE Log!Next
  BY <1>1, RecordOffers DEF Log!Next, Log!Mode, Mode
<1>2. ASSUME NEW r \in late, LateIngest(r) PROVE Log!Next
  BY <1>2, LateReaches DEF Log!Next
<1>3. CASE Answer
  <2>1. live.batch \in SUBSET DOMAIN recorded
    BY DEF Settled, KnownEvents
  <2> QED
    BY <1>3, <2>1, AnswerTells DEF Log!Next
<1>4. CASE Reload
  BY <1>4, ReloadPerishes DEF Log!Next
<1>5. CASE \/ FlushNow \/ RetryFires \/ RequestFails
           \/ \E r \in late \union ({live} \ {NoRequest}) : ReadConsent(r)
           \/ \E c \in Consent : ConsentChanges(c)
           \/ StorageOpens \/ StorageUnavailable \/ RunWrite \/ WriteFails
           \/ UNCHANGED vars
  BY <1>5, OtherStepsStutter DEF Log!vars, Fates
<1> QED
  BY <1>1, <1>2, <1>3, <1>4, <1>5 DEF Next, ServerStep

(* Ring buffer, queue, store, network and handler together implement the    *)
(* at-least-once log: nothing twice, no acknowledgment taken back, nothing  *)
(* lost that was told to be safe, nothing told lost that is sent later.     *)
THEOREM PipelineDelivers == Spec => Delivers
BY LogInit, LogStep, SettledAlways, PTL DEF Spec, Delivers, Log!Spec

----------------------------------------------------------------------------
(* The queue and the browser's store: the backlog is read before anything   *)
(* is written, and what a page has in memory is never what a pending        *)
(* removal names.                                                           *)

(* The reading of the backlog is the first transaction of a page, and the   *)
(* queue is between two stores exactly while it waits.                      *)
BacklogFirst ==
    /\ storage \in {"opening", "memory"} => writes = <<>>
    /\ storage = "reading" => writes # <<>>
    /\ \A i \in 1..Len(writes) : writes[i].op = "all" <=> (i = 1 /\ storage = "reading")

(* What a pending removal names is not in memory any more, and does not     *)
(* come back: until the backlog has been read, the store holds nothing that *)
(* this page has queued or is about to remove.                              *)
Removes == UNION {w.events : w \in {x \in Waiting : x.op = "remove"}}

NoneComesBack ==
    /\ Removes \intersect (ring \union Queued) = {}
    /\ storage \in {"opening", "reading"} => disk \intersect (Queued \union Removes) = {}

----------------------------------------------------------------------------
(* The transactions that wait.                                              *)

(* One issued more is the last that waits. *)
LEMMA OneMore ==
    ASSUME TypeOK, NEW w \in Write, writes' = Append(writes, w)
    PROVE  /\ Len(writes') = Len(writes) + 1
           /\ \A i \in 1..Len(writes) : writes'[i] = writes[i]
           /\ writes'[Len(writes) + 1] = w
           /\ Waiting' = Waiting \union {w}
<1>1. writes \in Seq(Write) /\ Len(writes) \in Nat
  BY DEF TypeOK
<1>2. /\ Len(writes') = Len(writes) + 1
      /\ \A i \in 1..Len(writes) : writes'[i] = writes[i]
      /\ writes'[Len(writes) + 1] = w
  BY <1>1
<1>3. 1..Len(writes') = 1..Len(writes) \union {Len(writes) + 1}
  BY <1>1, <1>2
<1>4. Waiting' = {writes'[i] : i \in 1..Len(writes) \union {Len(writes) + 1}}
  BY <1>3 DEF Waiting
<1> QED
  BY <1>2, <1>4 DEF Waiting

(* One that is over is the first that waited. *)
LEMMA OneLess ==
    ASSUME TypeOK, writes # <<>>, writes' = Tail(writes)
    PROVE  /\ Waiting = Waiting' \union {Head(writes)}
           /\ Len(writes') = Len(writes) - 1
           /\ \A i \in 1..Len(writes') : i + 1 \in 1..Len(writes) /\ writes'[i] = writes[i + 1]
<1>1. writes \in Seq(Write) /\ Len(writes) \in Nat /\ Len(writes) >= 1
  BY DEF TypeOK
<1>2. /\ Head(writes) = writes[1] /\ Len(writes') = Len(writes) - 1
      /\ \A i \in 1..Len(writes') : i + 1 \in 1..Len(writes) /\ writes'[i] = writes[i + 1]
  BY <1>1
<1>3. \A j \in 1..Len(writes) : j = 1 \/ (j - 1 \in 1..Len(writes') /\ writes[j] = writes'[j - 1])
  BY <1>1, <1>2
<1>4. 1 \in 1..Len(writes)
  BY <1>1
<1>5. Waiting \subseteq Waiting' \union {Head(writes)}
  BY <1>2, <1>3 DEF Waiting
<1>6. Waiting' \union {Head(writes)} \subseteq Waiting
  BY <1>2, <1>4 DEF Waiting
<1> QED
  BY <1>2, <1>5, <1>6

----------------------------------------------------------------------------
(* The backlog is read first.                                               *)

(* What is issued behind the reading leaves it the first. *)
LEMMA IssueIsBehind ==
    ASSUME TypeOK, BacklogFirst, storage' = storage,
           NEW op \in {"put", "remove"}, NEW events \in SUBSET Event,
           writes' = Issue(op, events)
    PROVE  BacklogFirst'
<1> DEFINE w == [op |-> op, events |-> events]
<1>1. CASE OnDisk
  <2>1. w \in Write /\ w.op # "all"
    BY DEF Write
  <2>2. writes' = Append(writes, w)
    BY <1>1 DEF Issue
  <2>3. writes \in Seq(Write) /\ Len(writes) \in Nat
    BY DEF TypeOK
  <2> HIDE DEF w
  <2>4. writes' # <<>>
    BY <2>1, <2>2, <2>3
  <2>5. storage = "reading" => Len(writes) + 1 # 1
    BY <2>3 DEF BacklogFirst
  <2>6. ASSUME NEW i \in 1..Len(writes')
        PROVE  writes'[i].op = "all" <=> (i = 1 /\ storage = "reading")
    <3>1. i \in 1..Len(writes) \/ i = Len(writes) + 1
      BY <2>1, <2>2, <2>3, OneMore
    <3> QED
      BY <2>1, <2>2, <2>5, <3>1, OneMore DEF BacklogFirst
  <2>7. storage \notin {"opening", "memory"}
    BY <1>1 DEF OnDisk
  <2> QED
    BY <2>4, <2>6, <2>7 DEF BacklogFirst
<1>2. CASE ~OnDisk
  BY <1>2 DEF Issue, BacklogFirst
<1> QED
  BY <1>1, <1>2

(* The end of another transaction leaves the queue where it is. *)
LEMMA OthersFollow ==
    ASSUME TypeOK, BacklogFirst, writes # <<>>, Head(writes).op # "all"
    PROVE  storage = "idb"
<1>1. Head(writes) = writes[1] /\ 1 \in 1..Len(writes)
  BY DEF TypeOK
<1> QED
  BY <1>1 DEF BacklogFirst, TypeOK

(* ... and the order as it is. *)
LEMMA EndKeepsOrder ==
    ASSUME TypeOK, BacklogFirst, writes # <<>>, Head(writes).op # "all",
           writes' = Tail(writes), storage' = storage
    PROVE  BacklogFirst'
<1>1. storage = "idb"
  BY OthersFollow
<1>2. \A i \in 1..Len(writes') : writes'[i].op # "all"
  BY <1>1, OneLess DEF BacklogFirst
<1> QED
  BY <1>1, <1>2 DEF BacklogFirst

(* After the adoption no reading of a backlog waits. *)
LEMMA AdoptedOnce ==
    ASSUME TypeOK, BacklogFirst, writes # <<>>, NEW backlog \in SUBSET Event, Adopt(backlog)
    PROVE  BacklogFirst'
<1> DEFINE put == [op |-> "put", events |-> Queued']
<1>1. writes \in Seq(Write) /\ Len(writes) \in Nat /\ Len(writes) >= 1
  BY DEF TypeOK
<1>2. \A i \in 1..Len(Tail(writes)) : Tail(writes)[i].op # "all"
  <2>1. \A i \in 1..Len(Tail(writes)) :
            i + 1 \in 1..Len(writes) /\ Tail(writes)[i] = writes[i + 1] /\ i + 1 # 1
    BY <1>1
  <2> QED
    BY <2>1 DEF BacklogFirst
<1>3. writes' = Tail(writes) \/ writes' = Append(Tail(writes), put)
  BY DEF Adopt, Queued
<1>4. put.op # "all" /\ put \in Write
  <2>1. Queued' = Queued \union backlog
    BY Adoption
  <2>2. Queued \in SUBSET Event
    BY DEF TypeOK, Queued
  <2> QED
    BY <2>1, <2>2 DEF Write
<1>5. Tail(writes) \in Seq(Write)
  BY <1>1
<1> HIDE DEF put
<1>6. \A i \in 1..Len(writes') : writes'[i].op # "all"
  <2>1. CASE writes' = Append(Tail(writes), put)
    <3>1. ASSUME NEW i \in 1..Len(writes')
          PROVE  \/ i \in 1..Len(Tail(writes)) /\ writes'[i] = Tail(writes)[i]
                 \/ writes'[i] = put
      BY <1>4, <1>5, <2>1
    <3> QED
      BY <1>2, <1>4, <3>1
  <2> QED
    BY <1>2, <1>3, <2>1
<1>7. storage' = "idb"
  BY DEF Adopt
<1> QED
  BY <1>6, <1>7 DEF BacklogFirst

(* Every step keeps the order of the transactions. *)
LEMMA BacklogFirstStep == TypeOK /\ BacklogFirst /\ [Next]_vars => BacklogFirst'
<1> SUFFICES ASSUME TypeOK, BacklogFirst, [Next]_vars PROVE BacklogFirst'
  OBVIOUS
<1>1. CASE FlushNow
  <2>1. storage' = storage /\ (writes' = writes \/ writes' = Issue("put", ring \ Queued))
    BY <1>1 DEF FlushNow, HandOver
  <2>2. ring \ Queued \in SUBSET Event
    BY DEF TypeOK
  <2>3. CASE writes' = writes
    BY <2>1, <2>3 DEF BacklogFirst
  <2> QED
    BY <2>1, <2>2, <2>3, IssueIsBehind
<1>2. CASE Answer
  <2>1. storage' = storage /\ writes' = Issue("remove", live.batch)
    BY <1>2 DEF Answer
  <2> QED
    BY <2>1, LiveIsTyped, IssueIsBehind
<1>3. CASE StorageOpens
  <2> DEFINE w == [op |-> "all", events |-> {}]
  <2>1. storage' = "reading" /\ writes = <<>> /\ writes' = Append(<<>>, w)
    BY <1>3 DEF StorageOpens, BacklogFirst
  <2>2. Len(writes') = 1 /\ writes'[1] = w /\ writes' # <<>> /\ w.op = "all"
    BY <2>1
  <2> QED
    BY <2>1, <2>2 DEF BacklogFirst
<1>4. CASE StorageUnavailable
  BY <1>4 DEF StorageUnavailable, BacklogFirst, diskVars
<1>5. CASE RunWrite \/ WriteFails
  <2>1. writes # <<>> /\ disk \in SUBSET Event
    BY <1>5 DEF RunWrite, WriteFails, TypeOK
  <2>2. CASE \E backlog \in SUBSET Event : Adopt(backlog)
    BY <2>1, <2>2, AdoptedOnce
  <2>3. CASE Head(writes).op # "all" /\ writes' = Tail(writes) /\ storage' = storage
    BY <2>1, <2>3, EndKeepsOrder
  <2> QED
    BY <1>5, <2>1, <2>2, <2>3 DEF RunWrite, WriteFails
<1>6. CASE Reload
  <2>1. storage' = "opening" /\ writes' = <<>> /\ Len(<<>>) = 0
    BY <1>6 DEF Reload
  <2> QED
    BY <2>1 DEF BacklogFirst
<1>7. CASE UNCHANGED <<storage, writes>>
  BY <1>7 DEF BacklogFirst
<1> QED
  BY <1>1, <1>2, <1>3, <1>4, <1>5, <1>6, <1>7
  DEF Next, ServerStep, vars, queueVars, diskVars, Record, RetryFires, RequestFails, ReadConsent,
      LateIngest, ConsentChanges

----------------------------------------------------------------------------
(* Nothing comes back.                                                      *)

(* What waits to be removed grows by a removal that is issued.              *)
LEMMA RemovesGrow ==
    ASSUME NEW events, Waiting' \subseteq Waiting \union {[op |-> "remove", events |-> events]}
    PROVE  Removes' \subseteq Removes \union events
BY DEF Removes

(* No other transaction adds to it. *)
LEMMA RemovesStay ==
    ASSUME NEW op \in {"all", "put"}, NEW events,
           Waiting' \subseteq Waiting \union {[op |-> op, events |-> events]}
    PROVE  Removes' \subseteq Removes
BY DEF Removes

(* A backlog is read while the queue is between two stores. *)
LEMMA ReadingFirst ==
    ASSUME TypeOK, BacklogFirst, writes # <<>>, Head(writes).op = "all"
    PROVE  storage = "reading"
<1>1. Head(writes) = writes[1] /\ 1 \in 1..Len(writes)
  BY DEF TypeOK
<1> QED
  BY <1>1 DEF BacklogFirst

(* No step brings back what is about to be removed. *)
LEMMA NoneComesBackStep ==
    Settled /\ BacklogFirst /\ NoneComesBack /\ [Next]_vars => NoneComesBack'
<1> SUFFICES ASSUME Settled, BacklogFirst, NoneComesBack, [Next]_vars PROVE NoneComesBack'
  OBVIOUS
<1>0. TypeOK /\ KnownEvents /\ Apart
  BY DEF Settled
<1>1. ASSUME NEW m \in Mode, Record(m) PROVE NoneComesBack'
  <2>1. Removes' = Removes /\ Queued' = Queued /\ UNCHANGED <<disk, storage>>
    BY <1>1 DEF Record, Removes, Waiting, Queued, queueVars, diskVars
  <2>2. ring' \subseteq ring \union {NextEvent}
    BY <1>1 DEF Record
  <2>3. Removes \subseteq DOMAIN recorded
    BY <1>0 DEF Removes, KnownEvents
  <2>4. NextEvent \notin DOMAIN recorded
    BY <1>0 DEF TypeOK, NextEvent
  <2> QED
    BY <2>1, <2>2, <2>3, <2>4 DEF NoneComesBack
<1>2. CASE FlushNow
  <2> DEFINE fresh == ring \ Queued
             part == IF storage = "idb" THEN AfterBacklog ELSE BeforeBacklog
  <2>1. fresh \in SUBSET Event /\ part \in Part
    BY <1>0 DEF TypeOK, Part
  <2>2. items' = Extended(fresh, part) /\ (writes' = writes \/ writes' = Issue("put", fresh))
    BY <1>2 DEF FlushNow, HandOver
  <2> HIDE DEF part
  <2>3. Queued' = Queued \union fresh
    BY <1>0, <2>1, <2>2, ExtendedQueue DEF Queued
  <2>4. Waiting' \subseteq Waiting \union {[op |-> "put", events |-> fresh]}
    BY <1>0, <2>1, <2>2, IssueAppends DEF Waiting
  <2>5. ring' = {} /\ UNCHANGED <<disk, storage>>
    BY <1>2 DEF FlushNow, HandOver
  <2>6. ring \intersect disk = {}
    BY <1>0 DEF Apart, Owed
  <2> QED
    BY <2>3, <2>4, <2>5, <2>6, RemovesStay DEF NoneComesBack
<1>3. CASE Answer
  <2>1. /\ Queued' = Queued \ live.batch /\ writes' = Issue("remove", live.batch)
        /\ UNCHANGED <<ring, disk, storage>>
    BY <1>3 DEF Answer, Queued
  <2>2. Waiting' \subseteq Waiting \union {[op |-> "remove", events |-> live.batch]}
    BY <1>0, <2>1, LiveIsTyped, IssueAppends
  <2>3. live.batch \subseteq Queued /\ ring \intersect Queued = {}
    BY <1>0 DEF Apart, Owed
  <2> QED
    BY <2>1, <2>2, <2>3, RemovesGrow DEF NoneComesBack
<1>4. CASE StorageOpens
  <2> DEFINE w == [op |-> "all", events |-> {}]
  <2>1. w \in Write /\ writes' = Append(writes, w)
    BY <1>4 DEF StorageOpens, Write
  <2>2. Waiting' = Waiting \union {w}
    BY <1>0, <2>1, OneMore
  <2>3. Queued' = Queued /\ UNCHANGED <<ring, disk>> /\ storage = "opening"
    BY <1>4 DEF StorageOpens, Queued
  <2> QED
    BY <2>2, <2>3, RemovesStay DEF NoneComesBack
<1>5. CASE StorageUnavailable
  <2>1. Removes' = Removes /\ Queued' = Queued /\ ring' = ring /\ storage' = "memory"
    BY <1>5 DEF StorageUnavailable, Removes, Waiting, Queued, diskVars
  <2> QED
    BY <2>1 DEF NoneComesBack
<1>6. CASE RunWrite \/ WriteFails
  <2>1. writes # <<>> /\ disk \in SUBSET Event /\ ring' = ring
    BY <1>0, <1>6 DEF RunWrite, WriteFails, TypeOK
  <2>2. ASSUME NEW backlog \in {{}, disk}, Head(writes).op = "all", Adopt(backlog)
        PROVE  NoneComesBack'
    <3>1. backlog \in SUBSET Event
      BY <2>1, <2>2
    <3>2. /\ storage' = "idb" /\ Queued' = Queued \union backlog
          /\ Waiting' \subseteq Waiting \union {[op |-> "put", events |-> Queued']}
      BY <1>0, <2>1, <2>2, <3>1, Adoption
    <3>3. storage = "reading"
      BY <1>0, <2>1, <2>2, ReadingFirst
    <3> QED
      BY <2>1, <2>2, <3>2, <3>3, RemovesStay DEF NoneComesBack
  <2>3. CASE Head(writes).op # "all" /\ writes' = Tail(writes) /\ UNCHANGED <<items, storage>>
    <3>1. Waiting' \subseteq Waiting
      BY <1>0, <2>1, <2>3, OneLess
    <3>2. storage = "idb"
      BY <1>0, <2>1, <2>3, OthersFollow
    <3>3. Removes' \subseteq Removes /\ Queued' = Queued /\ storage' = storage
      BY <2>3, <3>1 DEF Removes, Queued
    <3> QED
      BY <2>1, <3>2, <3>3 DEF NoneComesBack
  <2> QED
    BY <1>6, <2>2, <2>3 DEF RunWrite, WriteFails
<1>7. CASE Reload
  <2>1. Removes' = {} /\ Queued' = {}
    BY <1>7 DEF Reload, Removes, Waiting, Queued, EmptyQueue
  <2> QED
    BY <1>7, <2>1 DEF Reload, NoneComesBack
<1>8. CASE UNCHANGED <<ring, items, storage, disk, writes>>
  BY <1>8 DEF NoneComesBack, Removes, Waiting, Queued
<1> QED
  BY <1>1, <1>2, <1>3, <1>4, <1>5, <1>6, <1>7, <1>8
  DEF Next, ServerStep, vars, queueVars, diskVars, RetryFires, RequestFails, ReadConsent,
      LateIngest, ConsentChanges

----------------------------------------------------------------------------
(* The queue is stored.                                                     *)

(* An event of the queue is in the store or about to be, in terms of what    *)
(* waits.                                                                   *)
QueueIsKept == storage = "idb" /\ storageFaults = 0 => Queued \subseteq disk \union Puts

(* What is about to be stored stands in a transaction that waits. *)
LEMMA KeptMeansStored == TypeOK /\ QueueIsKept => QueueIsStored
<1> SUFFICES ASSUME TypeOK, QueueIsKept PROVE QueueIsStored
  OBVIOUS
<1>1. DOMAIN writes = 1..Len(writes)
  BY DEF TypeOK
<1>2. \A e \in Puts : \E i \in DOMAIN writes : writes[i].op = "put" /\ e \in writes[i].events
  BY <1>1 DEF Puts, Waiting
<1> QED
  BY <1>2 DEF QueueIsStored, QueueIsKept

(* What a put that waits would store is about to be stored. *)
LEMMA PutIsAmongPuts ==
    ASSUME NEW w, w \in Waiting', w.op = "put"
    PROVE  w.events \subseteq Puts'
<1>1. w \in {x \in Waiting' : x.op = "put"}
  OBVIOUS
<1> QED
  BY <1>1 DEF Puts

(* Every step keeps the queue in the store, or fails to write. *)
LEMMA QueueIsKeptStep ==
    Settled /\ BacklogFirst /\ NoneComesBack /\ QueueIsKept /\ [Next]_vars => QueueIsKept'
<1> SUFFICES ASSUME Settled, BacklogFirst, NoneComesBack, QueueIsKept, [Next]_vars,
                    storage' = "idb", storageFaults' = 0
             PROVE  Queued' \subseteq disk' \union Puts'
  BY DEF QueueIsKept
<1>0. TypeOK
  BY DEF Settled
(* A fault stays counted, so there was none before. *)
<1>a. storageFaults = 0 /\ ~StorageUnavailable /\ ~WriteFails
  <2>1. storageFaults \in Nat
    BY <1>0, PipelineAssumption DEF TypeOK
  <2>2. ~StorageUnavailable /\ ~WriteFails
    BY <2>1 DEF StorageUnavailable, WriteFails
  <2>3. storageFaults' = storageFaults
    BY <2>2
    DEF Next, ServerStep, vars, boundVars, Record, FlushNow, RetryFires, RequestFails, ReadConsent,
        LateIngest, Answer, ConsentChanges, StorageOpens, RunWrite, Reload
  <2> QED
    BY <2>2, <2>3
<1>b. storage = "idb" => Queued \subseteq disk \union Puts
  BY <1>a DEF QueueIsKept
<1>1. CASE FlushNow
  <2> DEFINE fresh == ring \ Queued
             part == IF storage = "idb" THEN AfterBacklog ELSE BeforeBacklog
             put == [op |-> "put", events |-> fresh]
  <2>1. fresh \in SUBSET Event /\ part \in Part
    BY <1>0 DEF TypeOK, Part
  <2>2. items' = Extended(fresh, part) /\ storage' = storage /\ disk' = disk
    BY <1>1 DEF FlushNow, HandOver
  <2>3. writes' = IF fresh = {} THEN writes ELSE Append(writes, put)
    BY <1>1, <2>2 DEF FlushNow, HandOver, Issue, OnDisk
  <2>4. put \in Write
    BY <2>1 DEF Write
  <2> HIDE DEF part
  <2>5. Queued' = Queued \union fresh
    BY <1>0, <2>1, <2>2, ExtendedQueue DEF Queued
  <2>6. CASE fresh = {}
    BY <1>b, <2>2, <2>3, <2>5, <2>6 DEF Puts, Waiting
  <2>7. CASE fresh # {}
    <3>1. Waiting' = Waiting \union {put}
      BY <1>0, <2>3, <2>4, <2>7, OneMore
    <3>2. Puts \subseteq Puts'
      BY <3>1 DEF Puts
    <3>3. fresh \subseteq Puts'
      <4>1. put \in Waiting' /\ put.op = "put" /\ put.events = fresh
        BY <3>1
      <4> QED
        BY <4>1, PutIsAmongPuts
    <3> QED
      BY <1>b, <2>2, <2>5, <3>2, <3>3
  <2> QED
    BY <2>6, <2>7
<1>2. CASE Answer
  <2> DEFINE remove == [op |-> "remove", events |-> live.batch]
  <2>1. Queued' \subseteq Queued /\ storage' = storage /\ disk' = disk
    BY <1>2 DEF Answer, Queued
  <2>2. writes' = Append(writes, remove) /\ remove \in Write
    BY <1>0, <1>2, <2>1, LiveIsTyped DEF Answer, Issue, OnDisk, Write
  <2>3. Waiting \subseteq Waiting'
    BY <1>0, <2>2, OneMore
  <2>4. Puts \subseteq Puts'
    BY <2>3 DEF Puts
  <2> QED
    BY <1>b, <2>1, <2>4
<1>3. CASE RunWrite
  <2>1. writes # <<>> /\ disk \in SUBSET Event
    BY <1>0, <1>3 DEF RunWrite, TypeOK
  <2>2. CASE Adopt(disk)
    <3> DEFINE put == [op |-> "put", events |-> Queued']
    <3>1. CASE Queued' = {}
      BY <3>1
    <3>2. CASE Queued' # {}
      <4>1. writes' = Append(Tail(writes), put)
        BY <2>2, <3>2 DEF Adopt, Queued
      <4>2. Tail(writes) \in Seq(Write)
        BY <1>0, <2>1, TailWaits
      <4>3. put \in Waiting'
        <5> HIDE DEF put
        <5>1. writes'[Len(writes')] = put /\ Len(writes') \in 1..Len(writes')
          BY <4>1, <4>2
        <5> QED
          BY <5>1 DEF Waiting
      <4>4. put.op = "put" /\ put.events = Queued'
        OBVIOUS
      <4> QED
        BY <4>3, <4>4, PutIsAmongPuts
    <3> QED
      BY <3>1, <3>2
  <2>3. CASE Head(writes).op # "all"
    <3>1. /\ writes' = Tail(writes) /\ Queued' = Queued
          /\ \/ Head(writes).op = "put" /\ disk' = disk \union Head(writes).events
             \/ Head(writes).op = "remove" /\ disk' = disk \ Head(writes).events
      BY <1>3, <2>3 DEF RunWrite, Queued
    <3>2. Waiting = Waiting' \union {Head(writes)}
      BY <1>0, <2>1, <3>1, OneLess
    <3>3. storage = "idb"
      BY <1>0, <2>1, <2>3, OthersFollow
    <3>4. CASE Head(writes).op = "put"
      <4>1. Puts \subseteq Puts' \union Head(writes).events
        BY <3>2 DEF Puts
      <4> QED
        BY <1>b, <3>1, <3>3, <3>4, <4>1
    <3>5. CASE Head(writes).op = "remove"
      <4>1. Puts \subseteq Puts'
        BY <3>2, <3>5 DEF Puts
      <4>2. Head(writes).events \subseteq Removes
        BY <3>2, <3>5 DEF Removes
      <4> QED
        BY <1>b, <3>1, <3>3, <3>5, <4>1, <4>2 DEF NoneComesBack
    <3> QED
      BY <3>1, <3>4, <3>5
  <2> QED
    BY <1>3, <2>2, <2>3 DEF RunWrite
<1>4. CASE StorageOpens \/ Reload
  BY <1>4 DEF StorageOpens, Reload
<1>5. CASE UNCHANGED <<items, storage, disk, writes>>
  BY <1>b, <1>5 DEF Queued, Puts, Waiting
<1> QED
  BY <1>a, <1>1, <1>2, <1>3, <1>4, <1>5
  DEF Next, ServerStep, vars, queueVars, diskVars, Record, RetryFires, RequestFails, ReadConsent,
      LateIngest, ConsentChanges

(* While no write of it has failed, the store holds every queued event, or  *)
(* is about to: a crash takes at most what the transactions under way would *)
(* have written.                                                            *)
THEOREM QueueStored == Spec => []QueueIsStored
<1>1. Init => BacklogFirst /\ NoneComesBack /\ QueueIsKept
  <2> SUFFICES ASSUME Init PROVE BacklogFirst /\ NoneComesBack /\ QueueIsKept
    OBVIOUS
  <2>1. writes = <<>> /\ Len(<<>>) = 0 /\ Waiting = {} /\ Queued = {} /\ storage = "opening"
    BY DEF Init, Waiting, Queued, EmptyQueue
  <2> QED
    BY <2>1 DEF Init, BacklogFirst, NoneComesBack, Removes, QueueIsKept
<1>2. Settled /\ BacklogFirst /\ [Next]_vars => BacklogFirst'
  BY BacklogFirstStep DEF Settled
<1>3. Settled /\ QueueIsKept => QueueIsStored
  BY KeptMeansStored DEF Settled
<1> QED
  BY <1>1, <1>2, <1>3, NoneComesBackStep, QueueIsKeptStep, SettledAlways, PTL DEF Spec
=============================================================================
