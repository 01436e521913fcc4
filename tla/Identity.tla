------------------------------- MODULE Identity -------------------------------
(***************************************************************************)
(* The anonymous account a browser sends its events with.  Every tab that   *)
(* finds no token in localStorage registers an account (identity.ts) before *)
(* it reconciles with the server (useCapture.ts) and before it sends a      *)
(* batch (api.ts); a token the server does not know is dropped, and another *)
(* account is registered.  An event is stamped with an actor id when it     *)
(* goes to the queue (capture.ts), and the server accepts it only from the  *)
(* account of that id, which has to have consented (events.rs).             *)
(*                                                                          *)
(* An account, its id and its token are one number.  A send takes the whole *)
(* queue of its tab, and neither a request to /v1/events nor its answer is  *)
(* lost: batches and retries are CapturePipeline's.                         *)
(***************************************************************************)
EXTENDS Naturals, FiniteSets

CONSTANTS
    Tabs,                   \* open tabs of one browser
    MaxReregistrations,     \* dead tokens a page replaces (3 in the code)
    MaxEvents,              \* bound: events handed to the queue
    MaxRebuilds,            \* bound: times the server's database is rebuilt
    MaxRegisterFaults,      \* bound: registrations that fail for now
    MaxReloads              \* bound: page loads after the first, over all tabs

ASSUME IdentityAssumption ==
    /\ Tabs # {} /\ IsFiniteSet(Tabs)
    /\ MaxReregistrations \in Nat
    /\ MaxEvents \in Nat
    /\ MaxRebuilds \in Nat
    /\ MaxRegisterFaults \in Nat
    /\ MaxReloads \in Nat

VARIABLES
    (* The browser's storage, shared by the tabs. *)
    token,      \* the stored token
    actorKey,   \* the stored actor id
    granted,    \* whether a consent to capture is stored
    store,      \* the queue's store
    (* Per tab, lost with the page. *)
    mount,      \* how far the page's reconciliation is
    send,       \* how far the delivery loop is with a batch
    batch,      \* that batch
    presented,  \* the token each of the two sent its request with
    regs,       \* the registrations on their way
    rereg,      \* dead tokens replaced so far
    refused,    \* whether the page has concluded that it gets no account
    actor,      \* the id the controller stamps events with
    on,         \* whether the controller captures
    queue,      \* the queue
    (* The server. *)
    open,       \* whether it registers anyone
    accounts,   \* accounts ever made: 1..accounts
    valid,      \* those the database knows
    consented,  \* those whose consent it has
    (* What happened, for the properties only. *)
    stamp,      \* stamp[e] is the actor id event e carries
    fate,       \* what became of event e
    dropped,    \* tokens dropped by invalidateIdentity
    (* Bounds. *)
    rebuilds, registerFaults, reloads

storageVars == <<token, actorKey, granted, store>>
requestVars == <<mount, send, batch, presented, regs>>
pageVars == <<rereg, refused, actor, on, queue>>
serverVars == <<open, accounts, valid, consented>>
historyVars == <<stamp, fate, dropped>>
boundVars == <<rebuilds, registerFaults, reloads>>
vars == <<storageVars, requestVars, pageVars, serverVars, historyVars, boundVars>>

----------------------------------------------------------------------------
Event == 1..MaxEvents

(* No token; and the id a browser makes up for itself, which is no          *)
(* account's.                                                               *)
None == 0

(* Those who wait for a registration. *)
Caller == {"mount", "send"}

(* A registration, who waits for it, and whether the next caller joins.     *)
Registration == [waiters : SUBSET Caller, current : BOOLEAN]

Account == 1..accounts

TypeOK ==
    /\ token \in Account \union {None} /\ actorKey \in Account \union {None}
    /\ granted \in BOOLEAN /\ store \in SUBSET Event
    /\ mount \in [Tabs -> {"start", "registering", "ready", "asking", "over"}]
    /\ send \in [Tabs -> {"idle", "registering", "ready", "posted"}]
    /\ batch \in [Tabs -> SUBSET Event]
    /\ presented \in [Tabs -> [Caller -> Account \union {None}]]
    /\ regs \in [Tabs -> SUBSET Registration]
    /\ rereg \in [Tabs -> 0..MaxReregistrations] /\ refused \in [Tabs -> BOOLEAN]
    /\ actor \in [Tabs -> Account \union {None}] /\ on \in [Tabs -> BOOLEAN]
    /\ queue \in [Tabs -> SUBSET Event]
    /\ open \in BOOLEAN /\ accounts \in Nat
    /\ valid \in SUBSET Account /\ consented \in SUBSET valid
    /\ stamp \in [Event -> Account \union {None}]
    /\ fate \in [Event -> {"unborn", "queued", "stored", "barred", "refused", "discarded"}]
    /\ dropped \in Nat
    /\ rebuilds \in 0..MaxRebuilds
    /\ registerFaults \in 0..MaxRegisterFaults
    /\ reloads \in 0..MaxReloads

(* A browser that has not been here before opens its tabs. *)
Init ==
    /\ token = None /\ actorKey = None /\ granted = FALSE /\ store = {}
    /\ mount = [t \in Tabs |-> "start"] /\ send = [t \in Tabs |-> "idle"]
    /\ batch = [t \in Tabs |-> {}] /\ regs = [t \in Tabs |-> {}]
    /\ presented = [t \in Tabs |-> [c \in Caller |-> None]]
    /\ rereg = [t \in Tabs |-> 0] /\ refused = [t \in Tabs |-> FALSE]
    /\ actor = [t \in Tabs |-> None] /\ on = [t \in Tabs |-> FALSE]
    /\ queue = [t \in Tabs |-> {}]
    /\ open \in BOOLEAN /\ accounts = 0 /\ valid = {} /\ consented = {}
    /\ stamp = [e \in Event |-> None] /\ fate = [e \in Event |-> "unborn"]
    /\ dropped = 0 /\ rebuilds = 0 /\ registerFaults = 0 /\ reloads = 0

----------------------------------------------------------------------------
(* The user.                                                                *)

(* The page's effects run before the user or a timer gets to anything.      *)
Mounted(t) == mount[t] # "start"

(* He accepts the notice.  The consent is posted once, with the token there *)
(* is at that moment, and is on record if it arrives.                       *)
Grant(t) ==
    /\ Mounted(t) /\ ~on[t]
    /\ on' = [on EXCEPT ![t] = TRUE]
    /\ granted' = TRUE
    /\ consented' \in {consented, consented \union ({token} \intersect valid)}
    /\ UNCHANGED <<token, actorKey, store, requestVars, rereg, refused, actor, queue,
                   open, accounts, valid, historyVars, boundVars>>

(* flushNow hands a captured event to the queue, which stores it.           *)
HandOver(t, e) ==
    /\ Mounted(t) /\ on[t] /\ fate[e] = "unborn"
    /\ stamp' = [stamp EXCEPT ![e] = actor[t]]
    /\ fate' = [fate EXCEPT ![e] = "queued"]
    /\ queue' = [queue EXCEPT ![t] = @ \union {e}]
    /\ store' = store \union {e}
    /\ UNCHANGED <<token, actorKey, granted, requestVars, rereg, refused, actor, on,
                   serverVars, dropped, boundVars>>

----------------------------------------------------------------------------
(* ensureIdentity, without a token and before a refusal.                    *)

(* Mutant: every caller has a registration of its own. *)
JoinAlone(t, c) ==
    regs' = [regs EXCEPT ![t] = @ \union {[waiters |-> {c}, current |-> TRUE]}]

(* Callers share the registration that is on its way.                       *)
Join(t, c) ==
    LET shared == {r \in regs[t] : r.current}
        waiting == UNION {r.waiters : r \in shared}
    IN regs' = [regs EXCEPT ![t] =
            (@ \ shared) \union {[waiters |-> waiting \union {c}, current |-> TRUE]}]

(* What is left when r is over: whatever is on its way, the page forgets it. *)
Settled(t, r) == {[q EXCEPT !.current = FALSE] : q \in regs[t] \ {r}}

(* The events of S leave tab t's queue and the store with this fate, unless *)
(* another tab that had them too has stored them.                           *)
Finish(t, S, outcome) ==
    /\ queue' = [queue EXCEPT ![t] = @ \ S]
    /\ store' = store \ S
    /\ fate' = [e \in Event |-> IF e \in S /\ fate[e] # "stored" THEN outcome[e] ELSE fate[e]]

Discarded == [e \in Event |-> "discarded"]

(* The page loads: with a token it reconciles at once. *)
MountStarts(t) ==
    /\ mount[t] = "start"
    /\ \/ /\ token # None
          /\ mount' = [mount EXCEPT ![t] = "ready"]
          /\ UNCHANGED regs
       \/ /\ token = None /\ refused[t]
          /\ mount' = [mount EXCEPT ![t] = "over"]
          /\ UNCHANGED regs
       \/ /\ token = None /\ ~refused[t]
          /\ mount' = [mount EXCEPT ![t] = "registering"]
          /\ Join(t, "mount")
    /\ UNCHANGED <<storageVars, send, batch, presented, pageVars, serverVars, historyVars,
                   boundVars>>

(* The delivery loop takes a batch to the sender.                           *)
SendStarts(t) ==
    /\ Mounted(t) /\ send[t] = "idle" /\ queue[t] # {}
    /\ \/ /\ token # None
          /\ send' = [send EXCEPT ![t] = "ready"]
          /\ batch' = [batch EXCEPT ![t] = queue[t]]
          /\ UNCHANGED <<regs, queue, store, fate>>
       \/ /\ token = None /\ ~refused[t]
          /\ send' = [send EXCEPT ![t] = "registering"]
          /\ batch' = [batch EXCEPT ![t] = queue[t]]
          /\ Join(t, "send")
          /\ UNCHANGED <<queue, store, fate>>
       \/ /\ token = None /\ refused[t]
          /\ Finish(t, queue[t], Discarded)
          /\ UNCHANGED <<send, batch, regs>>
    /\ UNCHANGED <<token, actorKey, granted, mount, presented, rereg, refused, actor, on,
                   serverVars, stamp, dropped, boundVars>>

(* registerOnce: the account is made, and its token is stored over whatever *)
(* token is there.  Only the reconciliation adopts the account's id.        *)
Registers(t, r) ==
    /\ open
    /\ accounts' = accounts + 1
    /\ valid' = valid \union {accounts'}
    /\ token' = accounts'
    /\ refused' = [refused EXCEPT ![t] = FALSE]
    /\ regs' = [regs EXCEPT ![t] = Settled(t, r)]
    /\ IF "mount" \in r.waiters
       THEN /\ mount' = [mount EXCEPT ![t] = "ready"]
            /\ actor' = [actor EXCEPT ![t] = accounts']
            /\ actorKey' = accounts'
       ELSE UNCHANGED <<mount, actor, actorKey>>
    /\ send' = [send EXCEPT ![t] = IF "send" \in r.waiters THEN "ready" ELSE @]
    /\ UNCHANGED <<granted, store, batch, presented, rereg, on, queue, open, consented,
                   historyVars, boundVars>>

(* Mutant: the batch is sent with the token there is. *)
RegisterPendingSending(t, r) ==
    /\ registerFaults < MaxRegisterFaults
    /\ registerFaults' = registerFaults + 1
    /\ \/ UNCHANGED <<accounts, valid>>
       \/ open /\ accounts' = accounts + 1 /\ valid' = valid \union {accounts'}
    /\ regs' = [regs EXCEPT ![t] = Settled(t, r)]
    /\ mount' = [mount EXCEPT ![t] = IF "mount" \in r.waiters THEN "over" ELSE @]
    /\ send' = [send EXCEPT ![t] = IF "send" \in r.waiters THEN "ready" ELSE @]
    /\ UNCHANGED <<storageVars, batch, presented, pageVars, open, consented, historyVars,
                   rebuilds, reloads>>

(* Offline, a 429 or a 5xx, or an answer that is lost when the account is   *)
(* made already: the batch is kept, and the reconciliation is not tried     *)
(* again.                                                                   *)
RegisterPending(t, r) ==
    /\ registerFaults < MaxRegisterFaults
    /\ registerFaults' = registerFaults + 1
    /\ \/ UNCHANGED <<accounts, valid>>
       \/ open /\ accounts' = accounts + 1 /\ valid' = valid \union {accounts'}
    /\ regs' = [regs EXCEPT ![t] = Settled(t, r)]
    /\ mount' = [mount EXCEPT ![t] = IF "mount" \in r.waiters THEN "over" ELSE @]
    /\ send' = [send EXCEPT ![t] = IF "send" \in r.waiters THEN "idle" ELSE @]
    /\ batch' = [batch EXCEPT ![t] = IF "send" \in r.waiters THEN {} ELSE @]
    /\ UNCHANGED <<storageVars, presented, pageVars, open, consented, historyVars,
                   rebuilds, reloads>>

(* The server registers no one: that is remembered, and a batch that waited *)
(* for it is discarded.                                                     *)
RegisterRefused(t, r) ==
    /\ ~open
    /\ refused' = [refused EXCEPT ![t] = TRUE]
    /\ regs' = [regs EXCEPT ![t] = Settled(t, r)]
    /\ mount' = [mount EXCEPT ![t] = IF "mount" \in r.waiters THEN "over" ELSE @]
    /\ IF "send" \in r.waiters
       THEN /\ Finish(t, batch[t], Discarded)
            /\ send' = [send EXCEPT ![t] = "idle"]
            /\ batch' = [batch EXCEPT ![t] = {}]
       ELSE UNCHANGED <<queue, store, fate, send, batch>>
    /\ UNCHANGED <<token, actorKey, granted, presented, rereg, actor, on, serverVars,
                   stamp, dropped, boundVars>>

----------------------------------------------------------------------------
(* Requests made with the token of the moment.                              *)

AskMe(t) ==
    /\ mount[t] = "ready"
    /\ mount' = [mount EXCEPT ![t] = "asking"]
    /\ presented' = [presented EXCEPT ![t]["mount"] = token]
    /\ UNCHANGED <<storageVars, send, batch, regs, pageVars, serverVars, historyVars,
                   boundVars>>

(* Mutant: a 401 clears the token here, too, and the page keeps its id. *)
MeAnsweredClearing(t) ==
    LET account == presented[t]["mount"] IN
    /\ mount[t] = "asking"
    /\ mount' = [mount EXCEPT ![t] = "over"]
    /\ presented' = [presented EXCEPT ![t]["mount"] = None]
    /\ IF account \in valid
       THEN /\ actor' = [actor EXCEPT ![t] = account]
            /\ actorKey' = account
            /\ on' = [on EXCEPT ![t] = @ \/ account \in consented]
            /\ granted' = (granted \/ account \in consented)
            /\ UNCHANGED token
       ELSE token' = None /\ UNCHANGED <<actor, actorKey, on, granted>>
    /\ UNCHANGED <<store, send, batch, regs, rereg, refused, queue, serverVars,
                   historyVars, boundVars>>

(* GET /v1/consent/me: the page adopts the id it is known by.  A 401 leaves *)
(* everything as it is.                                                     *)
MeAnswered(t) ==
    LET account == presented[t]["mount"] IN
    /\ mount[t] = "asking"
    /\ mount' = [mount EXCEPT ![t] = "over"]
    /\ presented' = [presented EXCEPT ![t]["mount"] = None]
    /\ IF account \in valid
       THEN /\ actor' = [actor EXCEPT ![t] = account]
            /\ actorKey' = account
            /\ on' = [on EXCEPT ![t] = @ \/ account \in consented]
            /\ granted' = (granted \/ account \in consented)
       ELSE UNCHANGED <<actor, actorKey, on, granted>>
    /\ UNCHANGED <<token, store, send, batch, regs, rereg, refused, queue, serverVars,
                   historyVars, boundVars>>

Post(t) ==
    /\ send[t] = "ready"
    /\ send' = [send EXCEPT ![t] = "posted"]
    /\ presented' = [presented EXCEPT ![t]["send"] = token]
    /\ UNCHANGED <<storageVars, mount, batch, regs, pageVars, serverVars, historyVars,
                   boundVars>>

(* What POST /v1/events does with each event it is sent: someone else's is  *)
(* refused before consent is looked at.                                     *)
Ingest(account) ==
    [e \in Event |->
        IF stamp[e] # account THEN "refused"
        ELSE IF account \notin consented THEN "barred" ELSE "stored"]

(* Accepted or not, every event of the batch leaves the queue.  Counted are *)
(* only those of a batch that is "barred" as a whole.                       *)
PostAnswered(t) ==
    LET account == presented[t]["send"]
        outcome == Ingest(account)
    IN
    /\ send[t] = "posted" /\ account \in valid
    /\ send' = [send EXCEPT ![t] = "idle"]
    /\ batch' = [batch EXCEPT ![t] = {}]
    /\ presented' = [presented EXCEPT ![t]["send"] = None]
    /\ IF \E e \in batch[t] : outcome[e] = "refused"
       THEN Finish(t, batch[t],
                [e \in Event |-> IF outcome[e] = "barred" THEN "refused" ELSE outcome[e]])
       ELSE Finish(t, batch[t], outcome)
    /\ UNCHANGED <<token, actorKey, granted, mount, regs, rereg, refused, actor, on,
                   serverVars, stamp, dropped, boundVars>>

MayReregister(t) == rereg[t] < MaxReregistrations

(* Mutants: the batch is discarded with the token; the loop retries for     *)
(* ever with the token it has.                                              *)
PostUnauthorizedDiscarding(t) ==
    /\ send[t] = "posted" /\ presented[t]["send"] \notin valid
    /\ send' = [send EXCEPT ![t] = "idle"]
    /\ batch' = [batch EXCEPT ![t] = {}]
    /\ presented' = [presented EXCEPT ![t]["send"] = None]
    /\ Finish(t, batch[t], Discarded)
    /\ UNCHANGED <<token, actorKey, granted, mount, regs, rereg, refused, actor, on,
                   serverVars, stamp, dropped, boundVars>>
PostUnauthorizedRetrying(t) ==
    /\ send[t] = "posted" /\ presented[t]["send"] \notin valid
    /\ send' = [send EXCEPT ![t] = "idle"]
    /\ batch' = [batch EXCEPT ![t] = {}]
    /\ presented' = [presented EXCEPT ![t]["send"] = None]
    /\ UNCHANGED <<storageVars, mount, regs, pageVars, serverVars, historyVars, boundVars>>

(* A 401.  invalidateIdentity drops whatever token is stored now, and the   *)
(* batch is kept; when it has done so often enough, the batch is discarded  *)
(* and the token stays.                                                     *)
PostUnauthorized(t) ==
    /\ send[t] = "posted" /\ presented[t]["send"] \notin valid
    /\ send' = [send EXCEPT ![t] = "idle"]
    /\ batch' = [batch EXCEPT ![t] = {}]
    /\ presented' = [presented EXCEPT ![t]["send"] = None]
    /\ IF MayReregister(t)
       THEN /\ rereg' = [rereg EXCEPT ![t] = @ + 1]
            /\ token' = None
            /\ refused' = [refused EXCEPT ![t] = FALSE]
            /\ regs' = [regs EXCEPT ![t] = {[q EXCEPT !.current = FALSE] : q \in @}]
            /\ dropped' = dropped + 1
            /\ UNCHANGED <<queue, store, fate>>
       ELSE /\ refused' = [refused EXCEPT ![t] = TRUE]
            /\ Finish(t, batch[t], Discarded)
            /\ UNCHANGED <<rereg, token, regs, dropped>>
    /\ UNCHANGED <<actorKey, granted, mount, actor, on, serverVars, stamp, boundVars>>

----------------------------------------------------------------------------
(* The page dies, perhaps after the server made the account it asked for,   *)
(* and the tab opens it again, with the backlog of every tab.               *)
Reload(t) ==
    /\ reloads < MaxReloads
    /\ reloads' = reloads + 1
    /\ mount' = [mount EXCEPT ![t] = "start"] /\ send' = [send EXCEPT ![t] = "idle"]
    /\ batch' = [batch EXCEPT ![t] = {}] /\ regs' = [regs EXCEPT ![t] = {}]
    /\ presented' = [presented EXCEPT ![t] = [c \in Caller |-> None]]
    /\ rereg' = [rereg EXCEPT ![t] = 0] /\ refused' = [refused EXCEPT ![t] = FALSE]
    /\ actor' = [actor EXCEPT ![t] = actorKey] /\ on' = [on EXCEPT ![t] = granted]
    /\ queue' = [queue EXCEPT ![t] = store]
    /\ \E n \in 0..(IF open THEN Cardinality(regs[t]) ELSE 0) :
            /\ accounts' = accounts + n
            /\ valid' = valid \union (accounts + 1)..(accounts + n)
    /\ UNCHANGED <<storageVars, open, consented, historyVars, rebuilds, registerFaults>>

(* The server's database is made anew.                                      *)
Rebuild ==
    /\ rebuilds < MaxRebuilds
    /\ rebuilds' = rebuilds + 1
    /\ valid' = {} /\ consented' = {}
    /\ UNCHANGED <<storageVars, requestVars, pageVars, open, accounts, historyVars,
                   registerFaults, reloads>>

----------------------------------------------------------------------------
Registering(t) ==
    \E r \in regs[t] : Registers(t, r) \/ RegisterPending(t, r) \/ RegisterRefused(t, r)

Sending(t) == SendStarts(t) \/ Post(t) \/ PostAnswered(t) \/ PostUnauthorized(t)

Next ==
    \/ \E t \in Tabs :
          \/ Grant(t) \/ (\E e \in Event : HandOver(t, e))
          \/ MountStarts(t) \/ AskMe(t) \/ MeAnswered(t)
          \/ Registering(t) \/ Sending(t)
          \/ Reload(t)
    \/ Rebuild

Spec == Init /\ [][Next]_vars

(* Effects run, requests are answered, and the delivery loop is started by the queue's   *)
(* timers and by the five second tick.                                      *)
Fairness ==
    \A t \in Tabs :
        WF_vars(MountStarts(t)) /\ WF_vars(Registering(t)) /\ WF_vars(Sending(t))

FairSpec == Spec /\ Fairness

----------------------------------------------------------------------------
(* Properties.                                                              *)

(* Accounts are made for want of a token only: per tab, one at first and    *)
(* one for each token dropped since, and those that a failed registration   *)
(* or a page's death left behind.                                           *)
AccountsAreBounded ==
    accounts <= Cardinality(Tabs) * (1 + dropped) + registerFaults + reloads

(* While the database stands no tab finds its token dead, whichever of them  *)
(* registered, failed to or died meanwhile, and so none drops a good one or *)
(* discards for it what it captured.  A rebuild may set tabs to dropping    *)
(* each other's new tokens, but not for ever.                               *)
DropsAreBounded ==
    /\ rebuilds = 0 =>
            dropped = 0 /\ (open => \A e \in Event : fate[e] # "discarded")
    /\ dropped <= MaxReregistrations * (Cardinality(Tabs) + reloads)

(* On a server that registers people, a page with the browser to itself      *)
(* survives as many dead tokens as it is meant to without discarding        *)
(* anything.  Two pages do not: each may drop the token the other has just  *)
(* registered, and both use up what they may replace on one rebuild.        *)
DeadTokensDiscardNothing ==
    open /\ rebuilds <= MaxReregistrations =>
        \A e \in Event : fate[e] # "discarded"

(* Until a token is dropped, a page with the browser to itself is refused    *)
(* nothing but what it captured before it had an id and what was sent along *)
(* with that: the id it stamps with is that of the token it sends with.     *)
OnlyPlaceholdersAreRefused ==
    dropped = 0 /\ (\A e \in Event : fate[e] # "unborn" => stamp[e] # None) =>
        \A e \in Event : fate[e] # "refused"

(* No event waits in the queue for ever: not behind a dead token, a server  *)
(* that refuses to register anyone, or a registration that failed.          *)
QueueEmpties ==
    \A e \in Event, t \in Tabs : e \in queue[t] ~> e \notin queue[t]

(* DECISIONS.md:489 says of a batch sent with a dead token that "The events *)
(* are fine; only the credential is stale", and DECISIONS.md:488 of one     *)
(* sent before there is an account that "the backlog survives": the server  *)
(* does not refuse, under a 200 and uncounted, what it is sent for them.    *)
BacklogSurvives == \A e \in Event : fate[e] # "refused"
=============================================================================
