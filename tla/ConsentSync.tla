----------------------------- MODULE ConsentSync -----------------------------
(***************************************************************************)
(* Who decides whether capture is on.  The user's choice is kept in four    *)
(* places: the mode and the pause of each tab's capture controller          *)
(* (capture.ts), the copy in localStorage that the tabs share               *)
(* (useCapture.ts), the consent rows of the server (consent.rs), and the    *)
(* answer of GET /v1/consent/me that each page load reconciles with.  A     *)
(* choice is posted to the server and not waited for: posts may overtake    *)
(* each other, and one that is lost is not sent again.                      *)
(*                                                                          *)
(* There is one account; how it is made and lost is Identity's.  What       *)
(* happens to a recorded event is CapturePipeline's.                        *)
(***************************************************************************)
EXTENDS Naturals, Sequences

CONSTANTS
    Tabs,           \* tabs of one browser
    MaxChoices,     \* bound: answers the user gives to the consent question
    MaxReloads      \* bound: page loads after the first ones, over all tabs

ASSUME ConsentAssumption ==
    /\ Tabs # {}
    /\ MaxChoices \in Nat
    /\ MaxReloads \in Nat

VARIABLES
    open,       \* the tabs with a page
    (* Per tab, lost with the page. *)
    mode,       \* the controller's privacy mode
    paused,     \* the controller's pause
    selection,  \* whether a selection change waits for its timer
    asked,      \* the state of the page's GET /v1/consent/me
    (* Shared by the tabs. *)
    local,      \* the consent record in localStorage
    posts,      \* POST /v1/consent requests on their way
    (* The server. *)
    rows,       \* the account's consent rows, in the order of their ids
    (* What happened, for the properties only. *)
    choices,    \* the user's answers, in order
    latest,     \* per tab, the event recorded last, and the state it says of
    unaware,    \* open tabs past which another one has written the record
    (* Bounds. *)
    reloads

tabVars == <<open, mode, paused, selection, asked>>
historyVars == <<choices, latest, unaware>>
vars == <<tabVars, local, posts, rows, historyVars, reloads>>

----------------------------------------------------------------------------
Mode == {"off", "structural", "full"}

(* The page asks once: the request is out, or answered with the mode of the *)
(* latest row ("null" without one) and about to be handled, or over.        *)
Answer == Mode \union {"null"}
Asked == Answer \union {"sent", "over"}

State(m, p) == IF m = "off" THEN "off" ELSE IF p THEN "paused" ELSE "capturing"

(* Kinds of event: what the user does to the workbook, the sampled          *)
(* selection changes, and the marks the controller makes itself.            *)
Mark == {"capture.pause", "capture.resume", "consent.granted", "consent.revoked"}
Kind == {"action", "nav.select", "none"} \union Mark
Event == [kind : Kind, mode : Mode, state : {"off", "paused", "capturing"}]
NoEvent == [kind |-> "none", mode |-> "off", state |-> "off"]

TypeOK ==
    /\ open \in SUBSET Tabs /\ unaware \in SUBSET open
    /\ mode \in [Tabs -> Mode] /\ paused \in [Tabs -> BOOLEAN]
    /\ selection \in [Tabs -> BOOLEAN] /\ asked \in [Tabs -> Asked]
    /\ local \in Mode \union {"none"}
    /\ posts \in SUBSET [number : 1..MaxChoices, mode : Mode]
    /\ rows \in Seq([mode : Mode, revoked : BOOLEAN])
    /\ choices \in Seq(Mode) /\ Len(choices) <= MaxChoices
    /\ latest \in [Tabs -> Event]
    /\ reloads \in 0..MaxReloads

(* A browser that has not been here before opens its tabs. *)
Init ==
    /\ open = Tabs /\ unaware = {}
    /\ mode = [t \in Tabs |-> "off"] /\ paused = [t \in Tabs |-> FALSE]
    /\ selection = [t \in Tabs |-> FALSE] /\ asked = [t \in Tabs |-> "sent"]
    /\ local = "none" /\ posts = {} /\ rows = <<>>
    /\ choices = <<>> /\ latest = [t \in Tabs |-> NoEvent]
    /\ reloads = 0

----------------------------------------------------------------------------
(* CaptureController.                                                       *)

Capturing(t) == State(mode[t], paused[t]) = "capturing"

(* The controller records an event of this kind while in mode m, paused or  *)
(* not.  It looks at the mode only.                                         *)
Recorded(t, kind, m, p) ==
    latest' = IF m = "off" THEN latest
              ELSE [latest EXCEPT ![t] = [kind |-> kind, mode |-> m, state |-> State(m, p)]]

(* Mutant: every grant clears a pause. *)
SetModeResuming(t, m) ==
    IF m = mode[t] THEN UNCHANGED <<mode, paused, latest>>
    ELSE /\ mode' = [mode EXCEPT ![t] = m]
         /\ IF m = "off"
            THEN Recorded(t, "consent.revoked", mode[t], paused[t]) /\ UNCHANGED paused
            ELSE /\ paused' = [paused EXCEPT ![t] = FALSE]
                 /\ Recorded(t, "consent.granted", m, FALSE)

(* A withdrawal is recorded under the mode it ends, a grant under the mode  *)
(* it begins.  A grant after "off" clears a pause; another one keeps it.    *)
SetMode(t, m) ==
    IF m = mode[t] THEN UNCHANGED <<mode, paused, latest>>
    ELSE /\ mode' = [mode EXCEPT ![t] = m]
         /\ IF m = "off"
            THEN Recorded(t, "consent.revoked", mode[t], paused[t]) /\ UNCHANGED paused
            ELSE /\ paused' = [paused EXCEPT ![t] = mode[t] # "off" /\ @]
                 /\ Recorded(t, "consent.granted", m, paused'[t])

Pause(t) ==
    /\ Capturing(t)
    /\ Recorded(t, "capture.pause", mode[t], FALSE)
    /\ paused' = [paused EXCEPT ![t] = TRUE]
    /\ UNCHANGED <<open, mode, selection, asked, local, posts, rows, choices, unaware, reloads>>

Resume(t) ==
    /\ mode[t] # "off" /\ paused[t]
    /\ paused' = [paused EXCEPT ![t] = FALSE]
    /\ Recorded(t, "capture.resume", mode[t], FALSE)
    /\ UNCHANGED <<open, mode, selection, asked, local, posts, rows, choices, unaware, reloads>>

(* The user works on the sheet, or a part of the shell reports what he did. *)
Act(t) ==
    /\ Capturing(t)
    /\ Recorded(t, "action", mode[t], paused[t])
    /\ UNCHANGED <<tabVars, local, posts, rows, choices, unaware, reloads>>

(* The selection moves: recorded at once, or, when there were many of late, *)
(* by a timer.  A selection that waits is replaced by the next one.         *)
NoteSelection(t) ==
    /\ Capturing(t)
    /\ \/ /\ Recorded(t, "nav.select", mode[t], paused[t])
          /\ selection' = [selection EXCEPT ![t] = FALSE]
       \/ /\ selection' = [selection EXCEPT ![t] = TRUE]
          /\ UNCHANGED latest
    /\ UNCHANGED <<open, mode, paused, asked, local, posts, rows, choices, unaware, reloads>>

(* Capture may have stopped since the timer was set. *)
SelectionTimerFires(t) ==
    /\ selection[t]
    /\ selection' = [selection EXCEPT ![t] = FALSE]
    /\ IF Capturing(t) THEN Recorded(t, "nav.select", mode[t], paused[t])
       ELSE UNCHANGED latest
    /\ UNCHANGED <<open, mode, paused, asked, local, posts, rows, choices, unaware, reloads>>

----------------------------------------------------------------------------
(* The consent notice, and the reconciliation with the server's record.     *)

(* A tab writes the record that the tabs share.  No other tab listens.      *)
Store(t, m) ==
    /\ local' = m
    /\ unaware' = open \ {t}

(* The user answers the notice, or changes the mode: the choice is stored,  *)
(* takes effect, and is posted.                                             *)
Choose(t, m) ==
    /\ t \in open /\ Len(choices) < MaxChoices
    /\ choices' = Append(choices, m)
    /\ Store(t, m)
    /\ SetMode(t, m)
    /\ posts' = posts \union {[number |-> Len(choices) + 1, mode |-> m]}
    /\ UNCHANGED <<open, selection, asked, rows, reloads>>

(* Mutants: a null answer is taken for a structural grant; the answer is    *)
(* not stored.                                                              *)
ReconcileInventing(t) ==
    /\ asked[t] \in Answer
    /\ asked' = [asked EXCEPT ![t] = "over"]
    /\ LET m == IF asked[t] = "null" THEN "structural" ELSE asked[t] IN
       Store(t, m) /\ SetMode(t, m)
    /\ UNCHANGED <<open, selection, posts, rows, choices, reloads>>
ReconcileWithoutStoring(t) ==
    /\ asked[t] \in Answer
    /\ asked' = [asked EXCEPT ![t] = "over"]
    /\ IF asked[t] = "null" THEN UNCHANGED <<mode, paused, latest>>
       ELSE SetMode(t, asked[t])
    /\ UNCHANGED <<open, selection, local, posts, rows, choices, unaware, reloads>>

(* The answer of GET /v1/consent/me arrives.  The server's record wins over *)
(* whatever the user chose while it was on its way.                         *)
Reconcile(t) ==
    /\ asked[t] \in Answer
    /\ asked' = [asked EXCEPT ![t] = "over"]
    /\ IF asked[t] = "null" THEN UNCHANGED <<mode, paused, local, latest, unaware>>
       ELSE Store(t, asked[t]) /\ SetMode(t, asked[t])
    /\ UNCHANGED <<open, selection, posts, rows, choices, reloads>>

(* No account yet, or the request or its answer is lost: the page does not  *)
(* ask again.                                                               *)
ReconcileFails(t) ==
    /\ t \in open /\ asked[t] # "over"
    /\ asked' = [asked EXCEPT ![t] = "over"]
    /\ UNCHANGED <<open, mode, paused, selection, local, posts, rows, historyVars, reloads>>

(* The page ends: its tab is closed, or on the way to the next page.  What  *)
(* it stored stays, and what it posted may still arrive.                    *)
Close(t) ==
    /\ t \in open
    /\ open' = open \ {t} /\ unaware' = unaware \ {t}
    /\ mode' = [mode EXCEPT ![t] = "off"]
    /\ paused' = [paused EXCEPT ![t] = FALSE]
    /\ selection' = [selection EXCEPT ![t] = FALSE]
    /\ asked' = [asked EXCEPT ![t] = "over"]
    /\ latest' = [latest EXCEPT ![t] = NoEvent]
    /\ UNCHANGED <<local, posts, rows, choices, reloads>>

Stored == IF local = "none" THEN "off" ELSE local

(* The tab, or another in its place, loads the page: it begins in the mode  *)
(* that is stored, and asks the server for its record.                      *)
Open(t) ==
    /\ t \notin open /\ reloads < MaxReloads
    /\ reloads' = reloads + 1
    /\ open' = open \union {t}
    /\ mode' = [mode EXCEPT ![t] = Stored]
    /\ asked' = [asked EXCEPT ![t] = "sent"]
    /\ UNCHANGED <<paused, selection, local, posts, rows, historyVars>>

----------------------------------------------------------------------------
(* The server.                                                              *)

Me == IF rows = <<>> THEN "null" ELSE rows[Len(rows)].mode

AnswerMe(t) ==
    /\ asked[t] = "sent"
    /\ asked' = [asked EXCEPT ![t] = Me]
    /\ UNCHANGED <<open, mode, paused, selection, local, posts, rows, historyVars, reloads>>

(* Mutant: a withdrawal leaves the grants before it open. *)
RecordConsentOnly(m) == rows' = Append(rows, [mode |-> m, revoked |-> m = "off"])

(* A withdrawal revokes what was granted, and its own row says so too. *)
RecordConsent(m) ==
    LET before == IF m = "off" THEN [i \in DOMAIN rows |-> [rows[i] EXCEPT !.revoked = TRUE]]
                  ELSE rows
    IN rows' = Append(before, [mode |-> m, revoked |-> m = "off"])

PostArrives(p) ==
    /\ posts' = posts \ {p}
    /\ RecordConsent(p.mode)
    /\ UNCHANGED <<tabVars, local, historyVars, reloads>>

PostIsLost(p) ==
    /\ posts' = posts \ {p}
    /\ UNCHANGED <<tabVars, local, rows, historyVars, reloads>>

----------------------------------------------------------------------------
Next ==
    \/ \E t \in Tabs :
          \/ Pause(t) \/ Resume(t) \/ Act(t) \/ NoteSelection(t) \/ SelectionTimerFires(t)
          \/ (\E m \in Mode : Choose(t, m))
          \/ AnswerMe(t) \/ Reconcile(t) \/ ReconcileFails(t)
          \/ Close(t) \/ Open(t)
    \/ \E p \in posts : PostArrives(p) \/ PostIsLost(p)

Spec == Init /\ [][Next]_vars

----------------------------------------------------------------------------
(* Properties.                                                              *)

Chosen == {choices[i] : i \in DOMAIN choices}

(* Nothing is recorded, and no consent is on record at the server, in a     *)
(* mode the user never chose: not after a null answer, nor in another tab,  *)
(* nor after a reload.                                                      *)
OnlyChosenModes ==
    /\ \A t \in Tabs : latest[t] # NoEvent => latest[t].mode \in Chosen
    /\ \A i \in DOMAIN rows : rows[i].mode \in Chosen
    /\ \A t \in Tabs : mode[t] # "off" => mode[t] \in Chosen

(* The two halves of the server's gate agree: a row is revoked if it or a   *)
(* later one is a withdrawal, so no grant survives one.                     *)
RowsAgree ==
    \A i \in DOMAIN rows :
        rows[i].revoked <=> \E j \in DOMAIN rows : j >= i /\ rows[j].mode = "off"

(* A page is in the mode of the record in localStorage, with which the next *)
(* page will begin: after its own choices, and those of the server, in any  *)
(* order with page loads.  Only a page past which another tab has written   *)
(* is in a mode of its own; the record outlives the tab that wrote it.      *)
TabsFollowStored == \A t \in open \ unaware : mode[t] = Stored

(* An event after which the controller is on and paused. *)
Pausing(e) == e.kind = "capture.pause" \/ (e.kind = "consent.granted" /\ e.state = "paused")

(* What may follow the event e in the log of a page: after a withdrawal     *)
(* only a grant, which clears a pause; after a pause only the resumption, a *)
(* withdrawal or a change of mode that keeps it; and a resumption only      *)
(* after a pause.                                                           *)
MayFollow(e, next) ==
    /\ e.kind = "consent.revoked" => next.kind = "consent.granted" /\ next.state = "capturing"
    /\ Pausing(e) =>
          \/ next.kind = "capture.resume"
          \/ next.kind \in {"consent.granted", "consent.revoked"} /\ next.state = "paused"
    /\ next.kind = "capture.resume" => Pausing(e)

(* The log explains its own gaps: what stops the recording of events, and   *)
(* what lets it go on, is in the log of the page, over pauses, changes of   *)
(* the mode, withdrawals, late timers and late answers of the server.       *)
GapsAreExplained ==
    [][\A t \in Tabs :
        latest'[t] \notin {NoEvent, latest[t]} => MayFollow(latest[t], latest'[t])]_vars

(* docs/PRIVACY.md:18, "Revoking stops capture immediately": when the user's *)
(* latest answer is "off", no tab captures.                                 *)
RevocationSticks ==
    choices # <<>> /\ choices[Len(choices)] = "off" =>
        \A t \in Tabs : mode[t] = "off"
=============================================================================
