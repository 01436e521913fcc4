--------------------------- MODULE ConsentSync_proofs ---------------------------
(***************************************************************************)
(* What consent promises for any number of tabs, choices and page loads:    *)
(* nothing is recorded in a mode nobody chose, the server's rows agree, a   *)
(* page is in the stored mode unless another tab wrote it, and the log      *)
(* explains its gaps.                                                       *)
(*                                                                          *)
(* Each promise is strengthened by what the next step needs to know of the  *)
(* places the choice is kept in, and is inductive over the type invariant.  *)
(***************************************************************************)
EXTENDS ConsentSync, SequenceTheorems, TLAPS

----------------------------------------------------------------------------
(* Lemmas about the operators the actions are made of.                      *)

(* Changing the mode sets it, and records at most one event, in a mode that *)
(* is in force before or after: a withdrawal, or a grant.                   *)
LEMMA SetModeSets ==
    ASSUME TypeOK, NEW t \in Tabs, NEW m \in Mode, SetMode(t, m)
    PROVE  /\ mode' = [mode EXCEPT ![t] = m]
           /\ paused' \in [Tabs -> BOOLEAN]
           /\ \A s \in Tabs : s # t => paused'[s] = paused[s]
           /\ latest' \in [Tabs -> Event]
           /\ \A s \in Tabs : s # t => latest'[s] = latest[s]
           /\ m # mode[t] =>
                /\ latest'[t].mode \in {m, mode[t]} \ {"off"}
                /\ latest'[t].kind = IF m = "off" THEN "consent.revoked" ELSE "consent.granted"
                /\ paused'[t] = IF m = "off" THEN paused[t] ELSE mode[t] # "off" /\ paused[t]
                /\ latest'[t].state = IF m = "off" THEN State(mode[t], paused[t]) ELSE State(m, paused'[t])
           /\ m = mode[t] => UNCHANGED <<paused, latest>>
<1>1. /\ mode \in [Tabs -> Mode] /\ paused \in [Tabs -> BOOLEAN] /\ latest \in [Tabs -> Event]
  BY DEF TypeOK
<1>2. CASE m = mode[t]
  <2>1. UNCHANGED <<mode, paused, latest>>
    BY <1>2 DEF SetMode
  <2> QED
    BY <1>1, <1>2, <2>1
<1>3. CASE m # mode[t] /\ m = "off"
  <2>1. /\ mode' = [mode EXCEPT ![t] = m] /\ paused' = paused
        /\ Recorded(t, "consent.revoked", mode[t], paused[t])
    BY <1>3 DEF SetMode
  <2>2. mode[t] \in Mode /\ mode[t] # "off" /\ State(mode[t], paused[t]) \in {"off", "paused", "capturing"}
    BY <1>1, <1>3 DEF State
  <2>3. latest' = [latest EXCEPT ![t] =
                    [kind |-> "consent.revoked", mode |-> mode[t], state |-> State(mode[t], paused[t])]]
    BY <2>1, <2>2 DEF Recorded
  <2>4. latest'[t] \in Event /\ latest'[t].mode = mode[t] /\ latest'[t].kind = "consent.revoked"
        /\ latest'[t].state = State(mode[t], paused[t])
    BY <1>1, <2>2, <2>3 DEF Event, Kind, Mark
  <2> QED
    BY <1>1, <1>3, <2>1, <2>2, <2>3, <2>4
<1>4. CASE m # mode[t] /\ m # "off"
  <2>1. /\ mode' = [mode EXCEPT ![t] = m]
        /\ paused' = [paused EXCEPT ![t] = mode[t] # "off" /\ paused[t]]
        /\ Recorded(t, "consent.granted", m, paused'[t])
    BY <1>4 DEF SetMode
  <2>2. paused' \in [Tabs -> BOOLEAN] /\ State(m, paused'[t]) \in {"off", "paused", "capturing"}
    BY <1>1, <2>1 DEF State
  <2>3. latest' = [latest EXCEPT ![t] =
                    [kind |-> "consent.granted", mode |-> m, state |-> State(m, paused'[t])]]
    BY <1>4, <2>1 DEF Recorded
  <2>4. latest'[t] \in Event /\ latest'[t].mode = m /\ latest'[t].kind = "consent.granted"
        /\ latest'[t].state = State(m, paused'[t])
    BY <1>1, <2>2, <2>3 DEF Event, Kind, Mark
  <2> QED
    BY <1>1, <1>4, <2>1, <2>2, <2>3, <2>4
<1> QED
  BY <1>2, <1>3, <1>4

(* In particular, what it changes keeps its type.                           *)
LEMMA SetModeIsTyped ==
    ASSUME TypeOK, NEW t \in Tabs, NEW m \in Mode, SetMode(t, m)
    PROVE  mode' \in [Tabs -> Mode] /\ paused' \in [Tabs -> BOOLEAN] /\ latest' \in [Tabs -> Event]
<1>1. mode \in [Tabs -> Mode]
  BY DEF TypeOK
<1>2. mode' = [mode EXCEPT ![t] = m] /\ paused' \in [Tabs -> BOOLEAN] /\ latest' \in [Tabs -> Event]
  BY SetModeSets
<1> QED
  BY <1>1, <1>2

(* Recording an event keeps the record of the others. *)
LEMMA RecordedIsTyped ==
    ASSUME TypeOK, NEW t \in Tabs, NEW kind \in Kind, NEW p \in BOOLEAN, Recorded(t, kind, mode[t], p)
    PROVE  /\ latest' \in [Tabs -> Event]
           /\ \A s \in Tabs : s # t => latest'[s] = latest[s]
           /\ latest'[t] = IF mode[t] = "off" THEN latest[t]
                           ELSE [kind |-> kind, mode |-> mode[t], state |-> State(mode[t], p)]
<1>1. latest \in [Tabs -> Event] /\ mode[t] \in Mode
  BY DEF TypeOK
<1>2. [kind |-> kind, mode |-> mode[t], state |-> State(mode[t], p)] \in Event
  BY <1>1 DEF Event, State
<1> QED
  BY <1>1, <1>2 DEF Recorded

(* A row is added, and the rows before it keep their mode; a withdrawal     *)
(* revokes them all.                                                        *)
LEMMA ConsentIsAdded ==
    ASSUME TypeOK, NEW m \in Mode, RecordConsent(m)
    PROVE  /\ rows' \in Seq([mode : Mode, revoked : BOOLEAN])
           /\ Len(rows') = Len(rows) + 1
           /\ \A i \in 1..Len(rows) :
                /\ rows'[i].mode = rows[i].mode
                /\ rows'[i].revoked <=> (rows[i].revoked \/ m = "off")
           /\ rows'[Len(rows) + 1] = [mode |-> m, revoked |-> m = "off"]
<1> DEFINE Row == [mode : Mode, revoked : BOOLEAN]
           new == [mode |-> m, revoked |-> m = "off"]
           closed == [i \in 1..Len(rows) |-> [rows[i] EXCEPT !.revoked = TRUE]]
<1>1. rows \in Seq(Row) /\ Len(rows) \in Nat /\ DOMAIN rows = 1..Len(rows)
  BY DEF TypeOK
<1>2. new \in Row
  OBVIOUS
<1>3. CASE m # "off"
  <2>1. rows' = Append(rows, new)
    BY <1>3 DEF RecordConsent
  <2>2. \A i \in 1..Len(rows) : rows[i] \in Row
    BY <1>1, ElementOfSeq
  <2> HIDE DEF Row, new
  <2>3. rows' \in Seq(Row) /\ Len(rows') = Len(rows) + 1 /\ rows'[Len(rows) + 1] = new
        /\ \A i \in 1..Len(rows) : rows'[i] = rows[i]
    BY <1>1, <1>2, <2>1
  <2> QED
    BY <1>3, <2>2, <2>3 DEF Row, new
<1>4. CASE m = "off"
  <2>1. rows' = Append(closed, new)
    BY <1>1, <1>4 DEF RecordConsent
  <2>2. \A i \in 1..Len(rows) : rows[i] \in Row
    BY <1>1, ElementOfSeq
  <2>3. \A i \in 1..Len(rows) :
            closed[i] \in Row /\ closed[i].mode = rows[i].mode /\ closed[i].revoked = TRUE
    BY <2>2
  <2>4. closed \in [1..Len(rows) -> Row]
    BY <2>3
  <2> HIDE DEF Row, new, closed
  <2>5. closed \in Seq(Row) /\ Len(closed) = Len(rows)
    BY <1>1, <2>4, SeqDef, LenProperties
  <2>6. rows' \in Seq(Row) /\ Len(rows') = Len(rows) + 1 /\ rows'[Len(rows) + 1] = new
        /\ \A i \in 1..Len(rows) : rows'[i] = closed[i]
    BY <1>1, <1>2, <2>1, <2>5
  <2>7. \A i \in 1..Len(rows) : rows'[i].mode = rows[i].mode /\ rows'[i].revoked = TRUE
    BY <2>3, <2>6
  <2> QED
    BY <1>4, <2>2, <2>6, <2>7 DEF Row, new
<1> QED
  BY <1>3, <1>4

----------------------------------------------------------------------------
(* Type correctness.                                                        *)

(* The types hold at first.                                                 *)
LEMMA TypeInit == Init => TypeOK
<1> SUFFICES ASSUME Init PROVE TypeOK
  OBVIOUS
<1>1. NoEvent \in Event
  BY DEF NoEvent, Event, Kind, Mode
<1>2. <<>> \in Seq(Mode) /\ <<>> \in Seq([mode : Mode, revoked : BOOLEAN]) /\ Len(<<>>) = 0
  OBVIOUS
<1> QED
  BY <1>1, <1>2, ConsentAssumption DEF Init, TypeOK, Mode, Asked, Answer

(* Every action keeps the types.                                            *)
LEMMA TypeStep == TypeOK /\ [Next]_vars => TypeOK'
<1> SUFFICES ASSUME TypeOK, [Next]_vars PROVE TypeOK'
  OBVIOUS
<1> USE ConsentAssumption
<1>1. ASSUME NEW t \in Tabs, Pause(t) PROVE TypeOK'
  <2>1. latest' \in [Tabs -> Event]
    BY <1>1, RecordedIsTyped DEF Pause, Kind, Mark
  <2> QED
    BY <1>1, <2>1 DEF Pause, TypeOK
<1>2. ASSUME NEW t \in Tabs, Resume(t) PROVE TypeOK'
  <2>1. latest' \in [Tabs -> Event]
    BY <1>2, RecordedIsTyped DEF Resume, Kind, Mark
  <2> QED
    BY <1>2, <2>1 DEF Resume, TypeOK
<1>3. ASSUME NEW t \in Tabs, Act(t) PROVE TypeOK'
  <2>1. paused[t] \in BOOLEAN
    BY DEF TypeOK
  <2>2. latest' \in [Tabs -> Event]
    BY <1>3, <2>1, RecordedIsTyped DEF Act, Kind
  <2> QED
    BY <1>3, <2>2 DEF Act, TypeOK, tabVars
<1>4. ASSUME NEW t \in Tabs, NoteSelection(t) \/ SelectionTimerFires(t) PROVE TypeOK'
  <2>1. paused[t] \in BOOLEAN
    BY DEF TypeOK
  <2>2. "nav.select" \in Kind
    BY DEF Kind
  <2>3. latest' = latest \/ Recorded(t, "nav.select", mode[t], paused[t])
    BY <1>4 DEF NoteSelection, SelectionTimerFires
  <2>4. latest' \in [Tabs -> Event]
    BY <2>1, <2>2, <2>3, RecordedIsTyped DEF TypeOK
  <2> QED
    BY <1>4, <2>4 DEF NoteSelection, SelectionTimerFires, TypeOK
<1>5. ASSUME NEW t \in Tabs, NEW m \in Mode, Choose(t, m) PROVE TypeOK'
  <2>1. SetMode(t, m)
    BY <1>5 DEF Choose
  <2>1a. local' = m /\ unaware' \in SUBSET open
    BY <1>5 DEF Choose, Store
  <2>2a. mode' \in [Tabs -> Mode] /\ paused' \in [Tabs -> BOOLEAN] /\ latest' \in [Tabs -> Event]
    BY <2>1, SetModeIsTyped
  <2>2. choices' \in Seq(Mode) /\ Len(choices') = Len(choices) + 1 /\ Len(choices') <= MaxChoices
    BY <1>5 DEF Choose, TypeOK
  <2>3. posts' \in SUBSET [number : 1..MaxChoices, mode : Mode]
    BY <1>5, <2>2 DEF Choose, TypeOK
  <2> QED
    BY <1>5, <2>1a, <2>2a, <2>2, <2>3 DEF Choose, TypeOK
<1>6. ASSUME NEW t \in Tabs, AnswerMe(t) PROVE TypeOK'
  <2>1. rows # <<>> => rows[Len(rows)] \in [mode : Mode, revoked : BOOLEAN]
    <3>1. rows \in Seq([mode : Mode, revoked : BOOLEAN])
      BY DEF TypeOK
    <3>2. rows # <<>> => Len(rows) \in 1..Len(rows)
      BY <3>1, EmptySeq
    <3> QED
      BY <3>1, <3>2, ElementOfSeq
  <2>2. Me \in Asked
    BY <2>1 DEF Me, Asked, Answer
  <2> QED
    BY <1>6, <2>2 DEF AnswerMe, TypeOK, historyVars
<1>7. ASSUME NEW t \in Tabs, Reconcile(t) PROVE TypeOK'
  <2>1. CASE asked[t] = "null"
    BY <1>7, <2>1 DEF Reconcile, TypeOK, Asked
  <2>2. CASE asked[t] # "null"
    <3>1. asked[t] \in Mode /\ SetMode(t, asked[t]) /\ local' = asked[t]
          /\ unaware' \in SUBSET open
      BY <1>7, <2>2 DEF Reconcile, Answer, Store
    <3>2. mode' \in [Tabs -> Mode] /\ paused' \in [Tabs -> BOOLEAN] /\ latest' \in [Tabs -> Event]
      BY <3>1, SetModeIsTyped
    <3> QED
      BY <1>7, <3>1, <3>2 DEF Reconcile, TypeOK, Asked
  <2> QED
    BY <2>1, <2>2
<1>8. ASSUME NEW t \in Tabs, ReconcileFails(t) PROVE TypeOK'
  BY <1>8 DEF ReconcileFails, TypeOK, historyVars, Asked
<1>9. ASSUME NEW t \in Tabs, Close(t) \/ Open(t) PROVE TypeOK'
  <2>1. NoEvent \in Event
    BY DEF NoEvent, Event, Kind, Mode
  <2>2. CASE Close(t)
    BY <2>1, <2>2 DEF Close, TypeOK, Asked, Mode
  <2>3. CASE Open(t)
    BY <2>3 DEF Open, Stored, TypeOK, Asked, Mode, historyVars
  <2> QED
    BY <1>9, <2>2, <2>3
<1>10. ASSUME NEW p \in posts, PostArrives(p) PROVE TypeOK'
  <2>1. p.mode \in Mode
    BY DEF TypeOK
  <2>2. rows' \in Seq([mode : Mode, revoked : BOOLEAN])
    BY <1>10, <2>1, ConsentIsAdded DEF PostArrives
  <2> QED
    BY <1>10, <2>2 DEF PostArrives, TypeOK, tabVars, historyVars
<1>11. ASSUME NEW p \in posts, PostIsLost(p) PROVE TypeOK'
  BY <1>11 DEF PostIsLost, TypeOK, tabVars, historyVars
<1>12. CASE UNCHANGED vars
  BY <1>12 DEF vars, tabVars, historyVars, TypeOK
<1> QED
  BY <1>1, <1>2, <1>3, <1>4, <1>5, <1>6, <1>7, <1>8, <1>9, <1>10, <1>11, <1>12 DEF Next

(* Every reachable state of the tabs, the store and the server is well      *)
(* typed.                                                                   *)
THEOREM TypeCorrect == Spec => []TypeOK
<1> QED
  BY TypeInit, TypeStep, PTL DEF Spec

----------------------------------------------------------------------------
(* Only modes the user chose.                                               *)

(* An answer joins the chosen modes, and nothing else changes them. *)
LEMMA ChoicesGrow ==
    ASSUME TypeOK, NEW m \in Mode, choices' = Append(choices, m)
    PROVE  Chosen' = Chosen \union {m}
<1>1. /\ choices \in Seq(Mode) /\ Len(choices) \in Nat /\ DOMAIN choices = 1..Len(choices)
  BY DEF TypeOK
<1>2. /\ DOMAIN choices' = 1..(Len(choices) + 1) /\ choices'[Len(choices) + 1] = m
      /\ \A i \in 1..Len(choices) : choices'[i] = choices[i]
  BY <1>1
<1>3. \A x \in Chosen : x \in Chosen'
  BY <1>1, <1>2 DEF Chosen
<1>4. m \in Chosen'
  BY <1>1, <1>2 DEF Chosen
<1>5. ASSUME NEW i \in DOMAIN choices' PROVE choices'[i] \in Chosen \union {m}
  BY <1>1, <1>2 DEF Chosen
<1> QED
  BY <1>3, <1>4, <1>5 DEF Chosen

(* What a mode can come from was chosen: the record in localStorage, the    *)
(* posts under way, and the answers the pages wait for.                     *)
SourcesAreChosen ==
    /\ local \in Chosen \union {"none"}
    /\ \A p \in posts : p.mode \in Chosen
    /\ \A t \in Tabs : asked[t] \in Mode => asked[t] \in Chosen

ChosenInv == SourcesAreChosen /\ OnlyChosenModes

(* At first no tab records what nobody chose.                               *)
LEMMA ChosenInit == Init => ChosenInv
BY DEF Init, ChosenInv, SourcesAreChosen, OnlyChosenModes, Mode, NoEvent

(* An event that is recorded is of the mode that is in force. *)
LEMMA RecordedIsChosen ==
    ASSUME TypeOK, ChosenInv, NEW t \in Tabs, NEW kind \in Kind, NEW p \in BOOLEAN,
           Recorded(t, kind, mode[t], p) \/ UNCHANGED latest
    PROVE  \A s \in Tabs : latest'[s] # NoEvent => latest'[s].mode \in Chosen
<1>1. CASE UNCHANGED latest
  BY <1>1 DEF ChosenInv, OnlyChosenModes
<1>2. CASE Recorded(t, kind, mode[t], p)
  <2>1. \A s \in Tabs : latest'[s] = latest[s] \/ (s = t /\ mode[t] # "off" /\ latest'[s].mode = mode[t])
    <3>1. \A s \in Tabs : s # t => latest'[s] = latest[s]
      BY <1>2, RecordedIsTyped
    <3>2. mode[t] = "off" => latest'[t] = latest[t]
      BY <1>2, RecordedIsTyped
    <3>3. mode[t] # "off" => latest'[t] = [kind |-> kind, mode |-> mode[t], state |-> State(mode[t], p)]
      BY <1>2, RecordedIsTyped
    <3> QED
      BY <3>1, <3>2, <3>3
  <2> QED
    BY <2>1 DEF ChosenInv, OnlyChosenModes
<1> QED
  BY <1>1, <1>2

(* A chosen mode may be set. *)
LEMMA SetIsChosen ==
    ASSUME TypeOK, ChosenInv, NEW t \in Tabs, NEW m \in Mode, SetMode(t, m)
    PROVE  /\ \A s \in Tabs : latest'[s] # NoEvent => latest'[s].mode \in Chosen \union {m}
           /\ \A s \in Tabs : mode'[s] # "off" => mode'[s] \in Chosen \union {m}
<1>1. mode \in [Tabs -> Mode]
  BY DEF TypeOK
<1>2. mode' = [mode EXCEPT ![t] = m]
  BY SetModeSets
<1>3. \A s \in Tabs : latest'[s] = latest[s]
                      \/ (s = t /\ latest'[s].mode \in {m, mode[t]} \ {"off"})
  BY SetModeSets
<1> QED
  BY <1>1, <1>2, <1>3 DEF ChosenInv, OnlyChosenModes

(* Every action keeps it so.                                                *)
LEMMA ChosenStep == TypeOK /\ ChosenInv /\ [Next]_vars => ChosenInv'
<1> SUFFICES ASSUME TypeOK, ChosenInv, [Next]_vars PROVE ChosenInv'
  OBVIOUS
<1>1. ASSUME NEW t \in Tabs,
             Pause(t) \/ Resume(t) \/ Act(t) \/ NoteSelection(t) \/ SelectionTimerFires(t)
      PROVE  ChosenInv'
  <2>1. paused[t] \in BOOLEAN /\ {"capture.pause", "capture.resume", "action", "nav.select"} \subseteq Kind
    BY DEF TypeOK, Kind, Mark
  <2>2. UNCHANGED <<mode, asked, local, posts, rows, choices>>
    BY <1>1 DEF Pause, Resume, Act, NoteSelection, SelectionTimerFires, tabVars
  <2>3. \E kind \in Kind, p \in BOOLEAN : Recorded(t, kind, mode[t], p) \/ UNCHANGED latest
    BY <1>1, <2>1 DEF Pause, Resume, Act, NoteSelection, SelectionTimerFires
  <2>4. \A s \in Tabs : latest'[s] # NoEvent => latest'[s].mode \in Chosen
    BY <2>3, RecordedIsChosen
  <2>5. Chosen' = Chosen
    BY <2>2 DEF Chosen
  <2> QED
    BY <2>2, <2>4, <2>5 DEF ChosenInv, SourcesAreChosen, OnlyChosenModes
<1>2. ASSUME NEW t \in Tabs, NEW m \in Mode, Choose(t, m) PROVE ChosenInv'
  <2>1. /\ choices' = Append(choices, m) /\ local' = m /\ SetMode(t, m)
        /\ posts' = posts \union {[number |-> Len(choices) + 1, mode |-> m]}
        /\ UNCHANGED <<asked, rows>>
    BY <1>2 DEF Choose, Store
  <2>2. Chosen' = Chosen \union {m}
    BY <2>1, ChoicesGrow
  <2>3. SourcesAreChosen'
    BY <2>1, <2>2 DEF ChosenInv, SourcesAreChosen
  <2>4. OnlyChosenModes'
    BY <2>1, <2>2, SetIsChosen DEF ChosenInv, OnlyChosenModes
  <2> QED
    BY <2>3, <2>4 DEF ChosenInv
<1>3. ASSUME NEW t \in Tabs, Reconcile(t) PROVE ChosenInv'
  <2>1. /\ asked' = [asked EXCEPT ![t] = "over"] /\ asked \in [Tabs -> Asked]
        /\ UNCHANGED <<posts, rows, choices>>
    BY <1>3 DEF Reconcile, TypeOK
  <2>2. Chosen' = Chosen /\ \A s \in Tabs : asked'[s] \in Mode => asked'[s] \in Chosen
    BY <2>1 DEF Chosen, ChosenInv, SourcesAreChosen, Mode
  <2>3. CASE asked[t] = "null"
    <3>1. UNCHANGED <<mode, local, latest>>
      BY <1>3, <2>3 DEF Reconcile
    <3> QED
      BY <2>1, <2>2, <3>1 DEF ChosenInv, SourcesAreChosen, OnlyChosenModes
  <2>4. CASE asked[t] # "null"
    <3>1. asked[t] \in Mode /\ local' = asked[t] /\ SetMode(t, asked[t])
      BY <1>3, <2>4 DEF Reconcile, Answer, Store
    <3>2. asked[t] \in Chosen
      BY <3>1 DEF ChosenInv, SourcesAreChosen
    <3>3. SourcesAreChosen'
      BY <2>1, <2>2, <3>1, <3>2 DEF ChosenInv, SourcesAreChosen
    <3>4. OnlyChosenModes'
      BY <2>1, <2>2, <3>1, <3>2, SetIsChosen DEF ChosenInv, OnlyChosenModes
    <3> QED
      BY <3>3, <3>4 DEF ChosenInv
  <2> QED
    BY <2>3, <2>4
<1>4. ASSUME NEW t \in Tabs, ReconcileFails(t) \/ AnswerMe(t) PROVE ChosenInv'
  <2>1. /\ asked \in [Tabs -> Asked] /\ rows \in Seq([mode : Mode, revoked : BOOLEAN])
        /\ UNCHANGED <<mode, local, posts, rows, choices, latest>>
        /\ asked' = [asked EXCEPT ![t] = "over"] \/ asked' = [asked EXCEPT ![t] = Me]
    BY <1>4 DEF ReconcileFails, AnswerMe, historyVars, TypeOK
  <2>2. Me \in Mode => Me \in Chosen
    <3>1. rows # <<>> => Len(rows) \in DOMAIN rows
      BY <2>1, EmptySeq, LenProperties
    <3> QED
      BY <3>1 DEF Me, Mode, ChosenInv, OnlyChosenModes
  <2>3. Chosen' = Chosen /\ \A s \in Tabs : asked'[s] \in Mode => asked'[s] \in Chosen
    BY <2>1, <2>2 DEF Chosen, ChosenInv, SourcesAreChosen, Mode
  <2> QED
    BY <2>1, <2>3 DEF ChosenInv, SourcesAreChosen, OnlyChosenModes
<1>5. ASSUME NEW t \in Tabs, Close(t) \/ Open(t) PROVE ChosenInv'
  <2>1. /\ mode' = [mode EXCEPT ![t] = Stored] \/ mode' = [mode EXCEPT ![t] = "off"]
        /\ asked' = [asked EXCEPT ![t] = "sent"] \/ asked' = [asked EXCEPT ![t] = "over"]
        /\ latest' = [latest EXCEPT ![t] = NoEvent] \/ latest' = latest
        /\ UNCHANGED <<local, posts, rows, choices>>
        /\ mode \in [Tabs -> Mode] /\ asked \in [Tabs -> Asked] /\ latest \in [Tabs -> Event]
    BY <1>5 DEF Close, Open, TypeOK, historyVars
  <2>2. Chosen' = Chosen
    BY <2>1 DEF Chosen
  <2>3. \A s \in Tabs : latest'[s] # NoEvent => latest'[s].mode \in Chosen
    BY <2>1 DEF ChosenInv, OnlyChosenModes
  <2>4. \A s \in Tabs : mode'[s] # "off" => mode'[s] \in Chosen
    BY <2>1 DEF ChosenInv, SourcesAreChosen, OnlyChosenModes, Stored
  <2>5. \A s \in Tabs : asked'[s] \in Mode => asked'[s] \in Chosen
    BY <2>1 DEF ChosenInv, SourcesAreChosen, Mode
  <2> QED
    BY <2>1, <2>2, <2>3, <2>4, <2>5 DEF ChosenInv, SourcesAreChosen, OnlyChosenModes
<1>6. ASSUME NEW p \in posts, PostArrives(p) PROVE ChosenInv'
  <2>1. /\ posts' = posts \ {p} /\ RecordConsent(p.mode) /\ p.mode \in Mode
        /\ UNCHANGED <<mode, asked, local, choices, latest>>
    BY <1>6 DEF PostArrives, tabVars, historyVars, TypeOK
  <2>2. Chosen' = Chosen
    BY <2>1 DEF Chosen
  <2>3. rows \in Seq([mode : Mode, revoked : BOOLEAN])
    BY DEF TypeOK
  <2>4. \A i \in DOMAIN rows' : rows'[i].mode \in Chosen
    <3>1. DOMAIN rows = 1..Len(rows) /\ DOMAIN rows' = 1..(Len(rows) + 1) /\ Len(rows) \in Nat
      BY <2>1, <2>3, ConsentIsAdded, LenProperties
    <3>2. rows'[Len(rows) + 1] = [mode |-> p.mode, revoked |-> p.mode = "off"]
      BY <2>1, ConsentIsAdded
    <3>3. \A i \in 1..Len(rows) : rows'[i].mode = rows[i].mode
      BY <2>1, ConsentIsAdded
    <3> QED
      BY <3>1, <3>2, <3>3 DEF ChosenInv, SourcesAreChosen, OnlyChosenModes
  <2> QED
    BY <2>1, <2>2, <2>4 DEF ChosenInv, SourcesAreChosen, OnlyChosenModes
<1>7. ASSUME NEW p \in posts, PostIsLost(p) PROVE ChosenInv'
  <2>1. posts' = posts \ {p} /\ UNCHANGED <<mode, asked, local, rows, choices, latest>>
    BY <1>7 DEF PostIsLost, tabVars, historyVars
  <2>2. Chosen' = Chosen
    BY <2>1 DEF Chosen
  <2> QED
    BY <2>1, <2>2 DEF ChosenInv, SourcesAreChosen, OnlyChosenModes
<1>8. CASE UNCHANGED vars
  <2>1. UNCHANGED <<mode, asked, local, posts, rows, choices, latest>>
    BY <1>8 DEF vars, tabVars, historyVars
  <2>2. Chosen' = Chosen
    BY <2>1 DEF Chosen
  <2> QED
    BY <2>1, <2>2 DEF ChosenInv, SourcesAreChosen, OnlyChosenModes
<1> QED
  BY <1>1, <1>2, <1>3, <1>4, <1>5, <1>6, <1>7, <1>8 DEF Next

(* No page records, and no row of the server holds, a mode the user never   *)
(* chose, in however many tabs and page loads.                              *)
THEOREM ChosenModesOnly == Spec => []OnlyChosenModes
<1>1. Spec => []ChosenInv
  BY TypeInit, TypeStep, ChosenInit, ChosenStep, PTL DEF Spec
<1>2. ChosenInv => OnlyChosenModes
  BY DEF ChosenInv
<1> QED
  BY <1>1, <1>2, PTL

----------------------------------------------------------------------------
(* The rows of the server.                                                  *)

(* Every action keeps the rows of the two tables in agreement.              *)
LEMMA RowsStep == TypeOK /\ RowsAgree /\ [Next]_vars => RowsAgree'
<1> SUFFICES ASSUME TypeOK, RowsAgree, [Next]_vars PROVE RowsAgree'
  OBVIOUS
<1>1. ASSUME NEW p \in posts, PostArrives(p) PROVE RowsAgree'
  <2> DEFINE n == Len(rows)
  <2>1. p.mode \in Mode /\ RecordConsent(p.mode)
    BY <1>1 DEF PostArrives, TypeOK
  <2>2. rows \in Seq([mode : Mode, revoked : BOOLEAN])
    BY DEF TypeOK
  <2>3. n \in Nat /\ DOMAIN rows = 1..n /\ DOMAIN rows' = 1..(n + 1)
    BY <2>1, <2>2, ConsentIsAdded, LenProperties
  <2>4. rows'[n + 1] = [mode |-> p.mode, revoked |-> p.mode = "off"]
    BY <2>1, ConsentIsAdded
  <2>5. \A i \in 1..n : rows'[i].mode = rows[i].mode
    BY <2>1, ConsentIsAdded
  <2>6. \A i \in 1..n : rows'[i].revoked <=> (rows[i].revoked \/ p.mode = "off")
    BY <2>1, ConsentIsAdded
  <2> HIDE DEF n
  <2>7. ASSUME NEW i \in 1..n
        PROVE  rows'[i].revoked <=> \E j \in DOMAIN rows' : j >= i /\ rows'[j].mode = "off"
    <3>1. rows[i].revoked <=> \E j \in 1..n : j >= i /\ rows[j].mode = "off"
      BY <2>3 DEF RowsAgree
    <3>2. (\E j \in 1..(n + 1) : j >= i /\ rows'[j].mode = "off")
          <=> (p.mode = "off" \/ \E j \in 1..n : j >= i /\ rows'[j].mode = "off")
      BY <2>3, <2>4
    <3>3. (\E j \in 1..n : j >= i /\ rows'[j].mode = "off")
          <=> \E j \in 1..n : j >= i /\ rows[j].mode = "off"
      BY <2>5
    <3> QED
      BY <2>3, <2>6, <3>1, <3>2, <3>3
  <2>8. rows'[n + 1].revoked <=> \E j \in DOMAIN rows' : j >= n + 1 /\ rows'[j].mode = "off"
    <3>1. \A j \in 1..(n + 1) : j >= n + 1 => j = n + 1
      BY <2>3
    <3>2. n + 1 \in 1..(n + 1)
      BY <2>3
    <3>3. rows'[n + 1].mode = p.mode /\ rows'[n + 1].revoked = (p.mode = "off")
      BY <2>4
    <3>4. (\E j \in 1..(n + 1) : j >= n + 1 /\ rows'[j].mode = "off") <=> rows'[n + 1].mode = "off"
      BY <2>3, <3>1, <3>2
    <3> QED
      BY <2>3, <3>3, <3>4, Zenon
  <2>9. \A i \in 1..(n + 1) : i \in 1..n \/ i = n + 1
    BY <2>3
  <2> QED
    BY <2>3, <2>7, <2>8, <2>9 DEF RowsAgree
<1>2. CASE UNCHANGED rows
  BY <1>2 DEF RowsAgree
<1> QED
  BY <1>1, <1>2
  DEF Next, vars, Pause, Resume, Act, NoteSelection, SelectionTimerFires, Choose, AnswerMe, Reconcile,
      ReconcileFails, Close, Open, PostIsLost

(* A row of the server is revoked exactly if it, or a later one, is a       *)
(* withdrawal, in whatever order the posts arrive.                          *)
THEOREM RowsAlwaysAgree == Spec => []RowsAgree
<1>1. Init => RowsAgree
  BY DEF Init, RowsAgree
<1> QED
  BY <1>1, TypeInit, TypeStep, RowsStep, PTL DEF Spec

----------------------------------------------------------------------------
(* The tabs without a page.                                                 *)

(* A closed tab captures nothing and waits for nothing. *)
ClosedAreBlank ==
    \A t \in Tabs \ open :
        mode[t] = "off" /\ paused[t] = FALSE /\ asked[t] = "over" /\ latest[t] = NoEvent

(* Every action of a tab but the opening is one of a page.                  *)
LEMMA ClosedStep == TypeOK /\ ClosedAreBlank /\ [Next]_vars => ClosedAreBlank'
<1> SUFFICES ASSUME TypeOK, ClosedAreBlank, [Next]_vars PROVE ClosedAreBlank'
  OBVIOUS
<1>1. /\ mode \in [Tabs -> Mode] /\ paused \in [Tabs -> BOOLEAN] /\ asked \in [Tabs -> Asked]
      /\ latest \in [Tabs -> Event] /\ open \in SUBSET Tabs
  BY DEF TypeOK
<1>2. ASSUME NEW t \in open, NEW m \in Mode, SetMode(t, m), open' = open,
             asked' = [asked EXCEPT ![t] = "over"] \/ asked' = asked
      PROVE  ClosedAreBlank'
  <2>1. t \in Tabs /\ mode' = [mode EXCEPT ![t] = m]
        /\ \A s \in Tabs : s # t => paused'[s] = paused[s] /\ latest'[s] = latest[s]
    BY <1>1, <1>2, SetModeSets
  <2> QED
    BY <1>1, <1>2, <2>1 DEF ClosedAreBlank
<1>3. ASSUME NEW t \in Tabs, NEW m \in Mode, Choose(t, m) PROVE ClosedAreBlank'
  BY <1>2, <1>3 DEF Choose
<1>4. ASSUME NEW t \in Tabs, Reconcile(t) PROVE ClosedAreBlank'
  <2>1. t \in open /\ asked' = [asked EXCEPT ![t] = "over"] /\ open' = open
    BY <1>4 DEF Reconcile, Answer, Mode, ClosedAreBlank
  <2>2. CASE asked[t] = "null"
    BY <1>1, <1>4, <2>1, <2>2 DEF Reconcile, ClosedAreBlank
  <2>3. CASE asked[t] # "null"
    <3>1. asked[t] \in Mode /\ SetMode(t, asked[t])
      BY <1>4, <2>3 DEF Reconcile, Answer
    <3> QED
      BY <1>2, <2>1, <3>1
  <2> QED
    BY <2>2, <2>3
<1>5. ASSUME NEW t \in Tabs, Close(t) \/ Open(t) PROVE ClosedAreBlank'
  <2>1. CASE Close(t)
    BY <1>1, <2>1 DEF Close, ClosedAreBlank
  <2>2. CASE Open(t)
    BY <1>1, <2>2 DEF Open, ClosedAreBlank, historyVars
  <2> QED
    BY <1>5, <2>1, <2>2
<1>6. ASSUME NEW t \in Tabs, AnswerMe(t) \/ ReconcileFails(t) PROVE ClosedAreBlank'
  <2>1. /\ UNCHANGED <<open, mode, paused, latest>> /\ asked[t] # "over"
        /\ asked' = [asked EXCEPT ![t] = Me] \/ asked' = [asked EXCEPT ![t] = "over"]
    BY <1>6 DEF AnswerMe, ReconcileFails, historyVars
  <2> QED
    BY <1>1, <2>1 DEF ClosedAreBlank
<1>7. ASSUME NEW t \in Tabs,
             Pause(t) \/ Resume(t) \/ Act(t) \/ NoteSelection(t) \/ SelectionTimerFires(t)
      PROVE  ClosedAreBlank'
  <2>1. UNCHANGED <<open, mode, asked>>
    BY <1>7 DEF Pause, Resume, Act, NoteSelection, SelectionTimerFires, tabVars
  <2>2. (\A s \in Tabs : s # t => paused'[s] = paused[s]) /\ (mode[t] = "off" => paused'[t] = paused[t])
    BY <1>1, <1>7 DEF Pause, Resume, Act, NoteSelection, SelectionTimerFires, tabVars, Capturing, State
  <2>3. (\A s \in Tabs : s # t => latest'[s] = latest[s]) /\ (mode[t] = "off" => latest'[t] = latest[t])
    BY <1>1, <1>7 DEF Pause, Resume, Act, NoteSelection, SelectionTimerFires, Recorded
  <2> QED
    BY <2>1, <2>2, <2>3 DEF ClosedAreBlank
<1>8. CASE UNCHANGED <<open, mode, paused, asked, latest>>
  BY <1>8 DEF ClosedAreBlank
<1> QED
  BY <1>3, <1>4, <1>5, <1>6, <1>7, <1>8
  DEF Next, vars, tabVars, historyVars, PostArrives, PostIsLost

----------------------------------------------------------------------------
(* The record in localStorage.                                              *)

(* A tab that writes the record is in the mode it writes, and the only one  *)
(* that knows.                                                              *)
LEMMA StoringFollows ==
    ASSUME TypeOK, NEW t \in open, NEW m \in Mode, SetMode(t, m), Store(t, m), open' = open
    PROVE  TabsFollowStored'
<1>1. mode \in [Tabs -> Mode] /\ t \in Tabs
  BY DEF TypeOK
<1>2. mode' = [mode EXCEPT ![t] = m] /\ local' = m /\ m # "none"
  BY <1>1, SetModeSets DEF Mode, Store
<1>3. \A s \in open' \ unaware' : s = t
  BY DEF Store
<1> QED
  BY <1>1, <1>2, <1>3 DEF TabsFollowStored, Stored, Store

(* Every action keeps the pages in the stored mode, or unaware of it.       *)
LEMMA FollowStep ==
    TypeOK /\ ClosedAreBlank /\ TabsFollowStored /\ [Next]_vars => TabsFollowStored'
<1> SUFFICES ASSUME TypeOK, ClosedAreBlank, TabsFollowStored, [Next]_vars PROVE TabsFollowStored'
  OBVIOUS
<1>1. mode \in [Tabs -> Mode] /\ open \in SUBSET Tabs /\ unaware \in SUBSET open
  BY DEF TypeOK
<1>2. ASSUME NEW t \in Tabs, NEW m \in Mode, Choose(t, m) PROVE TabsFollowStored'
  BY <1>2, StoringFollows DEF Choose
<1>3. ASSUME NEW t \in Tabs, Reconcile(t) PROVE TabsFollowStored'
  <2>1. t \in open /\ open' = open
    BY <1>3 DEF Reconcile, Answer, Mode, ClosedAreBlank
  <2>2. CASE asked[t] = "null"
    BY <1>3, <2>1, <2>2 DEF Reconcile, TabsFollowStored, Stored
  <2>3. CASE asked[t] # "null"
    <3>1. asked[t] \in Mode /\ SetMode(t, asked[t]) /\ Store(t, asked[t])
      BY <1>3, <2>3 DEF Reconcile, Answer
    <3> QED
      BY <2>1, <3>1, StoringFollows
  <2> QED
    BY <2>2, <2>3
<1>4. ASSUME NEW t \in Tabs, Close(t) PROVE TabsFollowStored'
  <2>1. /\ open' = open \ {t} /\ unaware' = unaware \ {t} /\ mode' = [mode EXCEPT ![t] = "off"]
        /\ local' = local
    BY <1>4 DEF Close
  <2> QED
    BY <1>1, <2>1 DEF TabsFollowStored, Stored
<1>5. ASSUME NEW t \in Tabs, Open(t) PROVE TabsFollowStored'
  <2>1. /\ open' = open \union {t} /\ unaware' = unaware /\ mode' = [mode EXCEPT ![t] = Stored]
        /\ local' = local
    BY <1>5 DEF Open, historyVars
  <2> QED
    BY <1>1, <2>1 DEF TabsFollowStored, Stored
<1>6. CASE UNCHANGED <<open, mode, local, unaware>>
  BY <1>6 DEF TabsFollowStored, Stored
<1> QED
  BY <1>2, <1>3, <1>4, <1>5, <1>6
  DEF Next, vars, tabVars, historyVars, Pause, Resume, Act, NoteSelection, SelectionTimerFires,
      AnswerMe, ReconcileFails, PostArrives, PostIsLost

(* However many tabs are opened, closed and answered late, a page past      *)
(* which no other tab has written the record is in the mode that the next   *)
(* page will begin in.                                                      *)
THEOREM TabsAlwaysFollow == Spec => []TabsFollowStored
<1>1. Init => ClosedAreBlank /\ TabsFollowStored
  BY DEF Init, ClosedAreBlank, TabsFollowStored, Stored
<1> QED
  BY <1>1, TypeInit, TypeStep, ClosedStep, FollowStep, PTL DEF Spec

----------------------------------------------------------------------------
(* The marks in the log.                                                    *)

(* The controller is in the state its last mark says it is in. *)
MarksHold ==
    \A t \in Tabs :
        /\ latest[t].kind = "consent.revoked" => mode[t] = "off"
        /\ Pausing(latest[t]) <=> mode[t] # "off" /\ paused[t]

(* What one step may record in a tab. *)
Explained(t) ==
    latest'[t] \notin {NoEvent, latest[t]} => MayFollow(latest[t], latest'[t])

(* At first there is no gap.                                                *)
LEMMA MarksInit == Init => MarksHold
<1> SUFFICES ASSUME Init, NEW t \in Tabs
             PROVE  /\ latest[t].kind # "consent.revoked"
                    /\ Pausing(latest[t]) <=> mode[t] # "off" /\ paused[t]
  BY DEF MarksHold
<1>1. latest[t] = NoEvent /\ paused[t] = FALSE
  BY DEF Init
<1>2. latest[t].kind = "none"
  BY <1>1 DEF NoEvent
<1> QED
  BY <1>1, <1>2 DEF Pausing

(* Setting the mode leaves the right mark. *)
LEMMA SetModeMarks ==
    ASSUME TypeOK, MarksHold, NEW t \in Tabs, NEW m \in Mode, SetMode(t, m)
    PROVE  MarksHold' /\ \A s \in Tabs : Explained(s)
<1>1. mode \in [Tabs -> Mode] /\ mode' = [mode EXCEPT ![t] = m]
      /\ paused \in [Tabs -> BOOLEAN] /\ paused' \in [Tabs -> BOOLEAN]
  BY SetModeSets DEF TypeOK
<1>2. \A s \in Tabs : s # t => latest'[s] = latest[s] /\ paused'[s] = paused[s] /\ mode'[s] = mode[s]
  BY <1>1, SetModeSets
<1>3. CASE m = mode[t]
  BY <1>1, <1>3, SetModeSets DEF MarksHold, Explained, Pausing
<1>4. CASE m # mode[t]
  <2>1. /\ latest'[t].kind = (IF m = "off" THEN "consent.revoked" ELSE "consent.granted") /\ mode'[t] = m
        /\ paused'[t] = IF m = "off" THEN paused[t] ELSE mode[t] # "off" /\ paused[t]
        /\ latest'[t].state = IF m = "off" THEN State(mode[t], paused[t]) ELSE State(m, paused'[t])
    BY <1>1, <1>4, SetModeSets
  <2>2. /\ latest[t].kind = "consent.revoked" => mode[t] = "off"
        /\ Pausing(latest[t]) <=> mode[t] # "off" /\ paused[t]
        /\ paused[t] \in BOOLEAN /\ paused'[t] \in BOOLEAN
    BY <1>1 DEF MarksHold
  <2>3. CASE m = "off"
    <3>1. MayFollow(latest[t], latest'[t])
      BY <1>4, <2>1, <2>2, <2>3 DEF MayFollow, State
    <3>2. ~Pausing(latest'[t])
      BY <2>1, <2>3 DEF Pausing
    <3>3. MarksHold'
      BY <1>2, <2>1, <2>3, <3>2 DEF MarksHold, Pausing
    <3> QED
      BY <1>2, <3>1, <3>3 DEF Explained
  <2>4. CASE m # "off"
    <3>1. /\ latest'[t].kind = "consent.granted" /\ paused'[t] = (mode[t] # "off" /\ paused[t])
          /\ latest'[t].state = IF paused'[t] THEN "paused" ELSE "capturing"
      BY <2>1, <2>4 DEF State
    <3>2. MayFollow(latest[t], latest'[t])
      BY <2>2, <3>1 DEF MayFollow
    <3>3. Pausing(latest'[t]) <=> paused'[t]
      BY <2>2, <3>1 DEF Pausing
    <3>4. MarksHold'
      BY <1>2, <2>1, <2>4, <3>1, <3>3 DEF MarksHold, Pausing
    <3> QED
      BY <1>2, <3>2, <3>4 DEF Explained
  <2> QED
    BY <2>3, <2>4
<1> QED
  BY <1>3, <1>4

(* An event that a tab records itself, while its controller is on. *)
LEMMA RecordingMarks ==
    ASSUME TypeOK, MarksHold, NEW t \in Tabs, NEW kind \in Kind, NEW p \in BOOLEAN,
           mode[t] # "off", mode' = mode, paused' = [paused EXCEPT ![t] = p],
           Recorded(t, kind, mode[t], FALSE),
           \/ kind = "capture.pause" /\ ~paused[t] /\ p
           \/ kind = "capture.resume" /\ paused[t] /\ ~p
           \/ kind \in {"action", "nav.select"} /\ ~paused[t] /\ ~p
    PROVE  MarksHold' /\ \A s \in Tabs : Explained(s)
<1>1. paused \in [Tabs -> BOOLEAN] /\ paused[t] \in BOOLEAN
  BY DEF TypeOK
<1>2. /\ \A s \in Tabs : s # t => latest'[s] = latest[s]
      /\ latest'[t] = [kind |-> kind, mode |-> mode[t], state |-> State(mode[t], FALSE)]
  BY RecordedIsTyped
<1>3. latest'[t].kind = kind
  BY <1>2
<1>4. \A s \in Tabs : s # t => paused'[s] = paused[s]
  BY <1>1
<1>5. paused'[t] = p
  BY <1>1
<1>6. /\ latest[t].kind = "consent.revoked" => mode[t] = "off"
      /\ Pausing(latest[t]) <=> mode[t] # "off" /\ paused[t]
  BY DEF MarksHold
<1>7. MayFollow(latest[t], latest'[t])
  BY <1>1, <1>3, <1>6 DEF MayFollow
<1>8. Pausing(latest'[t]) <=> p
  BY <1>1, <1>3 DEF Pausing
<1>9. MarksHold'
  BY <1>2, <1>3, <1>4, <1>5, <1>8 DEF MarksHold, Pausing
<1> QED
  BY <1>2, <1>7, <1>9 DEF Explained

(* Every action keeps every gap explained.                                  *)
LEMMA MarksStep ==
    TypeOK /\ ClosedAreBlank /\ MarksHold /\ [Next]_vars => MarksHold' /\ \A t \in Tabs : Explained(t)
<1> SUFFICES ASSUME TypeOK, ClosedAreBlank, MarksHold, [Next]_vars PROVE MarksHold' /\ \A t \in Tabs : Explained(t)
  OBVIOUS
<1> DEFINE Goal == MarksHold' /\ \A t \in Tabs : Explained(t)
<1>1. /\ mode \in [Tabs -> Mode] /\ paused \in [Tabs -> BOOLEAN] /\ latest \in [Tabs -> Event]
      /\ \A t \in Tabs : paused[t] \in BOOLEAN
  BY DEF TypeOK
<1>2. {"capture.pause", "capture.resume", "action", "nav.select"} \subseteq Kind
  BY DEF Kind, Mark
<1>3. ASSUME NEW t \in Tabs, Pause(t) PROVE Goal
  <2>1. mode[t] # "off" /\ ~paused[t]
    BY <1>3, <1>1 DEF Pause, Capturing, State
  <2> QED
    BY <1>2, <1>3, <2>1, RecordingMarks DEF Pause
<1>4. ASSUME NEW t \in Tabs, Resume(t) PROVE Goal
  BY <1>2, <1>4, RecordingMarks DEF Resume
<1>5. ASSUME NEW t \in Tabs, Act(t) \/ NoteSelection(t) \/ SelectionTimerFires(t) PROVE Goal
  <2>1. mode' = mode /\ paused' = paused
    BY <1>5 DEF Act, NoteSelection, SelectionTimerFires, tabVars
  <2>2. \/ UNCHANGED latest
        \/ Capturing(t) /\ Recorded(t, "nav.select", mode[t], paused[t])
        \/ Capturing(t) /\ Recorded(t, "action", mode[t], paused[t])
    BY <1>5 DEF Act, NoteSelection, SelectionTimerFires
  <2>3. CASE UNCHANGED latest
    BY <2>1, <2>3 DEF MarksHold, Explained, Pausing
  <2>4. ASSUME NEW kind \in {"nav.select", "action"}, Capturing(t), Recorded(t, kind, mode[t], paused[t])
        PROVE  Goal
    <3>1. mode[t] # "off" /\ paused[t] = FALSE
      BY <2>4, <1>1 DEF Capturing, State
    <3>2. paused' = [paused EXCEPT ![t] = FALSE]
      BY <1>1, <2>1, <3>1
    <3>3. Recorded(t, kind, mode[t], FALSE) /\ kind \in Kind
      BY <1>2, <2>4, <3>1
    <3> QED
      BY <2>1, <3>1, <3>2, <3>3, RecordingMarks
  <2> QED
    BY <2>2, <2>3, <2>4
<1>6. ASSUME NEW t \in Tabs, NEW m \in Mode, Choose(t, m) PROVE Goal
  BY <1>6, SetModeMarks DEF Choose
<1>7. ASSUME NEW t \in Tabs, Reconcile(t) PROVE Goal
  <2>1. CASE asked[t] = "null"
    BY <1>7, <2>1 DEF Reconcile, MarksHold, Explained, Pausing
  <2>2. CASE asked[t] # "null"
    <3>1. asked[t] \in Mode /\ SetMode(t, asked[t])
      BY <1>7, <2>2 DEF Reconcile, Answer
    <3> QED
      BY <3>1, SetModeMarks
  <2> QED
    BY <2>1, <2>2
<1>8. ASSUME NEW t \in Tabs, Close(t) PROVE Goal
  <2>1. /\ mode' = [mode EXCEPT ![t] = "off"]
        /\ paused' = [paused EXCEPT ![t] = FALSE] /\ latest' = [latest EXCEPT ![t] = NoEvent]
    BY <1>8 DEF Close
  <2> QED
    BY <1>1, <2>1 DEF MarksHold, Explained, NoEvent, Pausing
<1>9. ASSUME NEW t \in Tabs, Open(t) PROVE Goal
  <2>1. mode' = [mode EXCEPT ![t] = Stored] /\ paused' = paused /\ latest' = latest
    BY <1>9 DEF Open, historyVars
  <2>2. latest[t] = NoEvent /\ paused[t] = FALSE
    BY <1>9 DEF Open, ClosedAreBlank
  <2> QED
    BY <1>1, <2>1, <2>2 DEF MarksHold, Explained, NoEvent, Pausing
<1>10. CASE UNCHANGED <<mode, paused, latest>>
  BY <1>10 DEF MarksHold, Explained, Pausing
<1> QED
  BY <1>3, <1>4, <1>5, <1>6, <1>7, <1>8, <1>9, <1>10
  DEF Next, vars, tabVars, historyVars, AnswerMe, ReconcileFails, PostArrives, PostIsLost

(* In a page's life a withdrawal is followed by a grant and nothing else, a *)
(* pause by what ends or keeps it, and only a pause is ended, whatever the  *)
(* tabs do and the server says.                                             *)
THEOREM GapsAlwaysExplained == Spec => GapsAreExplained
<1>1. Init => ClosedAreBlank
  BY DEF Init, ClosedAreBlank
<1>2. TypeOK /\ ClosedAreBlank /\ MarksHold /\ [Next]_vars =>
        [\A t \in Tabs :
            latest'[t] \notin {NoEvent, latest[t]} => MayFollow(latest[t], latest'[t])]_vars
  BY MarksStep DEF Explained
<1> QED
  BY <1>1, <1>2, TypeInit, TypeStep, ClosedStep, MarksInit, MarksStep, PTL DEF Spec, GapsAreExplained
=============================================================================
