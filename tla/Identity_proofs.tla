---------------------------- MODULE Identity_proofs ----------------------------
(***************************************************************************)
(* What the anonymous account promises for any number of tabs, rebuilt      *)
(* databases and page loads: accounts and dropped tokens are bounded, and   *)
(* while the database stands nothing is lost to a token.  And for one tab   *)
(* alone: dead tokens cost it no event, as long as there are no more of     *)
(* them than it is meant to replace.                                        *)
(***************************************************************************)
EXTENDS Identity, FiniteSetTheorems, TLAPS

Fate == {"unborn", "queued", "stored", "barred", "refused", "discarded"}

----------------------------------------------------------------------------
(* What the shared parts of the actions leave behind.                       *)

(* A caller that joins leaves registrations behind, its own among them.     *)
LEMMA JoinIsTyped ==
    ASSUME TypeOK, NEW t \in Tabs, NEW c \in Caller, Join(t, c)
    PROVE  regs' \in [Tabs -> SUBSET Registration]
<1> DEFINE shared == {r \in regs[t] : r.current}
           waiting == UNION {r.waiters : r \in shared}
           joint == [waiters |-> waiting \union {c}, current |-> TRUE]
<1>1. regs \in [Tabs -> SUBSET Registration]
  BY DEF TypeOK
<1>2. \A r \in shared : r.waiters \subseteq Caller
  BY <1>1 DEF Registration
<1>3. waiting \union {c} \in SUBSET Caller
  BY <1>2
<1> HIDE DEF waiting
<1>4. joint \in Registration
  BY <1>3 DEF Registration
<1>5. (regs[t] \ shared) \union {joint} \in SUBSET Registration
  BY <1>1, <1>4
<1>6. regs' = [regs EXCEPT ![t] = (@ \ shared) \union {joint}]
  BY DEF Join, waiting
<1> QED
  BY <1>1, <1>5, <1>6

(* Registrations a page forgets are registrations.                          *)
LEMMA ForgottenAreTyped ==
    ASSUME NEW S \in SUBSET Registration
    PROVE  {[q EXCEPT !.current = FALSE] : q \in S} \in SUBSET Registration
BY DEF Registration

(* What is left when a registration settles are registrations.               *)
LEMMA SettledAreTyped ==
    ASSUME TypeOK, NEW t \in Tabs, NEW r
    PROVE  Settled(t, r) \in SUBSET Registration
<1>1. regs[t] \ {r} \in SUBSET Registration
  BY DEF TypeOK
<1> QED
  BY <1>1, ForgottenAreTyped DEF Settled

(* Finishing a batch gives every event of it the outcome it has, those      *)
(* apart that are stored already.                                           *)
LEMMA FinishIsTyped ==
    ASSUME TypeOK, NEW t \in Tabs, NEW B \in SUBSET Event, NEW outcome \in [Event -> Fate],
           Finish(t, B, outcome)
    PROVE  /\ queue' \in [Tabs -> SUBSET Event]
           /\ store' \in SUBSET Event
           /\ fate' \in [Event -> Fate]
<1>1. /\ queue \in [Tabs -> SUBSET Event] /\ store \in SUBSET Event /\ fate \in [Event -> Fate]
  BY DEF TypeOK, Fate
<1> QED
  BY <1>1 DEF Finish

----------------------------------------------------------------------------
(* Type correctness.                                                        *)

(* The types hold at first.                                                 *)
LEMMA TypeInit == Init => TypeOK
<1> SUFFICES ASSUME Init PROVE TypeOK
  OBVIOUS
<1>1. \A f \in {0} : f \in 0..MaxReregistrations /\ f \in 0..MaxRebuilds /\ f \in 0..MaxRegisterFaults /\ f \in 0..MaxReloads
  BY IdentityAssumption
<1> QED
  BY <1>1 DEF Init, TypeOK, Account, None

(* Every action keeps the types.                                            *)
LEMMA TypeNext == TypeOK /\ [Next]_vars => TypeOK'
<1> SUFFICES ASSUME TypeOK, [Next]_vars PROVE TypeOK'
  OBVIOUS
<1> USE IdentityAssumption DEF Account, None, storageVars, requestVars, pageVars, serverVars, historyVars, boundVars
<1>0. \A S \in SUBSET Event : Discarded \in [Event -> Fate]
  BY DEF Discarded, Fate
<1>1. ASSUME NEW t \in Tabs, Grant(t) PROVE TypeOK'
  BY <1>1 DEF Grant, TypeOK
<1>2. ASSUME NEW t \in Tabs, NEW e \in Event, HandOver(t, e) PROVE TypeOK'
  BY <1>2 DEF HandOver, TypeOK
<1>3. ASSUME NEW t \in Tabs, MountStarts(t) PROVE TypeOK'
  <2>1. /\ mount' \in [Tabs -> {"start", "registering", "ready", "asking", "over"}]
        /\ UNCHANGED <<storageVars, send, batch, presented, pageVars, serverVars, historyVars, boundVars>>
    BY <1>3 DEF MountStarts, TypeOK
  <2>2. regs' \in [Tabs -> SUBSET Registration]
    <3>1. "mount" \in Caller
      BY DEF Caller
    <3>2. UNCHANGED regs \/ Join(t, "mount")
      BY <1>3 DEF MountStarts
    <3> QED
      BY <3>1, <3>2, JoinIsTyped DEF TypeOK
  <2> QED
    BY <2>1, <2>2 DEF TypeOK
<1>4. ASSUME NEW t \in Tabs, AskMe(t) PROVE TypeOK'
  BY <1>4 DEF AskMe, Caller, TypeOK
<1>5. ASSUME NEW t \in Tabs, MeAnswered(t) PROVE TypeOK'
  BY <1>5 DEF MeAnswered, Caller, TypeOK
<1>6. ASSUME NEW t \in Tabs, NEW r \in regs[t], Registers(t, r) PROVE TypeOK'
  <2>1. accounts \in Nat /\ accounts' = accounts + 1 /\ Account \subseteq Account' /\ accounts' \in Account'
    BY <1>6 DEF Registers, TypeOK
  <2>2. /\ regs' \in [Tabs -> SUBSET Registration]
    <3>1. regs' = [regs EXCEPT ![t] = Settled(t, r)] /\ regs \in [Tabs -> SUBSET Registration]
      BY <1>6 DEF Registers, TypeOK
    <3> QED
      BY <3>1, SettledAreTyped
  <2>3. /\ mount' \in [Tabs -> {"start", "registering", "ready", "asking", "over"}]
        /\ actor' \in [Tabs -> Account' \union {None}] /\ actorKey' \in Account' \union {None}
        /\ send' \in [Tabs -> {"idle", "registering", "ready", "posted"}]
        /\ refused' \in [Tabs -> BOOLEAN]
    <3> HIDE DEF Account, None
    <3>1. /\ mount \in [Tabs -> {"start", "registering", "ready", "asking", "over"}]
          /\ actor \in [Tabs -> Account \union {None}] /\ actorKey \in Account \union {None}
          /\ send \in [Tabs -> {"idle", "registering", "ready", "posted"}]
          /\ refused \in [Tabs -> BOOLEAN]
      BY DEF TypeOK
    <3> QED
      BY <1>6, <2>1, <3>1 DEF Registers
  <2>4. /\ UNCHANGED <<granted, store, batch, presented, rereg, on, queue, open, consented, historyVars, boundVars>>
        /\ valid' = valid \union {accounts'} /\ token' = accounts'
    BY <1>6 DEF Registers
  <2> QED
    <3> HIDE DEF Account, None
    <3>1. /\ token' \in Account' \union {None'} /\ valid' \in SUBSET (Account') /\ consented' \in SUBSET valid'
          /\ accounts' \in Nat
      BY <2>1, <2>4 DEF TypeOK
    <3>2. /\ presented' \in [Tabs -> [Caller -> Account' \union {None'}]]
          /\ stamp' \in [Event -> Account' \union {None'}]
      <4>1. Account \union {None} \subseteq Account' \union {None'}
        BY <2>1 DEF None
      <4> QED
        BY <2>4, <4>1 DEF TypeOK
    <3>3. /\ granted' \in BOOLEAN /\ store' \in SUBSET Event
          /\ batch' \in [Tabs -> SUBSET Event] /\ rereg' \in [Tabs -> 0..MaxReregistrations]
          /\ on' \in [Tabs -> BOOLEAN] /\ queue' \in [Tabs -> SUBSET Event] /\ open' \in BOOLEAN
          /\ fate' \in [Event -> Fate] /\ dropped' \in Nat
          /\ rebuilds' \in 0..MaxRebuilds /\ registerFaults' \in 0..MaxRegisterFaults
          /\ reloads' \in 0..MaxReloads
      BY <2>4 DEF TypeOK, Fate
    <3> QED
      BY <2>2, <2>3, <3>1, <3>2, <3>3 DEF TypeOK, Fate, None
<1>7. ASSUME NEW t \in Tabs, NEW r \in regs[t], RegisterPending(t, r) PROVE TypeOK'
  <2>1. /\ accounts \in Nat /\ accounts' \in Nat /\ Account \subseteq Account'
        /\ valid' \in SUBSET (Account') /\ valid \subseteq valid'
    <3>1. accounts \in Nat /\ valid \in SUBSET Account
      BY DEF TypeOK
    <3>2. \/ UNCHANGED <<accounts, valid>>
          \/ accounts' = accounts + 1 /\ valid' = valid \union {accounts'}
      BY <1>7 DEF RegisterPending
    <3>3. CASE UNCHANGED <<accounts, valid>>
      BY <3>1, <3>3
    <3>4. CASE accounts' = accounts + 1 /\ valid' = valid \union {accounts'}
      <4>1. /\ accounts + 1 \in Nat /\ 1..accounts \subseteq 1..(accounts + 1)
            /\ accounts + 1 \in 1..(accounts + 1)
        BY <3>1
      <4> QED
        BY <3>1, <3>4, <4>1
    <3> QED
      BY <3>2, <3>3, <3>4
  <2>2. regs' \in [Tabs -> SUBSET Registration]
    <3>1. regs' = [regs EXCEPT ![t] = Settled(t, r)] /\ regs \in [Tabs -> SUBSET Registration]
      BY <1>7 DEF RegisterPending, TypeOK
    <3> QED
      BY <3>1, SettledAreTyped
  <2>3. /\ mount' \in [Tabs -> {"start", "registering", "ready", "asking", "over"}]
        /\ send' \in [Tabs -> {"idle", "registering", "ready", "posted"}]
        /\ batch' \in [Tabs -> SUBSET Event]
        /\ registerFaults' \in 0..MaxRegisterFaults
    BY <1>7 DEF RegisterPending, TypeOK
  <2>4. UNCHANGED <<storageVars, presented, pageVars, open, consented, historyVars, rebuilds, reloads>>
    BY <1>7 DEF RegisterPending
  <2> QED
    <3> HIDE DEF Account, None
    <3> QED
      BY <2>1, <2>2, <2>3, <2>4 DEF TypeOK
<1>8. ASSUME NEW t \in Tabs, NEW r \in regs[t], RegisterRefused(t, r) PROVE TypeOK'
  <2>1. regs' \in [Tabs -> SUBSET Registration]
    <3>1. regs' = [regs EXCEPT ![t] = Settled(t, r)] /\ regs \in [Tabs -> SUBSET Registration]
      BY <1>8 DEF RegisterRefused, TypeOK
    <3> QED
      BY <3>1, SettledAreTyped
  <2>2. /\ queue' \in [Tabs -> SUBSET Event] /\ store' \in SUBSET Event /\ fate' \in [Event -> Fate]
    <3>1. batch[t] \in SUBSET Event
      BY DEF TypeOK
    <3>2. Finish(t, batch[t], Discarded) \/ UNCHANGED <<queue, store, fate>>
      BY <1>8 DEF RegisterRefused
    <3> QED
      BY <1>0, <3>1, <3>2, FinishIsTyped DEF TypeOK, Fate
  <2>3. /\ mount' \in [Tabs -> {"start", "registering", "ready", "asking", "over"}]
        /\ send' \in [Tabs -> {"idle", "registering", "ready", "posted"}]
        /\ batch' \in [Tabs -> SUBSET Event]
        /\ refused' \in [Tabs -> BOOLEAN]
    BY <1>8 DEF RegisterRefused, TypeOK
  <2>4. UNCHANGED <<token, actorKey, granted, presented, rereg, actor, on, serverVars, stamp, dropped, boundVars>>
    BY <1>8 DEF RegisterRefused
  <2> QED
    BY <2>1, <2>2, <2>3, <2>4 DEF TypeOK, Fate
<1>9. ASSUME NEW t \in Tabs, SendStarts(t) PROVE TypeOK'
  <2>1. regs' \in [Tabs -> SUBSET Registration]
    <3>1. "send" \in Caller
      BY DEF Caller
    <3>2. UNCHANGED regs \/ Join(t, "send")
      BY <1>9 DEF SendStarts
    <3> QED
      BY <3>1, <3>2, JoinIsTyped DEF TypeOK
  <2>2. /\ queue' \in [Tabs -> SUBSET Event] /\ store' \in SUBSET Event /\ fate' \in [Event -> Fate]
    <3>1. queue[t] \in SUBSET Event
      BY DEF TypeOK
    <3>2. Finish(t, queue[t], Discarded) \/ UNCHANGED <<queue, store, fate>>
      BY <1>9 DEF SendStarts
    <3> QED
      BY <1>0, <3>1, <3>2, FinishIsTyped DEF TypeOK, Fate
  <2>3. /\ send' \in [Tabs -> {"idle", "registering", "ready", "posted"}]
        /\ batch' \in [Tabs -> SUBSET Event]
    <3>1. /\ send \in [Tabs -> {"idle", "registering", "ready", "posted"}]
          /\ batch \in [Tabs -> SUBSET Event] /\ queue[t] \in SUBSET Event
      BY DEF TypeOK
    <3>2. \/ UNCHANGED <<send, batch>>
          \/ /\ batch' = [batch EXCEPT ![t] = queue[t]]
             /\ \/ send' = [send EXCEPT ![t] = "ready"]
                \/ send' = [send EXCEPT ![t] = "registering"]
      BY <1>9 DEF SendStarts
    <3> QED
      BY <3>1, <3>2
  <2>4. UNCHANGED <<token, actorKey, granted, mount, presented, rereg, refused, actor, on,
                    serverVars, stamp, dropped, boundVars>>
    BY <1>9 DEF SendStarts
  <2> QED
    BY <2>1, <2>2, <2>3, <2>4 DEF TypeOK, Fate
<1>10. ASSUME NEW t \in Tabs, Post(t) PROVE TypeOK'
  BY <1>10 DEF Post, Caller, TypeOK
<1>11. ASSUME NEW t \in Tabs, PostAnswered(t) PROVE TypeOK'
  <2> DEFINE account == presented[t]["send"]
             outcome == Ingest(account)
             masked == [e \in Event |-> IF outcome[e] = "barred" THEN "refused" ELSE outcome[e]]
  <2>1. account \in Account \union {None} /\ batch[t] \in SUBSET Event
    BY DEF TypeOK, Caller
  <2>2. outcome \in [Event -> Fate] /\ masked \in [Event -> Fate]
    BY DEF Ingest, Fate
  <2>3. Finish(t, batch[t], outcome) \/ Finish(t, batch[t], masked)
    BY <1>11 DEF PostAnswered
  <2>4. /\ queue' \in [Tabs -> SUBSET Event] /\ store' \in SUBSET Event /\ fate' \in [Event -> Fate]
    <3> HIDE DEF outcome, masked
    <3> QED
      BY <2>1, <2>2, <2>3, FinishIsTyped
  <2>5. /\ send' \in [Tabs -> {"idle", "registering", "ready", "posted"}]
        /\ batch' \in [Tabs -> SUBSET Event]
        /\ presented' \in [Tabs -> [Caller -> Account \union {None}]]
    BY <1>11 DEF PostAnswered, TypeOK, Caller
  <2>6. UNCHANGED <<token, actorKey, granted, mount, regs, rereg, refused, actor, on,
                    serverVars, stamp, dropped, boundVars>>
    BY <1>11 DEF PostAnswered
  <2> QED
    BY <2>4, <2>5, <2>6 DEF TypeOK, Fate
<1>12. ASSUME NEW t \in Tabs, PostUnauthorized(t) PROVE TypeOK'
  <2>1. regs' \in [Tabs -> SUBSET Registration]
    <3>1. regs[t] \in SUBSET Registration /\ regs \in [Tabs -> SUBSET Registration]
      BY DEF TypeOK
    <3>2. UNCHANGED regs \/ regs' = [regs EXCEPT ![t] = {[q EXCEPT !.current = FALSE] : q \in @}]
      BY <1>12 DEF PostUnauthorized
    <3> QED
      BY <3>1, <3>2, ForgottenAreTyped
  <2>2. /\ queue' \in [Tabs -> SUBSET Event] /\ store' \in SUBSET Event /\ fate' \in [Event -> Fate]
    <3>1. batch[t] \in SUBSET Event
      BY DEF TypeOK
    <3>2. Finish(t, batch[t], Discarded) \/ UNCHANGED <<queue, store, fate>>
      BY <1>12 DEF PostUnauthorized
    <3> QED
      BY <1>0, <3>1, <3>2, FinishIsTyped DEF TypeOK, Fate
  <2>3. /\ send' \in [Tabs -> {"idle", "registering", "ready", "posted"}]
        /\ batch' \in [Tabs -> SUBSET Event]
        /\ presented' \in [Tabs -> [Caller -> Account \union {None}]]
    BY <1>12 DEF PostUnauthorized, TypeOK, Caller
  <2>4. /\ rereg' \in [Tabs -> 0..MaxReregistrations] /\ refused' \in [Tabs -> BOOLEAN]
        /\ token' \in Account \union {None} /\ dropped' \in Nat
    <3>1. /\ rereg \in [Tabs -> 0..MaxReregistrations] /\ refused \in [Tabs -> BOOLEAN]
          /\ token \in Account \union {None} /\ dropped \in Nat
      BY DEF TypeOK
    <3>2. CASE MayReregister(t)
      <4>1. /\ rereg' = [rereg EXCEPT ![t] = @ + 1] /\ token' = None
            /\ refused' = [refused EXCEPT ![t] = FALSE] /\ dropped' = dropped + 1
        BY <1>12, <3>2 DEF PostUnauthorized
      <4>2. rereg[t] + 1 \in 0..MaxReregistrations
        BY <3>1, <3>2 DEF MayReregister
      <4> QED
        BY <3>1, <4>1, <4>2
    <3>3. CASE ~MayReregister(t)
      <4>1. refused' = [refused EXCEPT ![t] = TRUE] /\ UNCHANGED <<rereg, token, dropped>>
        BY <1>12, <3>3 DEF PostUnauthorized
      <4> QED
        BY <3>1, <4>1
    <3> QED
      BY <3>2, <3>3
  <2>5. UNCHANGED <<actorKey, granted, mount, actor, on, serverVars, stamp, boundVars>>
    BY <1>12 DEF PostUnauthorized
  <2> QED
    BY <2>1, <2>2, <2>3, <2>4, <2>5 DEF TypeOK, Fate
<1>13. ASSUME NEW t \in Tabs, Reload(t) PROVE TypeOK'
  <2>1. PICK n \in Nat : /\ accounts' = accounts + n
                         /\ valid' = valid \union (accounts + 1)..(accounts + n)
    <3>1. \A n : n \in 0..(IF open THEN Cardinality(regs[t]) ELSE 0) => n \in Nat
      OBVIOUS
    <3> QED
      BY <1>13, <3>1 DEF Reload
  <2>2. /\ accounts \in Nat /\ accounts' \in Nat /\ Account \subseteq Account'
        /\ valid' \in SUBSET (Account') /\ valid \subseteq valid'
    BY <2>1 DEF TypeOK
  <2>3. /\ mount' \in [Tabs -> {"start", "registering", "ready", "asking", "over"}]
        /\ send' \in [Tabs -> {"idle", "registering", "ready", "posted"}]
        /\ batch' \in [Tabs -> SUBSET Event] /\ regs' \in [Tabs -> SUBSET Registration]
        /\ presented' \in [Tabs -> [Caller -> Account \union {None}]]
        /\ rereg' \in [Tabs -> 0..MaxReregistrations] /\ refused' \in [Tabs -> BOOLEAN]
        /\ actor' \in [Tabs -> Account \union {None}] /\ on' \in [Tabs -> BOOLEAN]
        /\ queue' \in [Tabs -> SUBSET Event] /\ reloads' \in 0..MaxReloads
    BY <1>13 DEF Reload, TypeOK
  <2>4. UNCHANGED <<storageVars, open, consented, historyVars, rebuilds, registerFaults>>
    BY <1>13 DEF Reload
  <2> QED
    <3> HIDE DEF Account, None
    <3> QED
      BY <2>2, <2>3, <2>4 DEF TypeOK
<1>14. CASE Rebuild
  BY <1>14 DEF Rebuild, TypeOK
<1>15. CASE UNCHANGED vars
  BY <1>15 DEF vars, TypeOK
<1> QED
  BY <1>1, <1>2, <1>3, <1>4, <1>5, <1>6, <1>7, <1>8, <1>9, <1>10, <1>11, <1>12, <1>13, <1>14, <1>15
     DEF Next, Registering, Sending

(* Tokens, registrations and events are what they are declared to be, for   *)
(* however many tabs, rebuilt databases and failed registrations.           *)
THEOREM TypeCorrect == Spec => []TypeOK
<1>1. Init => TypeOK
  BY TypeInit
<1>2. TypeOK /\ [Next]_vars => TypeOK'
  BY TypeNext
<1> QED
  BY <1>1, <1>2, PTL DEF Spec

----------------------------------------------------------------------------
(* What the server's answer does to the fate of events.                     *)

(* The server discards no event, and it refuses one only when it was sent   *)
(* one that is stamped with another id than that of the sender.             *)
LEMMA AnswerIsJust ==
    ASSUME TypeOK, NEW t \in Tabs, PostAnswered(t), NEW e \in Event
    PROVE  /\ fate'[e] = "discarded" => fate[e] = "discarded"
           /\ fate'[e] = "refused" =>
                fate[e] = "refused" \/ \E f \in batch[t] : stamp[f] # presented[t]["send"]
           /\ e \in batch[t] \/ fate[e] # "unborn" => fate'[e] # "unborn"
<1> DEFINE account == presented[t]["send"]
           outcome == Ingest(account)
           masked == [f \in Event |-> IF outcome[f] = "barred" THEN "refused" ELSE outcome[f]]
           Mixed == \E f \in batch[t] : outcome[f] = "refused"
<1>1. /\ outcome[e] \in {"stored", "barred", "refused"}
      /\ masked[e] \in {"stored", "barred", "refused"}
      /\ \A f \in batch[t] : f \in Event /\ (outcome[f] = "refused" => stamp[f] # account)
  BY DEF Ingest, TypeOK
<1>2. \/ Mixed /\ Finish(t, batch[t], masked)
      \/ ~Mixed /\ Finish(t, batch[t], outcome)
  BY DEF PostAnswered
<1>3. Mixed => \E f \in batch[t] : stamp[f] # account
  BY <1>1
<1>4. e \in batch[t] /\ ~Mixed => outcome[e] # "refused"
  OBVIOUS
<1> HIDE DEF account, outcome, masked, Mixed
<1>5. fate'[e] = IF e \in batch[t] /\ fate[e] # "stored"
                 THEN IF Mixed THEN masked[e] ELSE outcome[e]
                 ELSE fate[e]
  BY <1>2 DEF Finish
<1> QED
  BY <1>1, <1>3, <1>4, <1>5 DEF account

----------------------------------------------------------------------------
(* While the database stands every token is good, no batch is sent without  *)
(* one, and a page is refused an account only by a server that is closed.   *)

Sound(t) ==
    /\ send[t] = "ready" => token # None
    /\ send[t] = "posted" => presented[t]["send"] # None
    /\ open => ~refused[t]

NothingLost == dropped = 0 /\ (open => \A e \in Event : fate[e] # "discarded")

Standing == rebuilds = 0 => Account \subseteq valid /\ NothingLost /\ \A t \in Tabs : Sound(t)

(* Only a rebuild is counted as one.                                        *)
LEMMA OnlyRebuildCounts == [Next]_vars => Rebuild \/ UNCHANGED rebuilds
<1> SUFFICES ASSUME [Next]_vars PROVE Rebuild \/ UNCHANGED rebuilds
  OBVIOUS
<1> USE DEF boundVars
<1>1. ASSUME NEW t \in Tabs,
             \/ Grant(t) \/ (\E e \in Event : HandOver(t, e))
             \/ MountStarts(t) \/ AskMe(t) \/ MeAnswered(t) \/ Reload(t)
      PROVE  UNCHANGED rebuilds
  BY <1>1 DEF Grant, HandOver, MountStarts, AskMe, MeAnswered, Reload
<1>2. ASSUME NEW t \in Tabs, Sending(t) PROVE UNCHANGED rebuilds
  BY <1>2 DEF Sending, SendStarts, Post, PostAnswered, PostUnauthorized
<1>3. ASSUME NEW t \in Tabs, Registering(t) PROVE UNCHANGED rebuilds
  BY <1>3 DEF Registering, Registers, RegisterPending, RegisterRefused
<1>4. UNCHANGED vars => UNCHANGED rebuilds
  BY DEF vars
<1> QED
  BY <1>1, <1>2, <1>3, <1>4 DEF Next

(* Every action keeps tokens good while the database stands.                *)
LEMMA StandingNext ==
    TypeOK /\ TypeOK' /\ Standing /\ [Next]_vars => Standing'
<1> SUFFICES ASSUME TypeOK, TypeOK', Standing, [Next]_vars, rebuilds' = 0
             PROVE  Account' \subseteq valid' /\ NothingLost' /\ \A u \in Tabs : Sound(u)'
  BY DEF Standing
<1> USE DEF storageVars, requestVars, pageVars, serverVars, historyVars, boundVars
<1>0. /\ send \in [Tabs -> {"idle", "registering", "ready", "posted"}]
      /\ refused \in [Tabs -> BOOLEAN] /\ presented \in [Tabs -> [Caller -> Account \union {None}]]
      /\ fate \in [Event -> Fate] /\ "send" \in Caller /\ "mount" \in Caller /\ "mount" # "send"
      /\ accounts \in Nat /\ accounts' \in Nat /\ rebuilds \in Nat
  BY IdentityAssumption DEF TypeOK, Fate, Caller
<1>1. rebuilds = 0 /\ ~Rebuild
  <2>1. Rebuild => rebuilds' = rebuilds + 1
    BY DEF Rebuild
  <2>2. ~Rebuild => UNCHANGED rebuilds
    BY OnlyRebuildCounts
  <2> QED
    BY <1>0, <2>1, <2>2
<1>2. Account \subseteq valid /\ NothingLost /\ \A u \in Tabs : Sound(u)
  BY <1>1 DEF Standing
<1>3. ASSUME UNCHANGED <<accounts, valid>> PROVE Account' \subseteq valid'
  BY <1>2, <1>3 DEF Account
<1>4. ASSUME UNCHANGED <<dropped, open>>,
             \A e \in Event : open /\ fate'[e] = "discarded" => fate[e] = "discarded"
      PROVE  NothingLost'
  BY <1>2, <1>4 DEF NothingLost
<1>5. ASSUME UNCHANGED <<send, token, open, refused>>,
             \A u \in Tabs : presented'[u]["send"] = presented[u]["send"]
      PROVE  \A u \in Tabs : Sound(u)'
  BY <1>2, <1>5 DEF Sound, None
<1>6. ASSUME NEW t \in Tabs, Grant(t) \/ (\E e \in Event : HandOver(t, e))
      PROVE  Account' \subseteq valid' /\ NothingLost' /\ \A u \in Tabs : Sound(u)'
  <2>1. /\ UNCHANGED <<accounts, valid, dropped, open, send, token, refused, presented>>
        /\ \A e \in Event : fate'[e] = "discarded" => fate[e] = "discarded"
    BY <1>0, <1>6 DEF Grant, HandOver
  <2> QED
    BY <1>3, <1>4, <1>5, <2>1
<1>7. ASSUME NEW t \in Tabs, MountStarts(t) \/ AskMe(t) \/ MeAnswered(t)
      PROVE  Account' \subseteq valid' /\ NothingLost' /\ \A u \in Tabs : Sound(u)'
  <2>1. UNCHANGED <<accounts, valid, dropped, open, send, token, refused, fate>>
    BY <1>7 DEF MountStarts, AskMe, MeAnswered
  <2>2. \A u \in Tabs : presented'[u]["send"] = presented[u]["send"]
    BY <1>0, <1>7 DEF MountStarts, AskMe, MeAnswered
  <2> QED
    BY <1>3, <1>4, <1>5, <2>1, <2>2
<1>8. ASSUME NEW t \in Tabs, NEW r \in regs[t], Registers(t, r)
      PROVE  Account' \subseteq valid' /\ NothingLost' /\ \A u \in Tabs : Sound(u)'
  <2>1. /\ accounts' = accounts + 1 /\ valid' = valid \union {accounts'} /\ token' = accounts'
        /\ refused' = [refused EXCEPT ![t] = FALSE]
        /\ send' = [send EXCEPT ![t] = IF "send" \in r.waiters THEN "ready" ELSE @]
        /\ UNCHANGED <<presented, open, dropped, fate>>
    BY <1>8 DEF Registers
  <2>2. Account' \subseteq valid'
    BY <1>0, <1>2, <2>1 DEF Account
  <2>3. token' # None
    BY <1>0, <2>1 DEF None
  <2>4. \A u \in Tabs : (send'[u] = "posted" => send[u] = "posted") /\ (refused'[u] => refused[u])
    BY <1>0, <2>1
  <2>5. ASSUME NEW u \in Tabs PROVE Sound(u)'
    BY <1>2, <2>1, <2>3, <2>4 DEF Sound, None
  <2> QED
    BY <1>4, <2>1, <2>2, <2>5
<1>9. ASSUME NEW t \in Tabs, NEW r \in regs[t], RegisterPending(t, r)
      PROVE  Account' \subseteq valid' /\ NothingLost' /\ \A u \in Tabs : Sound(u)'
  <2>1. /\ \/ UNCHANGED <<accounts, valid>>
           \/ accounts' = accounts + 1 /\ valid' = valid \union {accounts'}
        /\ send' = [send EXCEPT ![t] = IF "send" \in r.waiters THEN "idle" ELSE @]
        /\ UNCHANGED <<presented, open, dropped, fate, token, refused>>
    BY <1>9 DEF RegisterPending
  <2>2. Account' \subseteq valid'
    BY <1>0, <1>2, <2>1 DEF Account
  <2>3. \A u \in Tabs : send'[u] # "idle" => send'[u] = send[u]
    BY <1>0, <2>1
  <2>4. ASSUME NEW u \in Tabs PROVE Sound(u)'
    BY <1>2, <2>1, <2>3 DEF Sound, None
  <2> QED
    BY <1>4, <2>1, <2>2, <2>4
<1>10. ASSUME NEW t \in Tabs, NEW r \in regs[t], RegisterRefused(t, r)
       PROVE  Account' \subseteq valid' /\ NothingLost' /\ \A u \in Tabs : Sound(u)'
  <2>1. /\ ~open /\ UNCHANGED <<accounts, valid, presented, open, dropped, token>>
        /\ send' = [send EXCEPT ![t] = "idle"] \/ UNCHANGED send
    BY <1>10 DEF RegisterRefused
  <2>2. \A u \in Tabs : send'[u] # "idle" => send'[u] = send[u]
    BY <1>0, <2>1
  <2>3. ASSUME NEW u \in Tabs PROVE Sound(u)'
    BY <1>2, <2>1, <2>2 DEF Sound, None
  <2> QED
    BY <1>3, <1>4, <2>1, <2>3
<1>11. ASSUME NEW t \in Tabs, SendStarts(t)
       PROVE  Account' \subseteq valid' /\ NothingLost' /\ \A u \in Tabs : Sound(u)'
  <2>1. /\ UNCHANGED <<accounts, valid, presented, open, dropped, token, refused>>
        /\ \/ token # None /\ send' = [send EXCEPT ![t] = "ready"] /\ UNCHANGED fate
           \/ send' = [send EXCEPT ![t] = "registering"] /\ UNCHANGED fate
           \/ refused[t] /\ UNCHANGED send
    BY <1>11 DEF SendStarts
  <2>2. /\ \A u \in Tabs : send'[u] = "ready" => send[u] = "ready" \/ token # None
        /\ \A u \in Tabs : send'[u] = "posted" => send[u] = "posted"
    BY <1>0, <2>1
  <2>3. refused[t] => ~open
    BY <1>2 DEF Sound
  <2>4. ASSUME NEW u \in Tabs PROVE Sound(u)'
    BY <1>2, <2>1, <2>2 DEF Sound, None
  <2> QED
    BY <1>3, <1>4, <2>1, <2>3, <2>4
<1>12. ASSUME NEW t \in Tabs, Post(t)
       PROVE  Account' \subseteq valid' /\ NothingLost' /\ \A u \in Tabs : Sound(u)'
  <2>1. /\ send[t] = "ready" /\ send' = [send EXCEPT ![t] = "posted"]
        /\ presented' = [presented EXCEPT ![t]["send"] = token]
        /\ UNCHANGED <<accounts, valid, open, dropped, fate, token, refused>>
    BY <1>12 DEF Post
  <2>2. token # None
    BY <1>2, <2>1 DEF Sound
  <2>3. ASSUME NEW u \in Tabs PROVE Sound(u)'
    <3>1. CASE u = t
      <4>1. send'[u] = "posted" /\ presented'[u]["send"] = token
        BY <1>0, <2>1, <3>1
      <4> QED
        BY <1>2, <2>1, <2>2, <4>1 DEF Sound, None
    <3>2. CASE u # t
      <4>1. send'[u] = send[u] /\ presented'[u] = presented[u]
        BY <1>0, <2>1, <3>2
      <4> QED
        BY <1>2, <2>1, <4>1 DEF Sound, None
    <3> QED
      BY <3>1, <3>2
  <2> QED
    BY <1>3, <1>4, <2>1, <2>3
<1>13. ASSUME NEW t \in Tabs, PostAnswered(t)
       PROVE  Account' \subseteq valid' /\ NothingLost' /\ \A u \in Tabs : Sound(u)'
  <2>1. /\ send' = [send EXCEPT ![t] = "idle"]
        /\ presented' = [presented EXCEPT ![t]["send"] = None]
        /\ UNCHANGED <<accounts, valid, open, dropped, token, refused>>
    BY <1>13 DEF PostAnswered
  <2>2. \A u \in Tabs : send'[u] = "idle" \/ (send'[u] = send[u] /\ presented'[u] = presented[u])
    BY <1>0, <2>1
  <2>3. ASSUME NEW u \in Tabs PROVE Sound(u)'
    BY <1>2, <2>1, <2>2 DEF Sound, None
  <2>4. \A e \in Event : fate'[e] = "discarded" => fate[e] = "discarded"
    BY <1>13, AnswerIsJust
  <2> QED
    BY <1>3, <1>4, <2>1, <2>3, <2>4
<1>14. ASSUME NEW t \in Tabs, PostUnauthorized(t) PROVE FALSE
  <2>1. send[t] = "posted" /\ presented[t]["send"] \notin valid
    BY <1>14 DEF PostUnauthorized
  <2>2. presented[t]["send"] \in Account
    BY <1>0, <1>2, <2>1 DEF Sound
  <2> QED
    BY <1>2, <2>1, <2>2
<1>15. ASSUME NEW t \in Tabs, Reload(t)
       PROVE  Account' \subseteq valid' /\ NothingLost' /\ \A u \in Tabs : Sound(u)'
  <2>1. /\ send' = [send EXCEPT ![t] = "idle"] /\ refused' = [refused EXCEPT ![t] = FALSE]
        /\ presented' = [presented EXCEPT ![t] = [c \in Caller |-> None]]
        /\ UNCHANGED <<token, open, dropped, fate>>
    BY <1>15 DEF Reload
  <2>2. PICK n \in Nat : /\ accounts' = accounts + n
                         /\ valid' = valid \union (accounts + 1)..(accounts + n)
    <3>1. \A n : n \in 0..(IF open THEN Cardinality(regs[t]) ELSE 0) => n \in Nat
      OBVIOUS
    <3> QED
      BY <1>15, <3>1 DEF Reload
  <2>3. Account' \subseteq valid'
    BY <1>0, <1>2, <2>2 DEF Account
  <2>4. \A u \in Tabs : /\ send'[u] = "idle" \/ (send'[u] = send[u] /\ presented'[u] = presented[u])
                        /\ refused'[u] => refused[u]
    BY <1>0, <2>1
  <2>5. ASSUME NEW u \in Tabs PROVE Sound(u)'
    BY <1>2, <2>1, <2>4 DEF Sound, None
  <2> QED
    BY <1>4, <2>1, <2>3, <2>5
<1>16. CASE UNCHANGED vars
  BY <1>3, <1>4, <1>5, <1>16 DEF vars
<1> QED
  BY <1>1, <1>6, <1>7, <1>8, <1>9, <1>10, <1>11, <1>12, <1>13, <1>14, <1>15, <1>16
     DEF Next, Registering, Sending

----------------------------------------------------------------------------
(* How many tokens are dropped: what the pages there are have replaced, and *)
(* as much as one may for every page that died.                             *)

Replaced == {p \in Tabs \X (1..MaxReregistrations) : p[2] <= rereg[p[1]]}

DropsCounted == dropped <= Cardinality(Replaced) + MaxReregistrations * reloads

(* What pages may replace can be counted.                                   *)
LEMMA ReplacedCounts ==
    /\ Cardinality(Tabs) \in Nat
    /\ \A t \in Tabs : /\ IsFiniteSet({t} \X (1..MaxReregistrations))
                       /\ Cardinality({t} \X (1..MaxReregistrations)) = MaxReregistrations
    /\ \A S : S \subseteq Tabs \X (1..MaxReregistrations) =>
            /\ IsFiniteSet(S) /\ Cardinality(S) \in Nat
            /\ Cardinality(S) <= Cardinality(Tabs) * MaxReregistrations
<1>1. IsFiniteSet(Tabs) /\ Cardinality(Tabs) \in Nat /\ MaxReregistrations \in Nat
  BY IdentityAssumption, FS_CardinalityType
<1>2. IsFiniteSet(1..MaxReregistrations) /\ Cardinality(1..MaxReregistrations) = MaxReregistrations
  <2>1. MaxReregistrations \in Int /\ 1 \in Int
    BY <1>1
  <2>2. Cardinality(1..MaxReregistrations)
          = IF 1 > MaxReregistrations THEN 0 ELSE MaxReregistrations - 1 + 1
    BY <2>1, FS_Interval
  <2> QED
    BY <1>1, <2>1, <2>2, FS_Interval
<1> DEFINE D == 1..MaxReregistrations
<1> HIDE DEF D
<1>3. IsFiniteSet(D) /\ Cardinality(D) = MaxReregistrations
  BY <1>2 DEF D
<1>4. /\ IsFiniteSet(Tabs \X D)
      /\ Cardinality(Tabs \X D) = Cardinality(Tabs) * Cardinality(D)
  BY <1>1, <1>3, FS_Product
<1>5. ASSUME NEW t \in Tabs
      PROVE  IsFiniteSet({t} \X D) /\ Cardinality({t} \X D) = MaxReregistrations
  <2>1. IsFiniteSet({t}) /\ Cardinality({t}) = 1
    BY FS_Singleton
  <2>2. IsFiniteSet({t} \X D) /\ Cardinality({t} \X D) = Cardinality({t}) * Cardinality(D)
    BY <1>3, <2>1, FS_Product
  <2> QED
    BY <1>1, <1>3, <2>1, <2>2
<1>6. ASSUME NEW S, S \subseteq Tabs \X D
      PROVE  /\ IsFiniteSet(S) /\ Cardinality(S) \in Nat
             /\ Cardinality(S) <= Cardinality(Tabs) * MaxReregistrations
  <2>1. IsFiniteSet(S) /\ Cardinality(S) <= Cardinality(Tabs \X D)
    BY <1>4, <1>6, FS_Subset
  <2> QED
    BY <1>3, <1>4, <2>1, FS_CardinalityType
<1> QED
  BY <1>1, <1>5, <1>6 DEF D

(* Every action keeps the count of dropped tokens.                          *)
LEMMA DropsNext == TypeOK /\ TypeOK' /\ DropsCounted /\ [Next]_vars => DropsCounted'
<1> SUFFICES ASSUME TypeOK, TypeOK', DropsCounted, [Next]_vars PROVE DropsCounted'
  OBVIOUS
<1> USE DEF storageVars, requestVars, pageVars, serverVars, historyVars, boundVars
<1> DEFINE R == Cardinality(Replaced)
           R1 == Cardinality(Replaced')
           Max == MaxReregistrations
<1>0. /\ rereg \in [Tabs -> 0..Max] /\ dropped \in Nat /\ reloads \in Nat /\ Max \in Nat
  BY IdentityAssumption DEF TypeOK
<1>1. /\ Replaced \subseteq Tabs \X (1..Max) /\ Replaced' \subseteq Tabs \X (1..Max)
      /\ IsFiniteSet(Replaced) /\ IsFiniteSet(Replaced') /\ R \in Nat /\ R1 \in Nat
  <2>1. Replaced \subseteq Tabs \X (1..Max) /\ Replaced' \subseteq Tabs \X (1..Max)
    BY DEF Replaced
  <2> QED
    BY <2>1, ReplacedCounts
<1>2. dropped <= R + Max * reloads
  BY DEF DropsCounted
<1>3. ASSUME UNCHANGED <<rereg, dropped, reloads>> PROVE DropsCounted'
  BY <1>3 DEF DropsCounted, Replaced
<1>4. ASSUME NEW t \in Tabs, PostUnauthorized(t) PROVE DropsCounted'
  <2>1. CASE MayReregister(t)
    <3>1. /\ rereg' = [rereg EXCEPT ![t] = @ + 1] /\ dropped' = dropped + 1 /\ UNCHANGED reloads
      BY <1>4, <2>1 DEF PostUnauthorized
    <3>2. rereg[t] \in 0..Max /\ rereg[t] + 1 \in 1..Max
      BY <1>0, <2>1 DEF MayReregister
    <3> DEFINE x == <<t, rereg[t] + 1>>
    <3>3. x \notin Replaced
      BY <3>2 DEF Replaced
    <3>4. Replaced \union {x} \subseteq Replaced'
      BY <1>0, <3>1, <3>2 DEF Replaced
    <3> HIDE DEF x
    <3>5. Cardinality(Replaced \union {x}) = R + 1
      BY <1>1, <3>3, FS_AddElement
    <3>6. Cardinality(Replaced \union {x}) <= R1
      BY <1>1, <3>4, FS_Subset
    <3> DEFINE P == Max * reloads
    <3>7. P \in Nat
      BY <1>0
    <3> HIDE DEF R, R1, P
    <3>8. dropped' <= R1 + P
      BY <1>0, <1>1, <1>2, <3>1, <3>5, <3>6, <3>7 DEF P
    <3> QED
      BY <3>1, <3>8 DEF DropsCounted, R1, P
  <2>2. CASE ~MayReregister(t)
    BY <1>3, <1>4, <2>2 DEF PostUnauthorized
  <2> QED
    BY <2>1, <2>2
<1>5. ASSUME NEW t \in Tabs, Reload(t) PROVE DropsCounted'
  <2>1. /\ rereg' = [rereg EXCEPT ![t] = 0] /\ reloads' = reloads + 1 /\ UNCHANGED dropped
    BY <1>5 DEF Reload
  <2> DEFINE own == {t} \X (1..Max)
  <2>2. Replaced \subseteq Replaced' \union own
    <3> SUFFICES ASSUME NEW p \in Replaced, p[1] # t PROVE p \in Replaced'
      BY DEF Replaced
    <3>1. rereg'[p[1]] = rereg[p[1]]
      BY <1>0, <2>1 DEF Replaced
    <3> QED
      BY <3>1 DEF Replaced
  <2>3. IsFiniteSet(own) /\ Cardinality(own) = Max
    BY ReplacedCounts
  <2> HIDE DEF own
  <2>4. /\ IsFiniteSet(Replaced' \union own)
        /\ Cardinality(Replaced' \union own) <= R1 + Max
    <3>1. IsFiniteSet(Replaced' \union own)
      BY <1>1, <2>3, FS_Union
    <3>2. Cardinality(Replaced' \union own) = R1 + Max - Cardinality(Replaced' \intersect own)
      BY <1>1, <2>3, FS_Union
    <3>3. Cardinality(Replaced' \intersect own) \in Nat
      BY <1>1, FS_Intersection, FS_CardinalityType
    <3> QED
      BY <1>0, <1>1, <3>1, <3>2, <3>3
  <2>5. R <= Cardinality(Replaced' \union own) /\ Cardinality(Replaced' \union own) \in Nat
    BY <2>2, <2>4, FS_Subset, FS_CardinalityType
  <2> DEFINE P == Max * reloads
             P1 == Max * (reloads + 1)
  <2>6. P \in Nat /\ P1 = P + Max
    BY <1>0
  <2>7. dropped <= R + P
    BY <1>2
  <2> HIDE DEF R, R1, P, P1
  <2>8. dropped <= R1 + P1
    BY <1>0, <1>1, <2>4, <2>5, <2>6, <2>7
  <2> QED
    BY <2>1, <2>8 DEF DropsCounted, R1, P1
<1>6. ASSUME NEW t \in Tabs,
             \/ Grant(t) \/ (\E e \in Event : HandOver(t, e))
             \/ MountStarts(t) \/ AskMe(t) \/ MeAnswered(t)
             \/ SendStarts(t) \/ Post(t) \/ PostAnswered(t)
             \/ \E r \in regs[t] : Registers(t, r) \/ RegisterPending(t, r) \/ RegisterRefused(t, r)
      PROVE  DropsCounted'
  BY <1>3, <1>6 DEF Grant, HandOver, MountStarts, AskMe, MeAnswered, SendStarts, Post, PostAnswered,
                    Registers, RegisterPending, RegisterRefused
<1>7. CASE Rebuild
  BY <1>3, <1>7 DEF Rebuild
<1>8. CASE UNCHANGED vars
  BY <1>3, <1>8 DEF vars
<1> QED
  BY <1>4, <1>5, <1>6, <1>7, <1>8 DEF Next, Registering, Sending

(* Tabs that share a token neither find it dead nor lose anything to it     *)
(* while the database stands; and however they drop each other's tokens     *)
(* after it was rebuilt, no page does so more often than it may.            *)
THEOREM DropsStayBounded == Spec => []DropsAreBounded
<1>1. Init => Standing
  BY DEF Init, Standing, Sound, NothingLost, Account, None
<1>2. Init => DropsCounted
  <2> SUFFICES ASSUME Init PROVE DropsCounted
    OBVIOUS
  <2>1. dropped = 0 /\ reloads = 0
    BY DEF Init
  <2>2. Replaced \subseteq Tabs \X (1..MaxReregistrations)
    BY DEF Replaced
  <2>3. Cardinality(Replaced) \in Nat
    BY <2>2, ReplacedCounts
  <2> QED
    BY <2>1, <2>3, IdentityAssumption DEF DropsCounted
<1>3. TypeOK /\ Standing /\ DropsCounted => DropsAreBounded
  <2> SUFFICES ASSUME TypeOK, Standing, DropsCounted
               PROVE  dropped <= MaxReregistrations * (Cardinality(Tabs) + reloads)
    BY DEF Standing, NothingLost, DropsAreBounded
  <2> DEFINE R == Cardinality(Replaced)
             N == Cardinality(Tabs)
             Max == MaxReregistrations
  <2>1. Replaced \subseteq Tabs \X (1..MaxReregistrations)
    BY DEF Replaced
  <2>2. R \in Nat /\ R <= N * Max /\ N \in Nat
    BY <2>1, ReplacedCounts
  <2>3. Max \in Nat /\ reloads \in Nat /\ dropped \in Nat
    BY IdentityAssumption DEF TypeOK
  <2>4. dropped <= R + Max * reloads
    BY DEF DropsCounted
  <2> HIDE DEF R, N, Max
  <2>5. Max * (N + reloads) = N * Max + Max * reloads
    BY <2>2, <2>3
  <2> DEFINE P == N * Max
             Q == Max * reloads
  <2>6. P \in Nat /\ Q \in Nat
    BY <2>2, <2>3
  <2>7. dropped <= R + Q /\ R <= P
    BY <2>2, <2>4
  <2> HIDE DEF P, Q
  <2>8. dropped <= P + Q
    BY <2>2, <2>3, <2>6, <2>7
  <2> QED
    BY <2>5, <2>8 DEF P, Q, N, Max
<1>4. TypeOK /\ TypeOK' /\ Standing /\ [Next]_vars => Standing'
  BY StandingNext
<1>5. TypeOK /\ TypeOK' /\ DropsCounted /\ [Next]_vars => DropsCounted'
  BY DropsNext
<1> QED
  BY <1>1, <1>2, <1>3, <1>4, <1>5, TypeCorrect, PTL DEF Spec

----------------------------------------------------------------------------
(* One tab.  It holds a dead token only for a database that was rebuilt     *)
(* since its page loaded and that it has not replaced a token for; it sends *)
(* nothing without a token; so a 401 is always one it may still replace.    *)

Alone(t) ==
    /\ send[t] = "ready" => token # None
    /\ rereg[t] <= rebuilds
    /\ rereg[t] = rebuilds =>
            /\ token \in valid \union {None}
            /\ send[t] = "posted" => presented[t]["send"] \in valid
    /\ open /\ rebuilds <= MaxReregistrations => ~refused[t]

(* Every action keeps a lone tab's accounts and tokens in step.             *)
LEMMA AloneNext ==
    ASSUME NEW tab, Tabs = {tab}, TypeOK, TypeOK', Alone(tab), DeadTokensDiscardNothing, [Next]_vars
    PROVE  Alone(tab)' /\ DeadTokensDiscardNothing'
<1> USE IdentityAssumption DEF storageVars, requestVars, pageVars, serverVars, historyVars, boundVars
<1>0. /\ rereg \in [Tabs -> 0..MaxReregistrations] /\ rebuilds \in Nat /\ send \in [Tabs -> {"idle", "registering", "ready", "posted"}]
      /\ refused \in [Tabs -> BOOLEAN] /\ presented \in [Tabs -> [Caller -> Account \union {None}]]
      /\ fate \in [Event -> Fate] /\ "send" \in Caller /\ tab \in Tabs /\ accounts \in Nat /\ rereg[tab] \in Nat
      /\ token \in Account \union {None} /\ rebuilds' \in Nat
  BY DEF TypeOK, Fate, Caller
<1>1. ASSUME UNCHANGED <<send, presented, token, rereg, rebuilds, valid, open, refused, fate>>
      PROVE  Alone(tab)' /\ DeadTokensDiscardNothing'
  BY <1>1 DEF Alone, DeadTokensDiscardNothing
<1>2. ASSUME Grant(tab) \/ (\E e \in Event : HandOver(tab, e)) PROVE Alone(tab)' /\ DeadTokensDiscardNothing'
  <2>1. /\ UNCHANGED <<send, presented, token, rereg, rebuilds, valid, open, refused>>
        /\ \A e \in Event : fate'[e] = "discarded" => fate[e] = "discarded"
    BY <1>0, <1>2 DEF Grant, HandOver
  <2> QED
    BY <2>1 DEF Alone, DeadTokensDiscardNothing
<1>3. ASSUME MountStarts(tab) PROVE Alone(tab)' /\ DeadTokensDiscardNothing'
  BY <1>1, <1>3 DEF MountStarts
<1>4. ASSUME AskMe(tab) \/ MeAnswered(tab) PROVE Alone(tab)' /\ DeadTokensDiscardNothing'
  <2>1. /\ UNCHANGED <<send, token, rereg, rebuilds, valid, open, refused, fate>>
        /\ presented'[tab]["send"] = presented[tab]["send"]
    BY <1>0, <1>4 DEF AskMe, MeAnswered, Caller
  <2> QED
    BY <2>1 DEF Alone, DeadTokensDiscardNothing
<1>5. ASSUME NEW r \in regs[tab], Registers(tab, r) PROVE Alone(tab)' /\ DeadTokensDiscardNothing'
  <2>1. /\ token' = accounts' /\ accounts' = accounts + 1 /\ valid' = valid \union {accounts'}
        /\ refused' = [refused EXCEPT ![tab] = FALSE]
        /\ send' = [send EXCEPT ![tab] = IF "send" \in r.waiters THEN "ready" ELSE @]
        /\ UNCHANGED <<presented, rereg, rebuilds, open, fate>>
    BY <1>5 DEF Registers
  <2>2. token' # None /\ token' \in valid' /\ ~refused'[tab]
    BY <1>0, <2>1 DEF None
  <2>3. send'[tab] = "posted" => send[tab] = "posted"
    BY <1>0, <2>1
  <2> QED
    BY <2>1, <2>2, <2>3 DEF Alone, DeadTokensDiscardNothing
<1>6. ASSUME NEW r \in regs[tab], RegisterPending(tab, r) PROVE Alone(tab)' /\ DeadTokensDiscardNothing'
  <2>1. /\ valid \subseteq valid' /\ send' = [send EXCEPT ![tab] = IF "send" \in r.waiters THEN "idle" ELSE @]
        /\ UNCHANGED <<token, presented, rereg, rebuilds, open, refused, fate>>
    BY <1>6 DEF RegisterPending
  <2>2. send'[tab] # "idle" => send'[tab] = send[tab]
    BY <1>0, <2>1
  <2> QED
    BY <2>1, <2>2 DEF Alone, DeadTokensDiscardNothing
<1>7. ASSUME NEW r \in regs[tab], RegisterRefused(tab, r) PROVE Alone(tab)' /\ DeadTokensDiscardNothing'
  <2>1. /\ ~open /\ UNCHANGED <<token, presented, rereg, rebuilds, valid, open>>
        /\ send' = [send EXCEPT ![tab] = "idle"] \/ UNCHANGED send
    BY <1>7 DEF RegisterRefused
  <2>2. send'[tab] # "idle" => send'[tab] = send[tab]
    BY <1>0, <2>1
  <2> QED
    BY <2>1, <2>2 DEF Alone, DeadTokensDiscardNothing
<1>8. ASSUME SendStarts(tab) PROVE Alone(tab)' /\ DeadTokensDiscardNothing'
  <2>1. /\ UNCHANGED <<token, presented, rereg, rebuilds, valid, open, refused>>
        /\ \/ token # None /\ send' = [send EXCEPT ![tab] = "ready"] /\ UNCHANGED fate
           \/ send' = [send EXCEPT ![tab] = "registering"] /\ UNCHANGED fate
           \/ refused[tab] /\ UNCHANGED send
    BY <1>8 DEF SendStarts
  <2>2. /\ send'[tab] = "ready" => token # None
        /\ send'[tab] = "posted" => send[tab] = "posted"
        /\ open /\ rebuilds <= MaxReregistrations => UNCHANGED fate
    BY <1>0, <2>1 DEF Alone
  <2> QED
    BY <2>1, <2>2 DEF Alone, DeadTokensDiscardNothing
<1>9. ASSUME Post(tab) PROVE Alone(tab)' /\ DeadTokensDiscardNothing'
  <2>1. /\ send[tab] = "ready" /\ send' = [send EXCEPT ![tab] = "posted"]
        /\ presented' = [presented EXCEPT ![tab]["send"] = token]
        /\ UNCHANGED <<token, rereg, rebuilds, valid, open, refused, fate>>
    BY <1>9 DEF Post
  <2>2. send'[tab] = "posted" /\ presented'[tab]["send"] = token
    BY <1>0, <2>1
  <2> QED
    BY <2>1, <2>2 DEF Alone, DeadTokensDiscardNothing
<1>10. ASSUME PostAnswered(tab) PROVE Alone(tab)' /\ DeadTokensDiscardNothing'
  <2>1. send' = [send EXCEPT ![tab] = "idle"] /\ UNCHANGED <<token, rereg, rebuilds, valid, open, refused>>
    BY <1>10 DEF PostAnswered
  <2>2. send'[tab] = "idle"
    BY <1>0, <2>1
  <2>3. \A e \in Event : fate'[e] = "discarded" => fate[e] = "discarded"
    BY <1>0, <1>10, AnswerIsJust
  <2> QED
    BY <2>1, <2>2, <2>3 DEF Alone, DeadTokensDiscardNothing
<1>11. ASSUME PostUnauthorized(tab) PROVE Alone(tab)' /\ DeadTokensDiscardNothing'
  <2>1. /\ send[tab] = "posted" /\ presented[tab]["send"] \notin valid
        /\ send' = [send EXCEPT ![tab] = "idle"] /\ UNCHANGED <<rebuilds, valid, open>>
    BY <1>11 DEF PostUnauthorized
  <2>2. rereg[tab] < rebuilds /\ send'[tab] = "idle"
    BY <1>0, <2>1 DEF Alone
  <2>3. CASE MayReregister(tab)
    <3>1. /\ rereg' = [rereg EXCEPT ![tab] = @ + 1] /\ token' = None
          /\ refused' = [refused EXCEPT ![tab] = FALSE] /\ UNCHANGED fate
      BY <1>11, <2>3 DEF PostUnauthorized
    <3>2. rereg'[tab] <= rebuilds /\ ~refused'[tab]
      BY <1>0, <2>2, <3>1
    <3> QED
      BY <2>1, <2>2, <3>1, <3>2 DEF Alone, DeadTokensDiscardNothing
  <2>4. CASE ~MayReregister(tab)
    <3>1. UNCHANGED <<rereg, token>>
      BY <1>11, <2>4 DEF PostUnauthorized
    <3>2. MaxReregistrations < rebuilds
      BY <1>0, <2>2, <2>4 DEF MayReregister
    <3>3. ~(rebuilds <= MaxReregistrations)
      BY <1>0, <3>2
    <3> QED
      BY <1>0, <2>1, <2>2, <3>1, <3>3 DEF Alone, DeadTokensDiscardNothing
  <2> QED
    BY <2>3, <2>4
<1>12. ASSUME Reload(tab) PROVE Alone(tab)' /\ DeadTokensDiscardNothing'
  <2>1. /\ send' = [send EXCEPT ![tab] = "idle"] /\ rereg' = [rereg EXCEPT ![tab] = 0]
        /\ refused' = [refused EXCEPT ![tab] = FALSE] /\ valid \subseteq valid'
        /\ UNCHANGED <<token, open, fate, rebuilds>>
    BY <1>12 DEF Reload
  <2>2. send'[tab] = "idle" /\ rereg'[tab] = 0 /\ ~refused'[tab]
    BY <1>0, <2>1
  <2>3. rereg'[tab] = rebuilds => rereg[tab] = rebuilds
    BY <1>0, <2>2 DEF Alone
  <2> QED
    BY <1>0, <2>1, <2>2, <2>3 DEF Alone, DeadTokensDiscardNothing
<1>13. CASE Rebuild
  <2>1. rebuilds' = rebuilds + 1 /\ UNCHANGED <<send, token, rereg, open, refused, fate>>
    BY <1>13 DEF Rebuild
  <2>2. rereg[tab] < rebuilds' /\ (rebuilds' <= MaxReregistrations => rebuilds <= MaxReregistrations)
    BY <1>0, <2>1 DEF Alone
  <2> QED
    BY <1>0, <2>1, <2>2 DEF Alone, DeadTokensDiscardNothing
<1>14. CASE UNCHANGED vars
  BY <1>1, <1>14 DEF vars
<1> QED
  BY <1>2, <1>3, <1>4, <1>5, <1>6, <1>7, <1>8, <1>9, <1>10, <1>11, <1>12, <1>13, <1>14
     DEF Next, Registering, Sending

(* A page that has the browser to itself replaces as many dead tokens as it *)
(* is meant to and discards nothing for them: it never sends without a      *)
(* token, never drops a token that is still good, and so its count of       *)
(* replaced tokens never runs ahead of the databases that were rebuilt.     *)
THEOREM OneTabDiscardsNothing ==
    ASSUME NEW tab, Tabs = {tab}
    PROVE  Spec => []DeadTokensDiscardNothing
<1>1. Init => Alone(tab) /\ DeadTokensDiscardNothing
  BY IdentityAssumption DEF Init, Alone, DeadTokensDiscardNothing
<1>2. TypeOK /\ TypeOK' /\ Alone(tab) /\ DeadTokensDiscardNothing /\ [Next]_vars
        => Alone(tab)' /\ DeadTokensDiscardNothing'
  BY AloneNext
<1> QED
  BY <1>1, <1>2, TypeCorrect, PTL DEF Spec

----------------------------------------------------------------------------
(* How many accounts there are.  A registration that is on its way may make *)
(* one, and so may the next one a tab starts, which it does only without a  *)
(* token and with none to join.  Counting both with the accounts there are, *)
(* nothing but a dropped token, a failure or a page's death adds to them.   *)

Outstanding == {p \in Tabs \X Registration : p[2] \in regs[p[1]]}

MayStart == {t \in Tabs : token = None /\ \A r \in regs[t] : ~r.current}

Allowed == Cardinality(Tabs) * (1 + dropped) + registerFaults + reloads

Counted == accounts + Cardinality(Outstanding) + Cardinality(MayStart) <= Allowed

(* There are finitely many registrations a tab can have.                    *)
LEMMA RegistrationsFinite == IsFiniteSet(Registration)
<1> DEFINE pairs == (SUBSET Caller) \X BOOLEAN
           f == [p \in pairs |-> [waiters |-> p[1], current |-> p[2]]]
<1>1. IsFiniteSet(Caller)
  <2>1. IsFiniteSet({"mount"}) /\ IsFiniteSet({"mount"} \union {"send"})
    BY FS_Singleton, FS_AddElement
  <2>2. Caller = {"mount"} \union {"send"}
    BY DEF Caller
  <2> QED
    BY <2>1, <2>2
<1>2. IsFiniteSet(BOOLEAN)
  <2>1. IsFiniteSet({TRUE}) /\ IsFiniteSet({TRUE} \union {FALSE})
    BY FS_Singleton, FS_AddElement
  <2>2. BOOLEAN = {TRUE} \union {FALSE}
    OBVIOUS
  <2> QED
    BY <2>1, <2>2
<1>3. IsFiniteSet(pairs)
  BY <1>1, <1>2, FS_SUBSET, FS_Product
<1>4. \A r \in Registration : <<r.waiters, r.current>> \in pairs
        /\ r = f[<<r.waiters, r.current>>]
  BY DEF Registration
<1>5. f \in [pairs -> Registration]
  BY DEF Registration
<1>6. \A r \in Registration : \E p \in pairs : f[p] = r
  BY <1>4
<1> HIDE DEF pairs, f
<1>7. f \in Surjection(pairs, Registration)
  BY <1>5, <1>6 DEF Surjection
<1> QED
  BY <1>3, <1>7, FS_Surjection

(* What is counted can be counted.                                          *)
LEMMA CountsAreNumbers ==
    /\ IsFiniteSet(Tabs) /\ Cardinality(Tabs) \in Nat
    /\ \A S : S \subseteq Tabs \X Registration => IsFiniteSet(S) /\ Cardinality(S) \in Nat
    /\ \A S : S \subseteq Tabs =>
            IsFiniteSet(S) /\ Cardinality(S) \in Nat /\ Cardinality(S) <= Cardinality(Tabs)
<1>1. IsFiniteSet(Tabs)
  BY IdentityAssumption
<1>2. IsFiniteSet(Tabs \X Registration)
  BY <1>1, RegistrationsFinite, FS_Product
<1> QED
  BY <1>1, <1>2, FS_Subset, FS_CardinalityType

(* A page that forgets the registrations of S has no more of them on their  *)
(* way, and those that are not in S are gone.                               *)
LEMMA ForgettingCounts ==
    ASSUME TypeOK, NEW t \in Tabs, NEW S \in SUBSET regs[t],
           regs' = [regs EXCEPT ![t] = {[q EXCEPT !.current = FALSE] : q \in S}]
    PROVE  LET left == {p \in Outstanding : p[1] = t => p[2] \in S} IN
           Cardinality(Outstanding') <= Cardinality(left)
<1> DEFINE left == {p \in Outstanding : p[1] = t => p[2] \in S}
           Forgotten(q) == [q EXCEPT !.current = FALSE]
           f == [p \in left |-> IF p[1] = t THEN <<t, Forgotten(p[2])>> ELSE p]
<1>1. regs \in [Tabs -> SUBSET Registration] /\ S \subseteq Registration
  BY DEF TypeOK
<1>2. \A q \in Registration : Forgotten(q) \in Registration
  BY DEF Registration
<1>3. \A p : p \in left <=> /\ p \in Tabs \X Registration /\ p[2] \in regs[p[1]]
                            /\ p[1] = t => p[2] \in S
  BY DEF Outstanding
<1>4. /\ \A u \in Tabs \ {t} : regs'[u] = regs[u]
      /\ regs'[t] = {Forgotten(q) : q \in S}
  BY <1>1
<1>5. \A p : p \in Outstanding' <=> p \in Tabs \X Registration /\ p[2] \in regs'[p[1]]
  BY DEF Outstanding
<1> HIDE DEF left, Forgotten
<1>6. f \in [left -> Outstanding']
  <2> SUFFICES ASSUME NEW p \in left
               PROVE  (IF p[1] = t THEN <<t, Forgotten(p[2])>> ELSE p) \in Outstanding'
    OBVIOUS
  <2>1. p \in Tabs \X Registration /\ p[2] \in regs[p[1]] /\ (p[1] = t => p[2] \in S)
    BY <1>3
  <2>2. CASE p[1] = t
    <3>1. <<t, Forgotten(p[2])>> \in Tabs \X Registration /\ Forgotten(p[2]) \in regs'[t]
      BY <1>2, <1>4, <2>1, <2>2
    <3> QED
      BY <1>5, <2>2, <3>1
  <2>3. CASE p[1] # t
    BY <1>4, <1>5, <2>1, <2>3
  <2> QED
    BY <2>2, <2>3
<1>7. \A o \in Outstanding' : \E p \in left : f[p] = o
  <2> SUFFICES ASSUME NEW o \in Outstanding' PROVE \E p \in left : f[p] = o
    OBVIOUS
  <2>1. o \in Tabs \X Registration /\ o[2] \in regs'[o[1]] /\ o = <<o[1], o[2]>>
    BY <1>5
  <2>2. CASE o[1] = t
    <3>1. PICK q \in S : o[2] = Forgotten(q)
      BY <1>4, <2>1, <2>2
    <3>2. <<t, q>> \in left
      BY <1>1, <1>3
    <3>3. f[<<t, q>>] = <<t, Forgotten(q)>>
      BY <3>2
    <3> QED
      BY <2>1, <2>2, <3>1, <3>2, <3>3
  <2>3. CASE o[1] # t
    <3>1. o \in left
      BY <1>3, <1>4, <2>1, <2>3
    <3> QED
      BY <2>3, <3>1
  <2> QED
    BY <2>2, <2>3
<1> HIDE DEF f
<1>8. f \in Surjection(left, Outstanding')
  BY <1>6, <1>7 DEF Surjection
<1>9. IsFiniteSet(left)
  BY CountsAreNumbers, <1>3
<1> QED
  BY <1>8, <1>9, FS_Surjection DEF left

(* A registration that settles is one fewer that may make an account.       *)
LEMMA SettlingCounts ==
    ASSUME TypeOK, NEW t \in Tabs, NEW r \in regs[t],
           regs' = [regs EXCEPT ![t] = Settled(t, r)]
    PROVE  Cardinality(Outstanding') + 1 <= Cardinality(Outstanding)
<1> DEFINE S == regs[t] \ {r}
           left == {p \in Outstanding : p[1] = t => p[2] \in S}
<1>1. regs \in [Tabs -> SUBSET Registration]
  BY DEF TypeOK
<1>2. regs' = [regs EXCEPT ![t] = {[q EXCEPT !.current = FALSE] : q \in S}]
  BY DEF Settled
<1>3. Cardinality(Outstanding') <= Cardinality(left)
  <2> HIDE DEF S
  <2>1. S \in SUBSET regs[t]
    BY DEF S
  <2> QED
    BY <1>2, <2>1, ForgettingCounts
<1>4. <<t, r>> \in Outstanding
  BY <1>1 DEF Outstanding
<1>5. left = Outstanding \ {<<t, r>>}
  BY DEF Outstanding
<1>6. Outstanding \subseteq Tabs \X Registration /\ Outstanding' \subseteq Tabs \X Registration
  BY DEF Outstanding
<1> HIDE DEF left
<1>7. /\ IsFiniteSet(Outstanding) /\ Cardinality(Outstanding) \in Nat
      /\ Cardinality(Outstanding') \in Nat
  BY <1>6, CountsAreNumbers
<1>8. Cardinality(left) = Cardinality(Outstanding) - 1
  BY <1>4, <1>5, <1>7, FS_RemoveElement
<1> QED
  BY <1>3, <1>7, <1>8

(* Joining a registration on its way adds none; starting one is what the    *)
(* tab was counted for.                                                     *)
LEMMA JoiningCounts ==
    ASSUME TypeOK, NEW t \in Tabs, NEW c \in Caller, token = None, token' = token,
           Join(t, c)
    PROVE  Cardinality(Outstanding') + Cardinality(MayStart')
                <= Cardinality(Outstanding) + Cardinality(MayStart)
<1> DEFINE shared == {r \in regs[t] : r.current}
           waiting == UNION {r.waiters : r \in shared}
           joint == [waiters |-> waiting \union {c}, current |-> TRUE]
           gone == {<<t, r>> : r \in shared}
           kept == Outstanding \ gone
<1>1. /\ regs \in [Tabs -> SUBSET Registration] /\ regs' \in [Tabs -> SUBSET Registration]
      /\ regs' = [regs EXCEPT ![t] = (regs[t] \ shared) \union {joint}]
  <2>1. regs \in [Tabs -> SUBSET Registration]
    BY DEF TypeOK
  <2>2. regs' \in [Tabs -> SUBSET Registration]
    BY JoinIsTyped
  <2> HIDE DEF waiting
  <2>3. regs' = [regs EXCEPT ![t] = (@ \ shared) \union {joint}]
    BY DEF Join, waiting
  <2> QED
    BY <2>1, <2>2, <2>3
<1>2. joint.current /\ joint \in regs'[t]
  BY <1>1
<1> HIDE DEF joint
<1>3. /\ \A u \in Tabs \ {t} : regs'[u] = regs[u]
      /\ regs'[t] = (regs[t] \ shared) \union {joint}
  BY <1>1
<1>4. Outstanding' = kept \union {<<t, joint>>}
  <2>1. \A p : p \in Outstanding' <=> p \in Tabs \X Registration /\ p[2] \in regs'[p[1]]
    BY DEF Outstanding
  <2>2. \A p : p \in Outstanding <=> p \in Tabs \X Registration /\ p[2] \in regs[p[1]]
    BY DEF Outstanding
  <2>3. \A p \in Tabs \X Registration : p = <<p[1], p[2]>>
    OBVIOUS
  <2>4. \A p \in Tabs \X Registration : p \in gone <=> p[1] = t /\ p[2] \in shared
    OBVIOUS
  <2>5. joint \in Registration
    BY <1>1, <1>2
  <2> HIDE DEF shared, gone
  <2>6. ASSUME NEW p \in Outstanding' PROVE p \in kept \union {<<t, joint>>}
    BY <1>3, <2>1, <2>2, <2>3, <2>4, <2>6
  <2>7. ASSUME NEW p \in kept PROVE p \in Outstanding'
    BY <1>3, <2>1, <2>2, <2>3, <2>4, <2>7
  <2>8. <<t, joint>> \in Outstanding'
    BY <1>2, <2>1, <2>5
  <2> QED
    BY <2>6, <2>7, <2>8
<1>5. MayStart' \subseteq MayStart \ {t}
  BY <1>2, <1>3 DEF MayStart
<1>6. /\ IsFiniteSet(Outstanding) /\ Cardinality(Outstanding) \in Nat
      /\ IsFiniteSet(kept) /\ Cardinality(kept) \in Nat
      /\ IsFiniteSet(MayStart) /\ Cardinality(MayStart) \in Nat
      /\ IsFiniteSet(MayStart \ {t}) /\ Cardinality(MayStart \ {t}) \in Nat
      /\ Cardinality(MayStart') \in Nat
  <2>1. Outstanding \subseteq Tabs \X Registration /\ kept \subseteq Tabs \X Registration
    BY DEF Outstanding
  <2>2. MayStart \subseteq Tabs /\ MayStart \ {t} \subseteq Tabs /\ MayStart' \subseteq Tabs
    BY DEF MayStart
  <2> QED
    BY <2>1, <2>2, CountsAreNumbers
<1> HIDE DEF kept
<1>7. Cardinality(Outstanding') \in Nat /\ Cardinality(Outstanding') <= Cardinality(kept) + 1
  <2> DEFINE x == <<t, joint>>
  <2> HIDE DEF x
  <2>1. IsFiniteSet(kept \union {x}) /\ Cardinality(kept \union {x}) <= Cardinality(kept) + 1
    <3>1. IsFiniteSet(kept) /\ Cardinality(kept) \in Nat
      BY <1>6
    <3>2. /\ IsFiniteSet(kept \union {x})
          /\ \/ Cardinality(kept \union {x}) = Cardinality(kept)
             \/ Cardinality(kept \union {x}) = Cardinality(kept) + 1
      BY <3>1, FS_AddElement
    <3> QED
      BY <3>1, <3>2
  <2>2. Cardinality(kept \union {x}) \in Nat
    BY <2>1, FS_CardinalityType
  <2>3. Outstanding' = kept \union {x}
    BY <1>4 DEF x
  <2> QED
    BY <2>1, <2>2, <2>3
<1>8. Cardinality(MayStart') <= Cardinality(MayStart \ {t})
  BY <1>5, <1>6, FS_Subset
<1>9. CASE shared = {}
  <2>1. t \in MayStart
    BY <1>9 DEF MayStart
  <2>2. Cardinality(MayStart \ {t}) = Cardinality(MayStart) - 1
    BY <1>6, <2>1, FS_RemoveElement
  <2>3. Cardinality(kept) <= Cardinality(Outstanding)
    BY <1>6, FS_Subset DEF kept
  <2> QED
    BY <1>6, <1>7, <1>8, <2>2, <2>3
<1>10. CASE shared # {}
  <2>1. PICK r \in shared : TRUE
    BY <1>10
  <2>2. <<t, r>> \in Outstanding /\ <<t, r>> \in gone
    BY <1>1, <2>1 DEF Outstanding
  <2>3. kept \subseteq Outstanding \ {<<t, r>>}
    BY <2>2 DEF kept
  <2>4. /\ IsFiniteSet(Outstanding \ {<<t, r>>})
        /\ Cardinality(Outstanding \ {<<t, r>>}) = Cardinality(Outstanding) - 1
    BY <1>6, <2>2, FS_RemoveElement
  <2>5. Cardinality(kept) <= Cardinality(Outstanding) - 1
    BY <2>3, <2>4, FS_Subset
  <2>6. Cardinality(MayStart \ {t}) <= Cardinality(MayStart)
    BY <1>6, FS_Subset
  <2> QED
    BY <1>6, <1>7, <1>8, <2>5, <2>6
<1> QED
  BY <1>9, <1>10

(* A step that makes no account and touches no registration counts nothing. *)
LEMMA IdleCounts ==
    UNCHANGED <<accounts, token, regs, dropped, registerFaults, reloads>> =>
        (Counted => Counted')
BY DEF Counted, Outstanding, MayStart, Allowed

(* Every action keeps the count.                                            *)
LEMMA CountedNext == TypeOK /\ Counted /\ [Next]_vars => Counted'
<1> SUFFICES ASSUME TypeOK, Counted, [Next]_vars PROVE Counted'
  OBVIOUS
<1> USE DEF storageVars, requestVars, pageVars, serverVars, historyVars, boundVars
<1> DEFINE O == Cardinality(Outstanding)
           M == Cardinality(MayStart)
           O1 == Cardinality(Outstanding')
           M1 == Cardinality(MayStart')
           N == Cardinality(Tabs)
           B == N * (1 + dropped)
<1>0. /\ accounts \in Nat /\ dropped \in Nat /\ registerFaults \in Nat /\ reloads \in Nat
      /\ regs \in [Tabs -> SUBSET Registration]
  BY DEF TypeOK
<1>1. O \in Nat /\ O1 \in Nat /\ M \in Nat /\ M1 \in Nat /\ N \in Nat /\ M1 <= N
  <2>1. Outstanding \subseteq Tabs \X Registration /\ Outstanding' \subseteq Tabs \X Registration
    BY DEF Outstanding
  <2>2. MayStart \subseteq Tabs /\ MayStart' \subseteq Tabs
    BY DEF MayStart
  <2> QED
    BY <2>1, <2>2, CountsAreNumbers
<1>2. B \in Nat
  BY <1>0, <1>1
<1>3. N * (1 + (dropped + 1)) = B + N
  BY <1>0, <1>1
<1>4. accounts + O + M <= B + registerFaults + reloads
  BY DEF Counted, Allowed
<1>5. ASSUME NEW t \in Tabs, NEW c \in Caller, token = None, Join(t, c),
             UNCHANGED <<accounts, token, dropped, registerFaults, reloads>>
      PROVE  Counted'
  <2>1. O1 + M1 <= O + M
    BY <1>5, JoiningCounts
  <2> HIDE DEF O, M, O1, M1, N, B
  <2>2. accounts + O1 + M1 <= B + registerFaults + reloads
    BY <1>0, <1>1, <1>2, <1>4, <2>1
  <2> QED
    BY <1>5, <2>2 DEF Counted, Allowed, O, M, O1, M1, N, B
<1>6. ASSUME NEW t \in Tabs, NEW r \in regs[t], Registers(t, r) PROVE Counted'
  <2>1. /\ accounts' = accounts + 1 /\ token' = accounts'
        /\ regs' = [regs EXCEPT ![t] = Settled(t, r)]
        /\ UNCHANGED <<dropped, registerFaults, reloads>>
    BY <1>6 DEF Registers
  <2>2. O1 + 1 <= O
    BY <2>1, SettlingCounts
  <2>3. M1 = 0
    <3>1. token' # None
      BY <1>0, <2>1 DEF None
    <3>2. MayStart' = {}
      BY <3>1 DEF MayStart, None
    <3> QED
      BY <3>2, FS_EmptySet
  <2> HIDE DEF O, M, O1, M1, N, B
  <2>4. accounts' + O1 + M1 <= B + registerFaults + reloads
    BY <1>0, <1>1, <1>2, <1>4, <2>1, <2>2, <2>3
  <2> QED
    BY <2>1, <2>4 DEF Counted, Allowed, O, M, O1, M1, N, B
<1>7. ASSUME NEW t \in Tabs, NEW r \in regs[t],
             RegisterPending(t, r) \/ RegisterRefused(t, r)
      PROVE  Counted'
  <2>1. /\ regs' = [regs EXCEPT ![t] = Settled(t, r)]
        /\ accounts' = accounts \/ accounts' = accounts + 1
        /\ accounts' - accounts <= registerFaults' - registerFaults
        /\ registerFaults' = registerFaults \/ registerFaults' = registerFaults + 1
        /\ UNCHANGED <<token, dropped, reloads>>
    BY <1>0, <1>7 DEF RegisterPending, RegisterRefused
  <2>2. O1 + 1 <= O
    BY <2>1, SettlingCounts
  <2>3. M1 <= M + 1
    <3>1. MayStart' \subseteq MayStart \union {t}
      BY <1>0, <2>1 DEF MayStart
    <3>2. IsFiniteSet(MayStart) /\ IsFiniteSet(MayStart \union {t})
      <4>1. MayStart \subseteq Tabs /\ MayStart \union {t} \subseteq Tabs
        BY DEF MayStart
      <4> QED
        BY <4>1, CountsAreNumbers
    <3>3. Cardinality(MayStart') <= Cardinality(MayStart \union {t})
      BY <3>1, <3>2, FS_Subset
    <3>4. \/ Cardinality(MayStart \union {t}) = M
          \/ Cardinality(MayStart \union {t}) = M + 1
      BY <3>2, FS_AddElement
    <3> QED
      BY <1>1, <3>3, <3>4
  <2> HIDE DEF O, M, O1, M1, N, B
  <2>4. accounts' + O1 + M1 <= B + registerFaults' + reloads
    BY <1>0, <1>1, <1>2, <1>4, <2>1, <2>2, <2>3
  <2> QED
    BY <2>1, <2>4 DEF Counted, Allowed, O, M, O1, M1, N, B
<1>8. ASSUME NEW t \in Tabs, PostUnauthorized(t) PROVE Counted'
  <2>1. CASE MayReregister(t)
    <3>1. /\ dropped' = dropped + 1
          /\ regs' = [regs EXCEPT ![t] = {[q EXCEPT !.current = FALSE] : q \in @}]
          /\ UNCHANGED <<accounts, registerFaults, reloads>>
      BY <1>8, <2>1 DEF PostUnauthorized
    <3>2. O1 <= O
      <4> DEFINE S == regs[t]
                 left == {p \in Outstanding : p[1] = t => p[2] \in S}
      <4>1. regs' = [regs EXCEPT ![t] = {[q EXCEPT !.current = FALSE] : q \in S}]
        BY <3>1
      <4>2. Cardinality(Outstanding') <= Cardinality(left)
        <5> HIDE DEF S
        <5>1. S \in SUBSET regs[t]
          BY DEF S
        <5> QED
          BY <4>1, <5>1, ForgettingCounts
      <4>3. left = Outstanding
        BY DEF Outstanding
      <4> QED
        BY <4>2, <4>3
    <3> HIDE DEF O, M, O1, M1, N, B
    <3>3. accounts + O1 + M1 <= (B + N) + registerFaults + reloads
      BY <1>0, <1>1, <1>2, <1>4, <3>1, <3>2
    <3>4. accounts + O1 + M1 <= N * (1 + dropped') + registerFaults + reloads
      BY <1>3, <3>1, <3>3
    <3> QED
      BY <3>1, <3>4 DEF Counted, Allowed, O, M, O1, M1, N
  <2>2. CASE ~MayReregister(t)
    BY <1>8, <2>2, IdleCounts DEF PostUnauthorized
  <2> QED
    BY <2>1, <2>2
<1>9. ASSUME NEW t \in Tabs, Reload(t) PROVE Counted'
  <2> DEFINE K == Cardinality(regs[t])
             own == {t} \X regs[t]
  <2>1. /\ regs' = [regs EXCEPT ![t] = {}] /\ reloads' = reloads + 1
        /\ UNCHANGED <<token, dropped, registerFaults>>
    BY <1>9 DEF Reload
  <2>2. regs[t] \subseteq Registration /\ IsFiniteSet(regs[t]) /\ K \in Nat
    BY <1>0, RegistrationsFinite, FS_Subset, FS_CardinalityType
  <2>3. accounts' \in Nat /\ accounts' <= accounts + K
    <3>1. PICK n \in 0..(IF open THEN K ELSE 0) : accounts' = accounts + n
      BY <1>9 DEF Reload
    <3>2. n \in Nat /\ n <= K
      BY <2>2, <3>1
    <3> QED
      BY <1>0, <2>2, <3>1, <3>2
  <2>4. O1 + K <= O
    <3>1. IsFiniteSet(own) /\ Cardinality(own) = K
      <4>1. IsFiniteSet({t}) /\ Cardinality({t}) = 1
        BY FS_Singleton
      <4>2. IsFiniteSet(own) /\ Cardinality(own) = Cardinality({t}) * Cardinality(regs[t])
        BY <2>2, <4>1, FS_Product
      <4> QED
        BY <2>2, <4>1, <4>2
    <3>2. Outstanding' \union own = Outstanding /\ Outstanding' \intersect own = {}
      <4>1. regs'[t] = {} /\ \A u \in Tabs \ {t} : regs'[u] = regs[u]
        BY <1>0, <2>1
      <4>2. \A p : p \in Outstanding' <=> p \in Tabs \X Registration /\ p[2] \in regs'[p[1]]
        BY DEF Outstanding
      <4>3. \A p : p \in Outstanding <=> p \in Tabs \X Registration /\ p[2] \in regs[p[1]]
        BY DEF Outstanding
      <4>4. \A p : p \in own => /\ p \in Tabs \X Registration
                                /\ p[1] = t /\ p[2] \in regs[t]
        BY <2>2
      <4>5. \A p \in Tabs \X Registration : p[1] = t /\ p[2] \in regs[t] => p \in own
        OBVIOUS
      <4>6. \A p \in Tabs \X Registration : p[1] \in Tabs
        OBVIOUS
      <4> HIDE DEF own
      <4>7. \A p : p \in Outstanding' => p \in Outstanding /\ p \notin own
        BY <4>1, <4>2, <4>3, <4>4, <4>6
      <4>8. \A p : p \in Outstanding => p \in Outstanding' \/ p \in own
        BY <4>1, <4>2, <4>3, <4>5, <4>6
      <4>9. \A p : p \in own => p \in Outstanding
        BY <4>3, <4>4
      <4> QED
        BY <4>7, <4>8, <4>9
    <3>3. IsFiniteSet(Outstanding')
      <4>1. Outstanding' \subseteq Tabs \X Registration
        BY DEF Outstanding
      <4> QED
        BY <4>1, CountsAreNumbers
    <3> HIDE DEF own
    <3>4. Cardinality(Outstanding' \union own) =
            Cardinality(Outstanding') + Cardinality(own) - Cardinality(Outstanding' \intersect own)
      BY <3>1, <3>3, FS_Union
    <3>5. Cardinality(Outstanding' \intersect own) = 0
      BY <3>2, FS_EmptySet
    <3> QED
      BY <1>1, <2>2, <3>1, <3>2, <3>4, <3>5
  <2>5. M1 <= M + 1
    <3>1. MayStart' \subseteq MayStart \union {t}
      BY <1>0, <2>1 DEF MayStart
    <3>2. IsFiniteSet(MayStart) /\ IsFiniteSet(MayStart \union {t})
      <4>1. MayStart \subseteq Tabs /\ MayStart \union {t} \subseteq Tabs
        BY DEF MayStart
      <4> QED
        BY <4>1, CountsAreNumbers
    <3>3. Cardinality(MayStart') <= Cardinality(MayStart \union {t})
      BY <3>1, <3>2, FS_Subset
    <3>4. \/ Cardinality(MayStart \union {t}) = M
          \/ Cardinality(MayStart \union {t}) = M + 1
      BY <3>2, FS_AddElement
    <3> QED
      BY <1>1, <3>3, <3>4
  <2> DEFINE A == accounts
             A1 == accounts'
             F == registerFaults + reloads
  <2>6. A \in Nat /\ A1 \in Nat /\ F \in Nat /\ K \in Nat
    BY <1>0, <2>2, <2>3
  <2>7. A1 <= A + K /\ A + O + M <= B + F
    BY <1>0, <1>1, <1>2, <1>4, <2>3
  <2> HIDE DEF O, M, O1, M1, N, K, B, A, A1, F
  <2>8. A1 + O1 + M1 <= B + F + 1
    BY <1>1, <1>2, <2>4, <2>5, <2>6, <2>7
  <2>9. B + F + 1 = B + registerFaults + reloads'
    BY <1>0, <1>2, <2>1 DEF F
  <2>10. accounts' + O1 + M1 <= B + registerFaults + reloads'
    BY <2>8, <2>9 DEF A1
  <2> QED
    BY <2>1, <2>10 DEF Counted, Allowed, O, M, O1, M1, N, B
<1>10. ASSUME NEW t \in Tabs, MountStarts(t) PROVE Counted'
  <2>1. UNCHANGED <<accounts, token, dropped, registerFaults, reloads>>
    BY <1>10 DEF MountStarts
  <2>2. (token = None /\ Join(t, "mount")) \/ UNCHANGED regs
    BY <1>10 DEF MountStarts
  <2>3. "mount" \in Caller
    BY DEF Caller
  <2> QED
    BY <1>5, <2>1, <2>2, <2>3, IdleCounts
<1>11. ASSUME NEW t \in Tabs, SendStarts(t) PROVE Counted'
  <2>1. UNCHANGED <<accounts, token, dropped, registerFaults, reloads>>
    BY <1>11 DEF SendStarts
  <2>2. (token = None /\ Join(t, "send")) \/ UNCHANGED regs
    BY <1>11 DEF SendStarts
  <2>3. "send" \in Caller
    BY DEF Caller
  <2> QED
    BY <1>5, <2>1, <2>2, <2>3, IdleCounts
<1>12. ASSUME NEW t \in Tabs,
              \/ Grant(t) \/ (\E e \in Event : HandOver(t, e))
              \/ AskMe(t) \/ MeAnswered(t) \/ Post(t) \/ PostAnswered(t)
       PROVE  Counted'
  BY <1>12, IdleCounts DEF Grant, HandOver, AskMe, MeAnswered, Post, PostAnswered
<1>13. CASE Rebuild
  BY <1>13, IdleCounts DEF Rebuild
<1>14. CASE UNCHANGED vars
  BY <1>14, IdleCounts DEF vars
<1> QED
  BY <1>6, <1>7, <1>8, <1>9, <1>10, <1>11, <1>12, <1>13, <1>14 DEF Next, Registering, Sending

(* Accounts are made for want of a token only.  However many tabs register  *)
(* at once, lose their answers and load again, there is at most one account *)
(* per tab and dropped token, and one per failure and per page that died.   *)
THEOREM AccountsStayBounded == Spec => []AccountsAreBounded
<1>1. Init => Counted
  <2> SUFFICES ASSUME Init PROVE Counted
    OBVIOUS
  <2>1. accounts = 0 /\ dropped = 0 /\ registerFaults = 0 /\ reloads = 0
    BY DEF Init
  <2>2. Outstanding = {} /\ Cardinality(Outstanding) = 0
    <3>1. Outstanding = {}
      BY DEF Init, Outstanding
    <3> QED
      BY <3>1, FS_EmptySet
  <2>3. MayStart \subseteq Tabs
    BY DEF MayStart
  <2>4. /\ Cardinality(MayStart) <= Cardinality(Tabs)
        /\ Cardinality(MayStart) \in Nat /\ Cardinality(Tabs) \in Nat
    BY <2>3, CountsAreNumbers
  <2> QED
    BY <2>1, <2>2, <2>4 DEF Counted, Allowed
<1>2. TypeOK /\ TypeOK' /\ Counted /\ [Next]_vars => Counted'
  BY CountedNext
<1>3. TypeOK /\ Counted => AccountsAreBounded
  <2> SUFFICES ASSUME TypeOK, Counted PROVE AccountsAreBounded
    OBVIOUS
  <2>1. Outstanding \subseteq Tabs \X Registration /\ MayStart \subseteq Tabs
    BY DEF Outstanding, MayStart
  <2>2. Cardinality(Outstanding) \in Nat /\ Cardinality(MayStart) \in Nat
    BY <2>1, CountsAreNumbers
  <2>3. accounts \in Nat /\ Allowed \in Int
    <3>1. Cardinality(Tabs) \in Nat
      BY CountsAreNumbers
    <3> QED
      BY <3>1 DEF TypeOK, Allowed
  <2>4. accounts <= Allowed
    BY <2>2, <2>3 DEF Counted
  <2> QED
    BY <2>4 DEF Allowed, AccountsAreBounded
<1> QED
  BY <1>1, <1>2, <1>3, TypeCorrect, PTL DEF Spec

----------------------------------------------------------------------------
(* One tab, again.  Until a token is dropped there is one at most, and the  *)
(* page stamps with its id, or with none; what is queued has been stamped.  *)

Born(e) == fate[e] # "unborn"

QueuedAreBorn ==
    \A t \in Tabs, e \in Event : e \in batch[t] \/ e \in queue[t] \/ e \in store => Born(e)

(* A finished batch leaves less in the queue, and what was born is born.    *)
LEMMA FinishedAreBorn ==
    ASSUME TypeOK, NEW t \in Tabs, NEW B \in SUBSET Event, Finish(t, B, Discarded),
           NEW e \in Event
    PROVE  /\ Born(e) => Born(e)'
           /\ fate'[e] = "refused" => fate[e] = "refused"
           /\ \A u \in Tabs : queue'[u] \subseteq queue[u]
           /\ store' \subseteq store
BY DEF TypeOK, Finish, Discarded, Born

(* No event comes to a queue, a batch or the store but by its capture.      *)
LEMMA BornNext == TypeOK /\ QueuedAreBorn /\ [Next]_vars => QueuedAreBorn'
<1> SUFFICES ASSUME TypeOK, QueuedAreBorn, [Next]_vars PROVE QueuedAreBorn'
  OBVIOUS
<1> USE DEF storageVars, requestVars, pageVars, serverVars, historyVars, boundVars
<1>0. /\ batch \in [Tabs -> SUBSET Event] /\ queue \in [Tabs -> SUBSET Event]
      /\ store \in SUBSET Event /\ fate \in [Event -> Fate]
  BY DEF TypeOK, Fate
<1>1. ASSUME \A e \in Event : Born(e) => Born(e)',
             \A u \in Tabs : batch'[u] \subseteq batch[u] \/ batch'[u] \subseteq queue[u],
             \A u \in Tabs : queue'[u] \subseteq queue[u] \/ queue'[u] \subseteq store,
             store' \subseteq store
      PROVE  QueuedAreBorn'
  BY <1>1 DEF QueuedAreBorn
<1>2. ASSUME NEW t \in Tabs, NEW f \in Event, HandOver(t, f) PROVE QueuedAreBorn'
  <2>1. /\ fate' = [fate EXCEPT ![f] = "queued"] /\ queue' = [queue EXCEPT ![t] = @ \union {f}]
        /\ store' = store \union {f} /\ UNCHANGED batch
    BY <1>2 DEF HandOver
  <2>2. \A e \in Event : Born(e)' <=> e = f \/ Born(e)
    BY <1>0, <2>1 DEF Born
  <2>3. \A u \in Tabs : queue'[u] \subseteq queue[u] \union {f}
    BY <1>0, <2>1
  <2> QED
    BY <2>1, <2>2, <2>3 DEF QueuedAreBorn
<1>3. ASSUME NEW t \in Tabs, PostAnswered(t) PROVE QueuedAreBorn'
  <2>1. \A e \in Event : Born(e) => Born(e)'
    BY <1>3, AnswerIsJust DEF Born
  <2>2. /\ batch' = [batch EXCEPT ![t] = {}]
        /\ queue' = [queue EXCEPT ![t] = @ \ batch[t]] /\ store' = store \ batch[t]
    BY <1>3 DEF PostAnswered, Finish
  <2> QED
    BY <1>0, <1>1, <2>1, <2>2
<1>4. ASSUME NEW t \in Tabs, SendStarts(t) PROVE QueuedAreBorn'
  <2>1. /\ UNCHANGED <<queue, store, fate>> \/ Finish(t, queue[t], Discarded)
        /\ batch' = [batch EXCEPT ![t] = queue[t]] \/ UNCHANGED batch
    BY <1>4 DEF SendStarts
  <2>2. \A e \in Event : Born(e) => Born(e)'
    BY <1>0, <2>1, FinishedAreBorn DEF Born
  <2>3. (\A u \in Tabs : queue'[u] \subseteq queue[u]) /\ store' \subseteq store
    BY <1>0, <2>1 DEF Finish
  <2> QED
    BY <1>0, <1>1, <2>1, <2>2, <2>3
<1>5. ASSUME NEW t \in Tabs, NEW r \in regs[t], RegisterRefused(t, r) PROVE QueuedAreBorn'
  <2>1. /\ UNCHANGED <<queue, store, fate>> \/ Finish(t, batch[t], Discarded)
        /\ batch' = [batch EXCEPT ![t] = {}] \/ UNCHANGED batch
    BY <1>5 DEF RegisterRefused
  <2>2. \A e \in Event : Born(e) => Born(e)'
    BY <1>0, <2>1, FinishedAreBorn DEF Born
  <2>3. (\A u \in Tabs : queue'[u] \subseteq queue[u]) /\ store' \subseteq store
    BY <1>0, <2>1 DEF Finish
  <2> QED
    BY <1>0, <1>1, <2>1, <2>2, <2>3
<1>6. ASSUME NEW t \in Tabs, PostUnauthorized(t) PROVE QueuedAreBorn'
  <2>1. /\ UNCHANGED <<queue, store, fate>> \/ Finish(t, batch[t], Discarded)
        /\ batch' = [batch EXCEPT ![t] = {}]
    BY <1>6 DEF PostUnauthorized
  <2>2. \A e \in Event : Born(e) => Born(e)'
    BY <1>0, <2>1, FinishedAreBorn DEF Born
  <2>3. (\A u \in Tabs : queue'[u] \subseteq queue[u]) /\ store' \subseteq store
    BY <1>0, <2>1 DEF Finish
  <2> QED
    BY <1>0, <1>1, <2>1, <2>2, <2>3
<1>7. ASSUME NEW t \in Tabs, NEW r \in regs[t], Registers(t, r) \/ RegisterPending(t, r)
      PROVE  QueuedAreBorn'
  <2>1. /\ UNCHANGED <<queue, store, fate>>
        /\ \/ UNCHANGED batch
           \/ batch' = [batch EXCEPT ![t] = IF "send" \in r.waiters THEN {} ELSE @]
    BY <1>7 DEF Registers, RegisterPending
  <2> QED
    BY <1>0, <1>1, <2>1 DEF Born
<1>8. ASSUME NEW t \in Tabs, Reload(t) PROVE QueuedAreBorn'
  <2>1. /\ batch' = [batch EXCEPT ![t] = {}] /\ queue' = [queue EXCEPT ![t] = store]
        /\ UNCHANGED <<store, fate>>
    BY <1>8 DEF Reload
  <2> QED
    BY <1>0, <1>1, <2>1 DEF Born
<1>9. ASSUME NEW t \in Tabs, Grant(t) \/ MountStarts(t) \/ AskMe(t) \/ MeAnswered(t) \/ Post(t)
      PROVE  QueuedAreBorn'
  <2>1. UNCHANGED <<batch, queue, store, fate>>
    BY <1>9 DEF Grant, MountStarts, AskMe, MeAnswered, Post
  <2> QED
    BY <1>1, <2>1 DEF Born
<1>10. CASE Rebuild
  BY <1>1, <1>10 DEF Rebuild, Born
<1>11. CASE UNCHANGED vars
  BY <1>1, <1>11 DEF vars, Born
<1> QED
  BY <1>2, <1>3, <1>4, <1>5, <1>6, <1>7, <1>8, <1>9, <1>10, <1>11 DEF Next, Registering, Sending

(* The ids about, none of which is that of a token there is no more.        *)
OneId(t) ==
    /\ actor[t] \in {None, token} /\ actorKey \in {None, token}
    /\ \A c \in Caller : presented[t][c] \in {None, token}
    /\ \A e \in Event : stamp[e] \in {None, token}

(* A page asks for one account at a time, and for none when it has one.     *)
OneRegistration(t) ==
    /\ token # None => regs[t] = {}
    /\ \A q, r \in regs[t] : q = r /\ r.current

(* A caller joins the only registration on its way, or starts it.           *)
LEMMA JoinKeepsOne ==
    ASSUME TypeOK, NEW t \in Tabs, NEW c \in Caller, Join(t, c), OneRegistration(t),
           token = None, UNCHANGED token
    PROVE  OneRegistration(t)'
<1>1. {r \in regs[t] : r.current} = regs[t]
  BY DEF OneRegistration
<1> DEFINE joint == [waiters |-> (UNION {r.waiters : r \in {q \in regs[t] : q.current}}) \union {c},
                     current |-> TRUE]
<1>2. joint.current
  OBVIOUS
<1>3. regs' = [regs EXCEPT ![t] = (@ \ {r \in regs[t] : r.current}) \union {joint}]
  BY DEF Join
<1> HIDE DEF joint
<1>4. regs'[t] = {joint}
  BY <1>1, <1>3 DEF TypeOK
<1> QED
  BY <1>2, <1>4 DEF OneRegistration, None

(* Every action of a lone tab keeps to one id until a token is dropped.     *)
LEMMA OneIdNext ==
    ASSUME NEW tab, Tabs = {tab}, TypeOK, TypeOK', dropped' = 0, [Next]_vars,
           OneId(tab), OneRegistration(tab)
    PROVE  OneId(tab)' /\ OneRegistration(tab)' /\ dropped = 0
<1> USE DEF storageVars, requestVars, pageVars, serverVars, historyVars, boundVars
<1>0. /\ presented \in [Tabs -> [Caller -> Account \union {None}]] /\ stamp \in [Event -> Account \union {None}]
      /\ actor \in [Tabs -> Account \union {None}] /\ regs \in [Tabs -> SUBSET Registration]
      /\ tab \in Tabs /\ dropped \in Nat /\ accounts \in Nat
      /\ "send" \in Caller /\ "mount" \in Caller
  BY DEF TypeOK, Caller
<1>1. ASSUME UNCHANGED <<token, actor, actorKey, presented, stamp>> PROVE OneId(tab)'
  BY <1>1 DEF OneId, None
<1>2. ASSUME UNCHANGED <<token, regs>> PROVE OneRegistration(tab)'
  BY <1>2 DEF OneRegistration, None
<1>3. CASE Grant(tab)
  BY <1>1, <1>2, <1>3 DEF Grant
<1>4. ASSUME NEW e \in Event, HandOver(tab, e) PROVE OneId(tab)' /\ OneRegistration(tab)' /\ dropped = 0
  <2>1. /\ stamp' = [stamp EXCEPT ![e] = actor[tab]]
        /\ UNCHANGED <<token, actor, actorKey, presented, regs, dropped>>
    BY <1>4 DEF HandOver
  <2> QED
    BY <1>0, <1>2, <2>1 DEF OneId, None
<1>5. CASE MountStarts(tab)
  <2>1. /\ UNCHANGED <<token, actor, actorKey, presented, stamp, dropped>>
        /\ UNCHANGED regs \/ (token = None /\ Join(tab, "mount"))
    BY <1>5 DEF MountStarts
  <2> QED
    BY <1>0, <1>1, <1>2, <2>1, JoinKeepsOne
<1>6. CASE SendStarts(tab)
  <2>1. /\ UNCHANGED <<token, actor, actorKey, presented, stamp, dropped>>
        /\ UNCHANGED regs \/ (token = None /\ Join(tab, "send"))
    BY <1>6 DEF SendStarts
  <2> QED
    BY <1>0, <1>1, <1>2, <2>1, JoinKeepsOne
<1>7. CASE AskMe(tab) \/ Post(tab)
  <2>1. /\ \E c \in Caller : presented' = [presented EXCEPT ![tab][c] = token]
        /\ UNCHANGED <<token, actor, actorKey, stamp, regs, dropped>>
    BY <1>0, <1>7 DEF AskMe, Post
  <2>2. \A c \in Caller : presented'[tab][c] \in {presented[tab][c], token}
    BY <1>0, <2>1
  <2> QED
    BY <1>2, <2>1, <2>2 DEF OneId, None
<1>8. CASE MeAnswered(tab)
  <2>1. /\ presented' = [presented EXCEPT ![tab]["mount"] = None]
        /\ \/ actor' = [actor EXCEPT ![tab] = presented[tab]["mount"]]
              /\ actorKey' = presented[tab]["mount"]
           \/ UNCHANGED <<actor, actorKey>>
        /\ UNCHANGED <<token, stamp, regs, dropped>>
    BY <1>8 DEF MeAnswered
  <2>2. \A c \in Caller : presented'[tab][c] \in {presented[tab][c], None}
    BY <1>0, <2>1
  <2>3. actor'[tab] \in {actor[tab], presented[tab]["mount"]}
    BY <1>0, <2>1
  <2> QED
    BY <1>0, <1>2, <2>1, <2>2, <2>3 DEF OneId, None
<1>9. ASSUME NEW r \in regs[tab], Registers(tab, r)
      PROVE  OneId(tab)' /\ OneRegistration(tab)' /\ dropped = 0
  <2>1. /\ token' = accounts' /\ regs' = [regs EXCEPT ![tab] = Settled(tab, r)]
        /\ \/ actor' = [actor EXCEPT ![tab] = accounts'] /\ actorKey' = accounts'
           \/ UNCHANGED <<actor, actorKey>>
        /\ UNCHANGED <<presented, stamp, dropped>>
    BY <1>9 DEF Registers
  <2>2. token = None
    BY <1>9 DEF OneRegistration
  <2>3. regs[tab] \ {r} = {}
    BY <1>9 DEF OneRegistration
  <2>4. regs'[tab] = {}
    BY <1>0, <2>1, <2>3 DEF Settled
  <2>5. actor'[tab] \in {actor[tab], token'}
    BY <1>0, <2>1
  <2> QED
    BY <2>1, <2>2, <2>4, <2>5 DEF OneId, OneRegistration, None
<1>10. ASSUME NEW r \in regs[tab], RegisterPending(tab, r) \/ RegisterRefused(tab, r)
       PROVE  OneId(tab)' /\ OneRegistration(tab)' /\ dropped = 0
  <2>1. /\ UNCHANGED <<token, actor, actorKey, presented, stamp, dropped>>
        /\ regs' = [regs EXCEPT ![tab] = Settled(tab, r)]
    BY <1>10 DEF RegisterPending, RegisterRefused
  <2>2. regs[tab] \ {r} = {}
    BY <1>10 DEF OneRegistration
  <2>3. regs'[tab] = {}
    BY <1>0, <2>1, <2>2 DEF Settled
  <2> QED
    BY <1>1, <2>1, <2>3 DEF OneRegistration
<1>11. CASE PostAnswered(tab)
  <2>1. /\ presented' = [presented EXCEPT ![tab]["send"] = None]
        /\ UNCHANGED <<token, actor, actorKey, stamp, regs, dropped>>
    BY <1>11 DEF PostAnswered
  <2>2. \A c \in Caller : presented'[tab][c] \in {presented[tab][c], None}
    BY <1>0, <2>1
  <2> QED
    BY <1>2, <2>1, <2>2 DEF OneId, None
<1>12. CASE PostUnauthorized(tab)
  <2>1. ~MayReregister(tab)
    <3>1. MayReregister(tab) => dropped' = dropped + 1
      BY <1>12 DEF PostUnauthorized
    <3> QED
      BY <1>0, <3>1
  <2>2. /\ presented' = [presented EXCEPT ![tab]["send"] = None]
        /\ UNCHANGED <<token, actor, actorKey, stamp, regs, dropped>>
    BY <1>12, <2>1 DEF PostUnauthorized
  <2>3. \A c \in Caller : presented'[tab][c] \in {presented[tab][c], None}
    BY <1>0, <2>2
  <2> QED
    BY <1>2, <2>2, <2>3 DEF OneId, None
<1>13. CASE Reload(tab)
  <2>1. /\ presented' = [presented EXCEPT ![tab] = [c \in Caller |-> None]]
        /\ actor' = [actor EXCEPT ![tab] = actorKey] /\ regs' = [regs EXCEPT ![tab] = {}]
        /\ UNCHANGED <<token, actorKey, stamp, dropped>>
    BY <1>13 DEF Reload
  <2>2. /\ \A c \in Caller : presented'[tab][c] = None
        /\ actor'[tab] = actorKey /\ regs'[tab] = {}
    BY <1>0, <2>1
  <2> QED
    BY <2>1, <2>2 DEF OneId, OneRegistration, None
<1>14. CASE Rebuild
  BY <1>1, <1>2, <1>14 DEF Rebuild
<1>15. CASE UNCHANGED vars
  BY <1>1, <1>2, <1>15 DEF vars
<1> QED
  BY <1>3, <1>4, <1>5, <1>6, <1>7, <1>8, <1>9, <1>10, <1>11, <1>12, <1>13, <1>14, <1>15
     DEF Next, Registering, Sending

InStep(t) == dropped = 0 => OneId(t) /\ OneRegistration(t)

(* What was stamped stays stamped as it is, and born.                       *)
LEMMA StampsStay ==
    ASSUME TypeOK, [Next]_vars, NEW e \in Event, Born(e)
    PROVE  Born(e)' /\ stamp'[e] = stamp[e]
<1> USE DEF historyVars
<1>0. fate \in [Event -> Fate] /\ stamp \in [Event -> Account \union {None}]
  BY DEF TypeOK, Fate
<1>1. ASSUME NEW t \in Tabs, NEW f \in Event, HandOver(t, f) PROVE Born(e)' /\ stamp'[e] = stamp[e]
  BY <1>0, <1>1 DEF HandOver, Born
<1>2. ASSUME NEW t \in Tabs, PostAnswered(t) PROVE Born(e)' /\ stamp'[e] = stamp[e]
  <2>1. UNCHANGED stamp
    BY <1>2 DEF PostAnswered
  <2> QED
    BY <1>2, <2>1, AnswerIsJust DEF Born
<1>3. ASSUME NEW t \in Tabs,
             SendStarts(t) \/ PostUnauthorized(t) \/ (\E r \in regs[t] : RegisterRefused(t, r))
      PROVE  Born(e)' /\ stamp'[e] = stamp[e]
  <2>1. UNCHANGED stamp
    BY <1>3 DEF SendStarts, PostUnauthorized, RegisterRefused
  <2>2. UNCHANGED fate \/ \E B \in SUBSET Event : Finish(t, B, Discarded)
    <3>1. queue[t] \in SUBSET Event /\ batch[t] \in SUBSET Event
      BY DEF TypeOK
    <3> QED
      BY <1>3, <3>1 DEF SendStarts, PostUnauthorized, RegisterRefused
  <2>3. Born(e)'
    BY <2>2, FinishedAreBorn DEF Born
  <2> QED
    BY <2>1, <2>3
<1>4. ASSUME NEW t \in Tabs,
             \/ Grant(t) \/ MountStarts(t) \/ AskMe(t) \/ MeAnswered(t) \/ Post(t) \/ Reload(t)
             \/ \E r \in regs[t] : Registers(t, r) \/ RegisterPending(t, r)
      PROVE  Born(e)' /\ stamp'[e] = stamp[e]
  BY <1>4 DEF Grant, MountStarts, AskMe, MeAnswered, Post, Reload, Registers, RegisterPending, Born
<1>5. CASE Rebuild
  BY <1>5 DEF Rebuild, Born
<1>6. CASE UNCHANGED vars
  BY <1>6 DEF vars, Born
<1> QED
  BY <1>1, <1>2, <1>3, <1>4, <1>5, <1>6 DEF Next, Registering, Sending

(* A step refuses nothing, unless the server's answer does so.              *)
LEMMA OnlyAnswersRefuse ==
    ASSUME TypeOK, [Next]_vars, NEW e \in Event, fate'[e] = "refused"
    PROVE  fate[e] = "refused" \/ \E t \in Tabs : PostAnswered(t)
<1> USE DEF historyVars
<1>0. fate \in [Event -> Fate]
  BY DEF TypeOK, Fate
<1>1. ASSUME NEW t \in Tabs, NEW f \in Event, HandOver(t, f) PROVE fate[e] = "refused"
  BY <1>0, <1>1 DEF HandOver
<1>2. ASSUME NEW t \in Tabs,
             SendStarts(t) \/ PostUnauthorized(t) \/ (\E r \in regs[t] : RegisterRefused(t, r))
      PROVE  fate[e] = "refused"
  <2>1. UNCHANGED fate \/ \E B \in SUBSET Event : Finish(t, B, Discarded)
    <3>1. queue[t] \in SUBSET Event /\ batch[t] \in SUBSET Event
      BY DEF TypeOK
    <3> QED
      BY <1>2, <3>1 DEF SendStarts, PostUnauthorized, RegisterRefused
  <2> QED
    BY <2>1, FinishedAreBorn
<1>3. ASSUME NEW t \in Tabs,
             \/ Grant(t) \/ MountStarts(t) \/ AskMe(t) \/ MeAnswered(t) \/ Post(t) \/ Reload(t)
             \/ \E r \in regs[t] : Registers(t, r) \/ RegisterPending(t, r)
      PROVE  fate[e] = "refused"
  BY <1>3 DEF Grant, MountStarts, AskMe, MeAnswered, Post, Reload, Registers, RegisterPending
<1>4. CASE Rebuild
  BY <1>4 DEF Rebuild
<1>5. CASE UNCHANGED vars
  BY <1>5 DEF vars
<1> QED
  BY <1>1, <1>2, <1>3, <1>4, <1>5 DEF Next, Registering, Sending

(* A lone tab is refused nothing that it captured with an id.               *)
LEMMA RefusalsNext ==
    ASSUME NEW tab, Tabs = {tab}, TypeOK, TypeOK', QueuedAreBorn, InStep(tab),
           OnlyPlaceholdersAreRefused, [Next]_vars
    PROVE  InStep(tab)' /\ OnlyPlaceholdersAreRefused'
<1>1. dropped' = 0 => dropped = 0
  <2>1. dropped \in Nat /\ (UNCHANGED dropped \/ dropped' = dropped + 1)
    <3>1. dropped \in Nat
      BY DEF TypeOK
    <3>2. ASSUME NEW t \in Tabs, Sending(t) PROVE UNCHANGED dropped \/ dropped' = dropped + 1
      BY <3>2 DEF Sending, SendStarts, Post, PostAnswered, PostUnauthorized, historyVars
    <3>3. ASSUME NEW t \in Tabs, Registering(t) PROVE UNCHANGED dropped
      BY <3>3 DEF Registering, Registers, RegisterPending, RegisterRefused, historyVars
    <3>4. ASSUME NEW t \in Tabs,
                 \/ Grant(t) \/ (\E e \in Event : HandOver(t, e))
                 \/ MountStarts(t) \/ AskMe(t) \/ MeAnswered(t) \/ Reload(t)
          PROVE  UNCHANGED dropped
      BY <3>4 DEF Grant, HandOver, MountStarts, AskMe, MeAnswered, Reload, historyVars
    <3>5. Rebuild \/ UNCHANGED vars => UNCHANGED dropped
      BY DEF Rebuild, vars, historyVars
    <3> QED
      BY <3>1, <3>2, <3>3, <3>4, <3>5 DEF Next
  <2> QED
    BY <2>1
<1>2. InStep(tab)'
  BY <1>1, OneIdNext DEF InStep
<1>3. ASSUME dropped' = 0, \A f \in Event : fate'[f] # "unborn" => stamp'[f] # None,
             NEW e \in Event, fate'[e] = "refused"
      PROVE  FALSE
  <2>1. \A f \in Event : Born(f) => stamp[f] # None
    BY <1>3, StampsStay DEF Born
  <2>2. fate[e] # "refused"
    BY <1>1, <1>3, <2>1 DEF OnlyPlaceholdersAreRefused, Born
  <2>3. PostAnswered(tab)
    BY <1>3, <2>2, OnlyAnswersRefuse
  <2>4. tab \in Tabs /\ batch[tab] \subseteq Event
    BY DEF TypeOK
  <2>5. PICK f \in batch[tab] : stamp[f] # presented[tab]["send"]
    BY <1>3, <2>2, <2>3, <2>4, AnswerIsJust
  <2>6. f \in Event /\ stamp[f] # None
    BY <2>1, <2>4, <2>5 DEF QueuedAreBorn
  <2>7. stamp[f] = token
    BY <1>1, <1>3, <2>6 DEF InStep, OneId
  <2>8. presented[tab]["send"] \in valid /\ "send" \in Caller
    BY <2>3 DEF PostAnswered, Caller
  <2>9. presented[tab]["send"] # None
    BY <2>8 DEF TypeOK, Account, None
  <2>10. presented[tab]["send"] = token
    BY <1>1, <1>3, <2>8, <2>9 DEF InStep, OneId
  <2> QED
    BY <2>5, <2>7, <2>10
<1>4. OnlyPlaceholdersAreRefused'
  BY <1>3 DEF OnlyPlaceholdersAreRefused, None
<1> QED
  BY <1>2, <1>4

(* A page with the browser to itself keeps the id it stamps with and the    *)
(* token it sends with in step, through failed registrations, answers that  *)
(* come late and pages that die: until a token is dropped, the server       *)
(* refuses only what was captured before there was an id, and what was sent *)
(* along with it.                                                           *)
THEOREM OneTabIsRefusedPlaceholders ==
    ASSUME NEW tab, Tabs = {tab}
    PROVE  Spec => []OnlyPlaceholdersAreRefused
<1>1. Init => QueuedAreBorn /\ InStep(tab) /\ OnlyPlaceholdersAreRefused
  BY DEF Init, QueuedAreBorn, InStep, OneId, OneRegistration, OnlyPlaceholdersAreRefused, None
<1>2. TypeOK /\ TypeOK' /\ QueuedAreBorn /\ InStep(tab) /\ OnlyPlaceholdersAreRefused /\ [Next]_vars
        => QueuedAreBorn' /\ InStep(tab)' /\ OnlyPlaceholdersAreRefused'
  BY BornNext, RefusalsNext
<1> QED
  BY <1>1, <1>2, TypeCorrect, PTL DEF Spec

================================================================================
