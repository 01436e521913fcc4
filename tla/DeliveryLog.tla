----------------------------- MODULE DeliveryLog -----------------------------
(***************************************************************************)
(* What the capture pipeline promises of an event, whatever lies between    *)
(* the grid and the server's table: at-least-once delivery into a log that  *)
(* holds nothing twice, and an honest account of what did not arrive.       *)
(* PRIVACY.md and EVENTS.md describe the pipeline from this side.           *)
(*                                                                          *)
(* There are no queues, pages, requests or stores here.  CapturePipeline    *)
(* implements this module (CapturePipeline!Delivers).                       *)
(***************************************************************************)
EXTENDS Naturals, Sequences

CONSTANT MaxEvents  \* bound: events offered in a behaviour

VARIABLES
    offered,    \* offered[e] is the mode event e claims
    log,        \* log[e] is how many copies of e the log holds
    fate        \* what the client has been told of e, or has told of it

vars == <<offered, log, fate>>

Event == 1..MaxEvents
Mode == {"structural", "full"}

(* "held": delivery is still owed.  "acknowledged": the client let it go    *)
(* because the log answered for it.  "refused": let go and counted, because *)
(* the consent on record bars it.  "lost": overwritten or gone with a page. *)
Fate == {"unborn", "held", "acknowledged", "refused", "lost"}

(* The log refuses what claims more than was agreed to, so that only a      *)
(* structural event's acknowledgment says that it is there.                 *)
Acceptable(e) == offered[e] = "structural"

(* A refused event whose removal a crash undid is sent again: the answer it *)
(* gets then may be better, never worse.  What is lost stays lost.          *)
MayBecome(old, new) ==
    \/ old = new
    \/ old = "held" /\ new \in {"acknowledged", "refused", "lost"}
    \/ old = "refused" /\ new = "acknowledged"

Once(S) == log' = [e \in Event |-> IF e \in S /\ log[e] = 0 THEN 1 ELSE log[e]]

Init ==
    /\ offered = <<>>
    /\ log = [e \in Event |-> 0]
    /\ fate = [e \in Event |-> "unborn"]

(* One more event; an older one may be overwritten for it. *)
Offer(m) ==
    /\ offered' = Append(offered, m)
    /\ Len(offered') \in Event
    /\ fate' \in [Event -> Fate]
    /\ fate'[Len(offered')] = "held"
    /\ \A e \in DOMAIN offered : fate'[e] \in {fate[e], "lost"} /\ MayBecome(fate[e], fate'[e])
    /\ \A e \in Event \ DOMAIN offered' : fate'[e] = fate[e]
    /\ UNCHANGED log

(* Events reach the log, without the client hearing of it. *)
Reach ==
    /\ \E S \in SUBSET DOMAIN offered : Once(S)
    /\ UNCHANGED <<offered, fate>>

(* A batch is acknowledged: what the log accepts of it is in the log. *)
Acknowledge(B) ==
    /\ \E S \in SUBSET B : Once(S)
    /\ \A e \in B : Acceptable(e) => log'[e] > 0
    /\ fate' = [e \in Event |-> IF e \in B THEN "acknowledged" ELSE fate[e]]
    /\ \A e \in B : MayBecome(fate[e], "acknowledged")
    /\ UNCHANGED offered

(* A batch is refused as a whole, and nothing of it is taken in. *)
Refuse(B) ==
    /\ fate' = [e \in Event |-> IF e \in B /\ fate[e] # "acknowledged" THEN "refused" ELSE fate[e]]
    /\ \A e \in B : MayBecome(fate[e], fate'[e])
    /\ UNCHANGED <<offered, log>>

(* What only memory held dies with it. *)
Perish(S) ==
    /\ \A e \in S : fate[e] = "held"
    /\ fate' = [e \in Event |-> IF e \in S THEN "lost" ELSE fate[e]]
    /\ UNCHANGED <<offered, log>>

Next ==
    \/ \E m \in Mode : Offer(m)
    \/ Reach
    \/ \E B \in SUBSET DOMAIN offered : Acknowledge(B) \/ Refuse(B) \/ Perish(B)

Spec == Init /\ [][Next]_vars
=============================================================================
