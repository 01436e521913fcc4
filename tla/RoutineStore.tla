----------------------------- MODULE RoutineStore -----------------------------
(***************************************************************************)
(* The table of routines, which two programs write: the miner at night,     *)
(* statement by statement (miner/store.rs, main.rs), and the server when a  *)
(* user answers a proposal (server/routines.rs).  The id of a routine says  *)
(* what is done and not who does it, and is the key of the table.           *)
(*                                                                          *)
(* A store is its rows, the mining run at work, and what users have         *)
(* answered.  Each operator gives the stores that one statement may lead    *)
(* to, none where it cannot be made.                                        *)
(***************************************************************************)
EXTENDS Integers, SequencesExt, FiniteSetsExt

CONSTANTS
    Nights,         \* the groups a run may find: of each an actor, a workbook and the ids of its routines
    MaxNights

Verdicts == {"accepted", "dismissed"}

Idle == [groups |-> <<>>, group |-> 0, next |-> 0, phase |-> "idle", seen |-> "none", stale |-> {}]

(* "mined" is what the last run found, or nothing when it failed; "late"    *)
(* are the ids answered while the run was about to delete their rows.       *)
NewStore == [of |-> "store", rows |-> <<>>, run |-> Idle, answers |-> <<>>, late |-> {}, mined |-> <<>>, failed |-> FALSE, nights |-> 0]

Group(st) == st.run.groups[st.run.group]
Ids(group) == ToSet(group.ids)
With(f, x, y) == [z \in DOMAIN f \cup {x} |-> IF z = x THEN y ELSE f[z]]
Without(f, x) == [z \in DOMAIN f \ {x} |-> f[z]]
Owns(st, actor, id) == id \in DOMAIN st.rows /\ st.rows[id].actor = actor

----------------------------------------------------------------------------
(* The miner.                                                               *)

At(st, phase) == st.run.phase = phase
Upserting(st) == st.run.next <= Len(Group(st).ids)

(* A run begins with the first group of the log. *)
Begin(st) ==
    IF At(st, "idle") /\ st.nights < MaxNights
    THEN {[st EXCEPT !.run = [Idle EXCEPT !.groups = night, !.group = 1, !.next = 1, !.phase = "look"],
                     !.mined = <<>>, !.failed = FALSE, !.nights = @ + 1] : night \in Nights}
    ELSE {}

(* SELECT status of this routine of this actor. *)
Look(st) ==
    IF At(st, "look") /\ Upserting(st)
    THEN LET id == Group(st).ids[st.run.next] IN
         {[st EXCEPT !.run.phase = "write", !.run.seen = IF Owns(st, Group(st).actor, id) THEN st.rows[id].status ELSE "none"]}
    ELSE {}

(* Mutant: a routine that was answered is proposed again. *)
ProposedAgain(row, seen, workbook) == [row EXCEPT !.workbook = workbook, !.status = "proposed"]

(* A row that is there is refreshed, its status never; one that was         *)
(* answered stays with its workbook.                                        *)
Refreshed(row, seen, workbook) == IF seen \in Verdicts THEN row ELSE [row EXCEPT !.workbook = workbook]

(* UPDATE or INSERT, by what was read.  The insertion fails, and the run    *)
(* with it, when another actor has a routine of this id.                    *)
Write(st) ==
    IF ~At(st, "write") THEN {}
    ELSE LET group == Group(st)
             id == group.ids[st.run.next]
             rows == IF st.run.seen = "none"
                     THEN With(st.rows, id, [actor |-> group.actor, workbook |-> group.workbook, status |-> "proposed"])
                     ELSE IF Owns(st, group.actor, id)
                     THEN With(st.rows, id, Refreshed(st.rows[id], st.run.seen, group.workbook))
                     ELSE st.rows
         IN IF st.run.seen = "none" /\ id \in DOMAIN st.rows THEN {[st EXCEPT !.run = Idle, !.failed = TRUE]}
            ELSE {[st EXCEPT !.rows = rows, !.run.phase = "look", !.run.next = @ + 1]}

(* SELECT the proposals of this actor and workbook that were not found. *)
Select(st) ==
    IF At(st, "look") /\ ~Upserting(st)
    THEN LET group == Group(st)
             stale == {id \in DOMAIN st.rows : Owns(st, group.actor, id) /\ st.rows[id].workbook = group.workbook
                                               /\ st.rows[id].status = "proposed"} \ Ids(group)
         IN {[st EXCEPT !.run.phase = "delete", !.run.stale = stale]}
    ELSE {}

(* DELETE one of them, by its id and actor alone. *)
Delete(st) ==
    IF ~At(st, "delete") THEN {}
    ELSE {[st EXCEPT !.rows = IF Owns(st, Group(st).actor, id) THEN Without(@, id) ELSE @, !.run.stale = @ \ {id}]
            : id \in st.run.stale}

(* The next group, or the end of the run. *)
Proceed(st) ==
    IF At(st, "delete") /\ st.run.stale = {}
    THEN IF st.run.group < Len(st.run.groups)
         THEN {[st EXCEPT !.run.group = @ + 1, !.run.next = 1, !.run.phase = "look"]}
         ELSE {[st EXCEPT !.run = Idle, !.mined = st.run.groups]}
    ELSE {}

----------------------------------------------------------------------------
(* The server.                                                              *)

(* POST feedback: the answer of the routine's actor; no one else has it. *)
Answered(st, id, verdict) ==
    [st EXCEPT !.rows = With(@, id, [@[id] EXCEPT !.status = verdict]), !.answers = With(@, id, verdict),
               !.late = IF id \in st.run.stale THEN @ \cup {id} ELSE @]

Feedback(st) == {Answered(st, id, verdict) : id \in DOMAIN st.rows, verdict \in Verdicts}

(* GET: the routines of an actor and a workbook. *)
Listed(st, actor, workbook) == {id \in DOMAIN st.rows : Owns(st, actor, id) /\ st.rows[id].workbook = workbook}

AfterStatement(st) ==
    UNION {Begin(st), Look(st), Write(st), Select(st), Delete(st), Proceed(st), Feedback(st)}
=============================================================================
