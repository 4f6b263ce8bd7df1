---------------------------- MODULE RestoreJobs ----------------------------
(***************************************************************************)
(* One restore job: the route that creates it, dispatches its command and  *)
(* then links the two, the route that cancels it, the agent's result and   *)
(* the reaper of stale commands.  Everyone but the two routes finds the    *)
(* job by the command id, which the row has only after the link.           *)
(*                                                                         *)
(* A step is one transaction: the routes open a new one for every write.   *)
(***************************************************************************)
EXTENDS Naturals

VARIABLES
    job,      \* restore_jobs.status, "none" before the insert
    linked,   \* restore_jobs.command_id holds the command
    cmd,      \* device_commands.status
    agent,    \* what the agent holds of the command
    inbox,    \* a result on its way to the job: past the command, if that is open
    create,   \* the creating route's step
    sawSent,  \* it was told that the command has been sent
    cancel,   \* the cancelling route's step
    read      \* the job as that route read it

vars == <<job, linked, cmd, agent, inbox, create, sawSent, cancel, read>>

Open == {"pending", "running"}
Results == {"completed", "failed"}
Statuses == Open \cup Results \cup {"none", "cancelled"}

TypeOK ==
    /\ job \in Statuses
    /\ linked \in BOOLEAN
    /\ cmd \in {"none", "pending", "sent", "removed"} \cup Results
    /\ agent \in {"none", "restoring", "reported"}
    /\ inbox \in {"none"} \cup Results
    /\ create \in {"insert", "dispatch", "fail", "link", "done"}
    /\ sawSent \in BOOLEAN
    /\ cancel \in {"idle", "write", "remove", "done"}
    /\ read \in [status: Statuses, linked: BOOLEAN]

Init ==
    /\ job = "none" /\ linked = FALSE /\ cmd = "none"
    /\ agent = "none" /\ inbox = "none"
    /\ create = "insert" /\ sawSent = FALSE
    /\ cancel = "idle" /\ read = [status |-> "none", linked |-> FALSE]

cancelVars == <<cancel, read>>
createVars == <<create, sawSent>>

-----------------------------------------------------------------------------
(* POST /restore *)

InsertJob ==
    /\ create = "insert" /\ create' = "dispatch"
    /\ job' = "pending"
    /\ UNCHANGED <<linked, cmd, agent, inbox, sawSent, cancelVars>>

(* queueCommandForExecution: the command is delivered at once, or left for *)
(* the agent's next heartbeat.                                             *)
Dispatch ==
    /\ create = "dispatch" /\ create' = "link"
    /\ \/ cmd' = "sent" /\ agent' = "restoring" /\ sawSent' = TRUE
       \/ cmd' = "pending" /\ UNCHANGED <<agent, sawSent>>
    /\ UNCHANGED <<job, linked, inbox, cancelVars>>

(* The device has gone offline, or the queueing threw. *)
DispatchFails ==
    /\ create = "dispatch" /\ create' = "fail"
    /\ UNCHANGED <<job, linked, cmd, agent, inbox, sawSent, cancelVars>>

(* markRestoreJobFailed: by id, whatever the status. *)
MarkFailed ==
    /\ create = "fail" /\ create' = "done"
    /\ job' = "failed"
    /\ UNCHANGED <<linked, cmd, agent, inbox, sawSent, cancelVars>>

(* The link, by id: the status is the one the dispatch implies or the one  *)
(* of the insert, never the row's own.                                     *)
Link ==
    /\ create = "link" /\ create' = "done"
    /\ linked' = TRUE
    /\ job' = IF sawSent THEN "running" ELSE "pending"
    /\ UNCHANGED <<cmd, agent, inbox, sawSent, cancelVars>>

-----------------------------------------------------------------------------
(* POST /restore/:id/cancel *)

CancelReads ==
    /\ cancel = "idle" /\ job \in Open
    /\ read' = [status |-> job, linked |-> linked]
    /\ cancel' = "write"
    /\ UNCHANGED <<job, linked, cmd, agent, inbox, createVars>>

CancelWrites ==
    /\ cancel = "write"
    /\ IF job \in Open THEN job' = "cancelled" /\ cancel' = "remove"
                       ELSE cancel' = "done" /\ UNCHANGED job
    /\ UNCHANGED <<linked, cmd, agent, inbox, createVars, read>>

(* An undelivered command is deleted, if the row as read named it.  The    *)
(* backup_stop sent otherwise only ends what the agent runs: the result is *)
(* still the agent's to report.                                            *)
CancelRemoves ==
    /\ cancel = "remove" /\ cancel' = "done"
    /\ cmd' = IF read.linked /\ cmd = "pending" THEN "removed" ELSE cmd
    /\ UNCHANGED <<job, linked, agent, inbox, createVars, read>>

-----------------------------------------------------------------------------
(* Delivery, results and the reaper *)

(* Heartbeat delivery of a pending command. *)
Deliver ==
    /\ cmd = "pending" /\ cmd' = "sent"
    /\ agent' = "restoring"
    /\ UNCHANGED <<job, linked, inbox, createVars, cancelVars>>

(* The agent reports.  If the command is closed already, the HTTP route     *)
(* drops the result and the WebSocket handler still looks for the job.     *)
Report ==
    /\ agent = "restoring" /\ agent' = "reported"
    /\ \E r \in Results :
          \/ cmd = "sent" /\ cmd' = r /\ inbox' = r
          \/ cmd # "sent" /\ inbox' \in {inbox, r} /\ UNCHANGED cmd
    /\ UNCHANGED <<job, linked, createVars, cancelVars>>

(* updateRestoreJobByCommandId: no job with that command id, no update. *)
ApplyResult ==
    /\ inbox \in Results /\ inbox' = "none"
    /\ job' = IF linked /\ job \in Open THEN inbox ELSE job
    /\ UNCHANGED <<linked, cmd, agent, createVars, cancelVars>>

(* The reaper fails a command without an answer and, in the same           *)
(* transaction, the open job that names it.  Its timeout is far longer     *)
(* than a route takes.                                                     *)
Reap ==
    /\ cmd \in {"pending", "sent"} /\ create = "done"
    /\ cmd' = "failed"
    /\ job' = IF linked /\ job \in Open THEN "failed" ELSE job
    /\ UNCHANGED <<linked, agent, inbox, createVars, cancelVars>>

Create == InsertJob \/ Dispatch \/ DispatchFails \/ MarkFailed \/ Link
Cancel == CancelReads \/ CancelWrites \/ CancelRemoves
Next == Create \/ Cancel \/ Deliver \/ Report \/ ApplyResult \/ Reap

Spec == Init /\ [][Next]_vars

(* The server runs its handlers and its reaper to their end.  Nobody need  *)
(* cancel, and the agent need neither poll nor report.                     *)
Fairness ==
    /\ WF_vars(Create) /\ WF_vars(CancelWrites) /\ WF_vars(CancelRemoves)
    /\ WF_vars(ApplyResult) /\ WF_vars(Reap)

FairSpec == Spec /\ Fairness

(* What monitoring.mdx:109 promises of a command that times out, asked of  *)
(* every end of a command: no restore job "remains stuck in Pending or     *)
(* Running forever".                                                       *)
RestoreEnds == job \in Open ~> job \notin Open
=============================================================================
