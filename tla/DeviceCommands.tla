--------------------------- MODULE DeviceCommands ---------------------------
(***************************************************************************)
(* The device_commands queue of one device.                                *)
(*                                                                         *)
(* A row is inserted by a request or a job, handed to the agent over the   *)
(* WebSocket by the caller that inserted it, or over HTTP by a heartbeat   *)
(* or a command poll, answered by the agent over either transport, and     *)
(* otherwise cancelled, deleted or timed out.  Every writer is a           *)
(* compare-and-swap on the row's status.                                   *)
(*                                                                         *)
(* The variables hold what a transaction has written; row[c] is invisible  *)
(* to everybody but its writer until committed[c].  Row locks held by open *)
(* transactions (a heartbeat's claim, the reaper's updates) make other     *)
(* writers wait: their action is disabled; SKIP LOCKED leaves such rows    *)
(* out.  A claim stamps executed_at; claims are numbered here.             *)
(***************************************************************************)
EXTENDS Naturals, FiniteSets

CONSTANTS
    Commands,       \* ids of device_commands rows
    StopCommands,   \* the rows of type desktop_stream_stop, which are re-armed
    Exempt,         \* rows the stale reaper leaves alone: EXCLUDED_COMMAND_TYPES, and
                    \* the self_uninstall of a tenant that is being offboarded
    Dispatchers,    \* slots for callers that insert a row and dispatch it
    Polls,          \* slots for heartbeats and command polls
    Results,        \* slots for results being processed
    BatchLimit,     \* how many rows a heartbeat or a poll claims (10)
    MaxClaims,      \* bound: how often one row is claimed
    MaxRearms,      \* bound: how often one row is re-armed
    MaxFaults       \* bound: crashes, rollbacks and lost answers

ASSUME KindsAssumption == StopCommands \subseteq Commands /\ Exempt \subseteq Commands
ASSUME LimitsAssumption ==
    /\ BatchLimit \in Nat \ {0} /\ MaxClaims \in Nat
    /\ MaxRearms \in Nat /\ MaxFaults \in Nat

Open == {"pending", "sent"}
Settled == {"completed", "failed", "cancelled", "deleted", "rolled_back"}
Statuses == {"absent"} \cup Open \cup Settled

\* What the result column says about how the row was closed.
Outcomes == {"none", "agent", "confirmed", "timeout", "never_received", "no_response",
             "cancelled_undelivered", "cancelled"}

\* What the agent may answer; only a stop can be "confirmed".
Answers == {"completed", "failed", "confirmed"}

\* How a caller dispatches: every statement commits (executeCommand), all of it
\* inside one open transaction (queueCommandForExecution), or re-arming a stop.
Kinds == {"auto", "tx", "stop"}
DispatchSteps == {"unconfirmed", "queued", "claimed", "unsent", "waiting", "closing"}
PollSteps == {"locked", "claimed", "answering"}

VARIABLES
    status,     \* device_commands.status
    outcome,    \* device_commands.result
    stamp,      \* device_commands.executed_at: the claim it shows, 0 for NULL
    committed,  \* the row is visible to other transactions
    createdOld, \* created_at is older than the type's timeout
    sentOld,    \* executed_at is older than the type's timeout
    claims,     \* how many claims of the row there have been
    rearms,     \* how often the row was re-armed
    disp,       \* the dispatching callers
    poll,       \* the heartbeats and polls
    res,        \* the results being processed
    seen,       \* the rows the reaper selected, by the status it read
    reaped,     \* the rows the reaper's open transaction has updated
    faults,     \* how many faults there have been
    offered,    \* history: the claims under which the agent was handed the row
    ran,        \* the agent's answer to the command, once it has run it
    job,        \* the restore_jobs row of the command, if it is a restore
    handled     \* history: how often the result took effect

rowVars == <<status, outcome, stamp, committed>>
clockVars == <<createdOld, sentOld>>
boundVars == <<claims, rearms, faults>>
reaperVars == <<seen, reaped>>
effectVars == <<job, handled>>
vars == <<rowVars, clockVars, boundVars, disp, poll, res, reaperVars, offered, ran,
          effectVars>>

Idle == [step |-> "idle"]
Dispatch == [step: DispatchSteps, kind: Kinds, cmd: Commands, claim: Nat]
Poll == [step: PollSteps, cmds: SUBSET Commands, claim: [Commands -> Nat]]
Result == [step: {"read", "handling", "orphan"}, cmd: Commands]

\* A restore's job row: "unlinked" until it names its command, then "open"
\* (pending or running), "failing" while the reaper's open transaction holds it,
\* "closed" by a result, a cancellation or the reaper.
Jobs == {"none", "unlinked", "open", "failing", "closed"}

TypeOK ==
    /\ status \in [Commands -> Statuses]
    /\ outcome \in [Commands -> Outcomes]
    /\ stamp \in [Commands -> Nat]
    /\ committed \in [Commands -> BOOLEAN]
    /\ createdOld \in [Commands -> BOOLEAN]
    /\ sentOld \in [Commands -> BOOLEAN]
    /\ claims \in [Commands -> Nat]
    /\ rearms \in [Commands -> Nat]
    /\ disp \in [Dispatchers -> Dispatch \cup {Idle}]
    /\ poll \in [Polls -> Poll \cup {Idle}]
    /\ res \in [Results -> Result \cup {Idle}]
    /\ seen \in [Commands -> {"no"} \cup Open]
    /\ reaped \in [Commands -> {"no"} \cup Open]
    /\ faults \in Nat
    /\ offered \in [Commands -> SUBSET Nat]
    /\ ran \in [Commands -> {"no"} \cup Answers]
    /\ job \in [Commands -> Jobs]
    /\ handled \in [Commands -> Nat]

Init ==
    /\ status = [c \in Commands |-> "absent"]
    /\ outcome = [c \in Commands |-> "none"]
    /\ stamp = [c \in Commands |-> 0]
    /\ committed = [c \in Commands |-> FALSE]
    /\ createdOld = [c \in Commands |-> FALSE]
    /\ sentOld = [c \in Commands |-> FALSE]
    /\ claims = [c \in Commands |-> 0]
    /\ rearms = [c \in Commands |-> 0]
    /\ disp = [d \in Dispatchers |-> Idle]
    /\ poll = [p \in Polls |-> Idle]
    /\ res = [r \in Results |-> Idle]
    /\ seen = [c \in Commands |-> "no"]
    /\ reaped = [c \in Commands |-> "no"]
    /\ faults = 0
    /\ offered = [c \in Commands |-> {}]
    /\ ran = [c \in Commands |-> "no"]
    /\ job \in [Commands -> {"none", "unlinked"}]
    /\ \A c \in StopCommands : job[c] = "none"
    /\ handled = [c \in Commands |-> 0]

-----------------------------------------------------------------------------

Locked(c) ==
    \/ reaped[c] # "no"
    \/ \E p \in Polls : poll[p].step = "locked" /\ c \in poll[p].cmds

\* A row another transaction's UPDATE ... WHERE status IN S changes now.
Writable(c, S) == committed[c] /\ status[c] \in S /\ ~Locked(c)

Fault == faults < MaxFaults /\ faults' = faults + 1

\* The terminal write of a compare-and-swap.
Close(c, to, why) ==
    /\ status' = [status EXCEPT ![c] = to]
    /\ outcome' = [outcome EXCEPT ![c] = why]
    /\ UNCHANGED <<stamp, committed>>

-----------------------------------------------------------------------------
(* Callers that insert a row, and dispatch it over the WebSocket.          *)

Insert(c, visible) ==
    /\ status[c] = "absent"
    /\ status' = [status EXCEPT ![c] = "pending"]
    /\ committed' = [committed EXCEPT ![c] = visible]
    /\ UNCHANGED <<outcome, stamp>>

\* Insert only; the agent or the watchdog collects the row over HTTP.
QueueCommand(c) ==
    /\ c \notin StopCommands
    /\ Insert(c, TRUE)
    /\ UNCHANGED <<clockVars, boundVars, disp, poll, res, reaperVars, offered, ran,
                   effectVars>>

Enter(d, c, step, kind) ==
    /\ disp[d] = Idle
    /\ disp' = [disp EXCEPT ![d] =
                   [step |-> step, kind |-> kind, cmd |-> c, claim |-> 0]]
    /\ UNCHANGED <<clockVars, boundVars, poll, res, reaperVars, offered, ran, effectVars>>

\* The watchdog, and callers that prefer the heartbeat, skip the WebSocket.
ExecuteCommand(d, c) ==
    /\ c \notin StopCommands
    /\ Insert(c, TRUE)
    /\ \E step \in {"queued", "waiting"} : Enter(d, c, step, "auto")

\* The caller's transaction stays open until the function has returned.
QueueCommandForExecution(d, c) ==
    /\ c \notin StopCommands
    /\ Insert(c, FALSE)
    /\ \E step \in {"queued", "closing"} : Enter(d, c, step, "tx")

\* parseConfirmedStop
Confirmed(c) == status[c] = "completed" /\ outcome[c] = "confirmed"

\* The row is inserted unless it exists, and read; a confirmed stop ends here.
EnsureDesktopStreamStopped(d, c) ==
    /\ c \in StopCommands
    /\ \/ Insert(c, TRUE)
       \/ status[c] # "absent" /\ ~Confirmed(c) /\ UNCHANGED rowVars
    /\ Enter(d, c, "unconfirmed", "stop")

Leave(d) == disp' = [disp EXCEPT ![d] = Idle]
GoTo(d, step) == disp' = [disp EXCEPT ![d].step = step]

\* What a caller does once the row is, or cannot be, dispatched: wait for the
\* result, return (and so commit), or leave it to the next finalization pass.
Proceed(d) ==
    CASE disp[d].kind = "auto" -> GoTo(d, "waiting")
      [] disp[d].kind = "tx"   -> GoTo(d, "closing")
      [] OTHER                 -> Leave(d)

\* The re-arming update, in a transaction after the one that read the row; then
\* the caller returns if the agent is not connected.
RearmIdempotentCommand(d) ==
    LET c == disp[d].cmd
    IN  /\ disp[d].step = "unconfirmed"
        /\ ~Locked(c) /\ rearms[c] < MaxRearms
        /\ IF status[c] \in {"pending", "sent", "failed", "completed"}
           THEN /\ status' = [status EXCEPT ![c] = "pending"]
                /\ outcome' = [outcome EXCEPT ![c] = "none"]
                /\ stamp' = [stamp EXCEPT ![c] = 0]
                /\ rearms' = [rearms EXCEPT ![c] = @ + 1]
           ELSE UNCHANGED <<status, outcome, stamp, rearms>>
        /\ GoTo(d, "queued") \/ Leave(d)
        /\ UNCHANGED <<committed, clockVars, claims, faults, poll, res, reaperVars,
                       offered, ran, effectVars>>

\* Rows in S are claimed: sent, with a fresh executed_at.
MarkSent(S) ==
    /\ status' = [c \in Commands |-> IF c \in S THEN "sent" ELSE status[c]]
    /\ stamp' = [c \in Commands |-> IF c \in S THEN claims[c] + 1 ELSE stamp[c]]
    /\ claims' = [c \in Commands |-> IF c \in S THEN claims[c] + 1 ELSE claims[c]]
    /\ sentOld' = [c \in Commands |-> IF c \in S THEN FALSE ELSE sentOld[c]]

ClaimPendingCommand(d) ==
    LET c == disp[d].cmd
    IN  /\ disp[d].step = "queued" /\ ~Locked(c)
        /\ IF status[c] = "pending"
           THEN /\ claims[c] < MaxClaims
                /\ MarkSent({c})
                /\ disp' = [disp EXCEPT ![d] = [step |-> "claimed", kind |-> disp[d].kind,
                                                cmd |-> c, claim |-> claims[c] + 1]]
           ELSE Proceed(d) /\ UNCHANGED <<status, stamp, claims, sentOld>>
        /\ UNCHANGED <<outcome, committed, createdOld, rearms, faults, poll, res,
                       reaperVars, offered, ran, effectVars>>

\* The frame is handed to the socket, at the latest by the last retry.
SendCommandToAgent(d) ==
    LET c == disp[d].cmd
    IN  /\ disp[d].step = "claimed"
        /\ offered' = [offered EXCEPT ![c] = @ \cup {disp[d].claim}]
        /\ Proceed(d)
        /\ UNCHANGED <<rowVars, clockVars, boundVars, poll, res, reaperVars, ran,
                       effectVars>>

\* No connection, every send throws, or the payload cannot be decrypted.
SendFails(d) ==
    /\ disp[d].step = "claimed"
    /\ GoTo(d, "unsent")
    /\ UNCHANGED <<rowVars, clockVars, boundVars, poll, res, reaperVars, offered, ran,
                   effectVars>>

\* Mutant of Releasable: the row's executed_at is not compared.
ReleasableWhateverClaim(c, claim) == status[c] = "sent"

\* The row still shows the claim that is being given up.
Releasable(c, claim) == status[c] = "sent" /\ stamp[c] = claim

PutBack(S) ==
    /\ status' = [c \in Commands |-> IF c \in S THEN "pending" ELSE status[c]]
    /\ stamp' = [c \in Commands |-> IF c \in S THEN 0 ELSE stamp[c]]

\* An interactive caller returns without waiting.
ReleaseClaimedCommand(d) ==
    LET c == disp[d].cmd
    IN  /\ disp[d].step = "unsent" /\ ~Locked(c)
        /\ PutBack(IF Releasable(c, disp[d].claim) THEN {c} ELSE {})
        /\ Proceed(d) \/ (disp[d].kind = "auto" /\ Leave(d))
        /\ UNCHANGED <<outcome, committed, clockVars, boundVars, poll, res, reaperVars,
                       offered, ran, effectVars>>

\* waitForCommandResult: the row is closed, or the wait times out and closes it.
WaitForCommandResult(d) ==
    LET c == disp[d].cmd
    IN  /\ disp[d].step = "waiting"
        /\ \/ Writable(c, Open) /\ Close(c, "failed", "timeout")
           \/ status[c] \in Settled /\ UNCHANGED rowVars
        /\ Leave(d)
        /\ UNCHANGED <<clockVars, boundVars, poll, res, reaperVars, offered, ran,
                       effectVars>>

CommitDispatch(d) ==
    /\ disp[d].step = "closing"
    /\ committed' = [committed EXCEPT ![disp[d].cmd] = TRUE]
    /\ Leave(d)
    /\ UNCHANGED <<status, outcome, stamp, clockVars, boundVars, poll, res, reaperVars,
                   offered, ran, effectVars>>

\* A backup stop that could not be sent is deleted in the same transaction.
QueueBackupStopCommand(d) ==
    LET c == disp[d].cmd
    IN  /\ disp[d].step = "closing" /\ status[c] = "pending"
        /\ Close(c, "deleted", "none")
        /\ Leave(d)
        /\ UNCHANGED <<clockVars, boundVars, poll, res, reaperVars, offered, ran, effectVars>>

\* The caller dies, or its transaction is rolled back, wherever it stands.
AbortDispatch(d) ==
    /\ Fault
    /\ disp[d] # Idle
    /\ IF disp[d].kind = "tx"
       THEN status' = [status EXCEPT ![disp[d].cmd] = "rolled_back"]
       ELSE UNCHANGED status
    /\ Leave(d)
    /\ UNCHANGED <<outcome, stamp, committed, clockVars, claims, rearms, poll, res,
                   reaperVars, offered, ran, effectVars>>

-----------------------------------------------------------------------------
(* Batch delivery over HTTP: claimPendingCommandsForDevice and             *)
(* decryptClaimedCommandsForDelivery.                                      *)

\* FOR UPDATE SKIP LOCKED LIMIT BatchLimit
Claimable == {c \in Commands : Writable(c, {"pending"}) /\ claims[c] < MaxClaims}
Batches ==
    {S \in SUBSET Claimable :
        /\ S # {} /\ Cardinality(S) <= BatchLimit
        /\ S = Claimable \/ Cardinality(S) = BatchLimit}

Answer(cmds, claim) == [step |-> "answering", cmds |-> cmds, claim |-> claim]

\* A heartbeat claims inside its own open transaction ...
HeartbeatClaim(p) ==
    /\ poll[p] = Idle
    /\ \E S \in Batches :
          poll' = [poll EXCEPT ![p] = [step |-> "locked", cmds |-> S, claim |-> claims]]
    /\ UNCHANGED <<rowVars, clockVars, boundVars, disp, res, reaperVars, offered, ran,
                   effectVars>>

\* ... which puts back what cannot be decrypted and commits.
HeartbeatCommit(p) ==
    /\ poll[p].step = "locked"
    /\ \E good \in SUBSET poll[p].cmds :
          /\ MarkSent(good)
          /\ poll' = [poll EXCEPT ![p] = Answer(good, claims')]
    /\ UNCHANGED <<outcome, committed, createdOld, rearms, faults, disp, res,
                   reaperVars, offered, ran, effectVars>>

\* A command poll commits its claim first ...
PollClaim(p) ==
    /\ poll[p] = Idle
    /\ \E S \in Batches :
          /\ MarkSent(S)
          /\ poll' = [poll EXCEPT ![p] =
                         [step |-> "claimed", cmds |-> S, claim |-> claims']]
    /\ UNCHANGED <<outcome, committed, createdOld, rearms, faults, disp, res,
                   reaperVars, offered, ran, effectVars>>

\* Mutant of PollRelease: one bad payload puts the whole batch back.
PollReleaseBatch(p) ==
    /\ poll[p].step = "claimed"
    /\ \A c \in poll[p].cmds : ~Locked(c)
    /\ PutBack({c \in poll[p].cmds : Releasable(c, poll[p].claim[c])})
    /\ \E bad \in SUBSET poll[p].cmds :
          poll' = [poll EXCEPT ![p] = Answer(poll[p].cmds \ bad, poll[p].claim)]
    /\ UNCHANGED <<outcome, committed, clockVars, boundVars, disp, res, reaperVars,
                   offered, ran, effectVars>>

\* ... and then puts back what cannot be decrypted; a release may throw.
PollRelease(p) ==
    /\ poll[p].step = "claimed"
    /\ \E bad \in SUBSET poll[p].cmds :
          /\ \E back \in SUBSET bad :
                /\ \A c \in back : ~Locked(c)
                /\ PutBack({c \in back : Releasable(c, poll[p].claim[c])})
          /\ poll' = [poll EXCEPT ![p] = Answer(poll[p].cmds \ bad, poll[p].claim)]
    /\ UNCHANGED <<outcome, committed, clockVars, boundVars, disp, res, reaperVars,
                   offered, ran, effectVars>>

\* The HTTP response carries the commands.
PollAnswer(p) ==
    /\ poll[p].step = "answering"
    /\ offered' = [c \in Commands |-> IF c \in poll[p].cmds
                                      THEN offered[c] \cup {poll[p].claim[c]}
                                      ELSE offered[c]]
    /\ poll' = [poll EXCEPT ![p] = Idle]
    /\ UNCHANGED <<rowVars, clockVars, boundVars, disp, res, reaperVars, ran, effectVars>>

\* The handler dies; what it had not committed is rolled back.
AbortPoll(p) ==
    /\ Fault
    /\ poll[p] # Idle
    /\ poll' = [poll EXCEPT ![p] = Idle]
    /\ UNCHANGED <<rowVars, clockVars, claims, rearms, disp, res, reaperVars, offered,
                   ran, effectVars>>

-----------------------------------------------------------------------------
(* The agent, and its results.  It may submit a result several times, over *)
(* the WebSocket and over HTTP, late, or never.                            *)

\* A stop that is delivered again is executed again.
AgentExecutes(c) ==
    /\ offered[c] # {}
    /\ ran[c] = "no" \/ c \in StopCommands
    /\ \E answer \in Answers :
          /\ answer = "confirmed" => c \in StopCommands
          /\ ran' = [ran EXCEPT ![c] = answer]
    /\ UNCHANGED <<rowVars, clockVars, boundVars, disp, poll, res, reaperVars, offered,
                   effectVars>>

\* The handler reads the row.  A result whose row it does not find or that is
\* closed is dropped by the HTTP route; the WebSocket handler still looks for a
\* restore job that names the command (processOrphanedCommandResult).
ReadResult(r, c) ==
    /\ res[r] = Idle /\ ran[c] # "no"
    /\ \/ /\ committed[c] /\ status[c] \in Open
          /\ res' = [res EXCEPT ![r] = [step |-> "read", cmd |-> c]]
       \/ /\ ~(committed[c] /\ status[c] \in Open) /\ job[c] # "none"
          /\ res' = [res EXCEPT ![r] = [step |-> "orphan", cmd |-> c]]
    /\ UNCHANGED <<rowVars, clockVars, boundVars, disp, poll, reaperVars, offered, ran,
                   effectVars>>

\* Mutant of Accepted: the row is not compared again.
AcceptedAsRead(c) == TRUE

\* ACCEPTED_COMMAND_RESULT_STATUSES
Accepted(c) == status[c] \in Open

StoredStatus(answer) == IF answer = "failed" THEN "failed" ELSE "completed"
StoredOutcome(answer) == IF answer = "confirmed" THEN "confirmed" ELSE "agent"

\* The terminal compare-and-swap; a malformed result fails the row, and has no
\* handler on the HTTP route.
RecordResult(r) ==
    LET c == res[r].cmd
    IN  /\ res[r].step = "read" /\ ~Locked(c)
        /\ IF Accepted(c)
           THEN \/ Close(c, StoredStatus(ran[c]), StoredOutcome(ran[c]))
                     /\ res' = [res EXCEPT ![r].step = "handling"]
                \/ Close(c, "failed", "agent")
                     /\ \/ res' = [res EXCEPT ![r] = Idle]
                        \/ res' = [res EXCEPT ![r].step = "handling"]
           ELSE UNCHANGED rowVars /\ res' = [res EXCEPT ![r] = Idle]
        /\ UNCHANGED <<clockVars, boundVars, disp, poll, reaperVars, offered, ran,
                       effectVars>>

\* Mutant of MutableJob: a job that has ended takes a result as well.
MutableOrEnded(c) == job[c] \in {"open", "closed"}

\* isMutableRestoreStatus, for the job found by the command id.
MutableJob(c) == job[c] = "open"

\* The result takes effect: on the restore job, if the command has one and the
\* compare-and-swap on its status succeeds, else in the per-type post-processing.
ApplyResult(c) ==
    /\ job[c] # "failing"
    /\ job' = [job EXCEPT ![c] = IF MutableJob(c) THEN "closed" ELSE @]
    /\ handled' = [handled EXCEPT ![c] = IF job[c] = "none" \/ MutableJob(c) THEN @ + 1 ELSE @]

HandleResult(r) ==
    /\ res[r].step \in {"handling", "orphan"}
    /\ ApplyResult(res[r].cmd)
    /\ res' = [res EXCEPT ![r] = Idle]
    /\ UNCHANGED <<rowVars, clockVars, boundVars, disp, poll, reaperVars, offered, ran>>

\* The process dies, or finds the device contained, and the result is lost.
DropResult(r) ==
    /\ Fault
    /\ res[r] # Idle
    /\ res' = [res EXCEPT ![r] = Idle]
    /\ UNCHANGED <<rowVars, clockVars, claims, rearms, disp, poll, reaperVars, offered,
                   ran, effectVars>>

-----------------------------------------------------------------------------
(* The restore job of a command, where it has one.                         *)

\* The route names the command in the job's row once the dispatch has returned,
\* by the job's id, whatever the job and the command have become.
LinkRestoreJob(c) ==
    /\ job[c] = "unlinked" /\ committed[c]
    /\ job' = [job EXCEPT ![c] = "open"]
    /\ UNCHANGED <<rowVars, clockVars, boundVars, disp, poll, res, reaperVars, offered,
                   ran, handled>>

CancelRestoreJob(c) ==
    /\ job[c] = "open"
    /\ job' = [job EXCEPT ![c] = "closed"]
    /\ UNCHANGED <<rowVars, clockVars, boundVars, disp, poll, res, reaperVars, offered,
                   ran, handled>>

-----------------------------------------------------------------------------
(* Cancellation and timeouts.                                              *)

\* Mutant of Undelivered: rows that were handed over are withdrawn as well.
UndeliveredOrSent(c) == Writable(c, Open)

\* A queued row may be withdrawn silently.
Undelivered(c) == Writable(c, {"pending"})

\* A script or software deployment is cancelled, or expired by its own reaper.
CancelQueued(c) ==
    /\ c \notin StopCommands
    /\ Undelivered(c)
    /\ Close(c, "cancelled", "cancelled_undelivered")
    /\ UNCHANGED <<clockVars, boundVars, disp, poll, res, reaperVars, offered, ran,
                   effectVars>>

\* removeQueuedRestoreDispatch, queueBackupStopCommand
DeleteQueued(c) ==
    /\ c \notin StopCommands
    /\ Undelivered(c)
    /\ Close(c, "deleted", "none")
    /\ UNCHANGED <<clockVars, boundVars, disp, poll, res, reaperVars, offered, ran,
                   effectVars>>

\* A tenant is suspended for abuse or offboarded.
CancelForTenant(c) ==
    /\ Writable(c, Open)
    /\ Close(c, "cancelled", "cancelled")
    /\ UNCHANGED <<clockVars, boundVars, disp, poll, res, reaperVars, offered, ran,
                   effectVars>>

\* The timeout check of backup verifications closes the linked command.
TimeOutVerification(c) ==
    /\ Writable(c, Open)
    /\ Close(c, "failed", "timeout")
    /\ UNCHANGED <<clockVars, boundVars, disp, poll, res, reaperVars, offered, ran,
                   effectVars>>

\* Mutant of Stale: only rows that were handed over time out.
StaleIfSent(c) ==
    c \notin Exempt /\ committed[c] /\ status[c] = "sent" /\ sentOld[c]

\* The reference time of a row the reaper reads is too old.
Stale(c) ==
    /\ c \notin Exempt
    /\ committed[c] /\ status[c] \in Open
    /\ IF status[c] = "sent" THEN sentOld[c] ELSE createdOld[c]

\* reapStaleDeviceCommands: one transaction selects the stale rows (all of them:
\* MAX_REAP_PER_RUN only leaves the youngest to a later pass) ...
ReapScan ==
    /\ \A c \in Commands : seen[c] = "no" /\ reaped[c] = "no"
    /\ \E c \in Commands : Stale(c)
    /\ seen' = [c \in Commands |-> IF Stale(c) THEN status[c] ELSE "no"]
    /\ UNCHANGED <<rowVars, clockVars, boundVars, disp, poll, res, reaped, offered,
                   ran, effectVars>>

\* ... updates those still open, whatever has happened to them since, and the
\* open restore jobs that name them (propagateTimedOutDeviceCommand) ...
ReapOne(c) ==
    /\ seen[c] # "no" /\ ~Locked(c)
    /\ reaped' = [reaped EXCEPT ![c] = IF status[c] \in Open THEN seen[c] ELSE "no"]
    /\ job' = [job EXCEPT ![c] = IF status[c] \in Open /\ @ = "open" THEN "failing" ELSE @]
    /\ seen' = [seen EXCEPT ![c] = "no"]
    /\ UNCHANGED <<rowVars, clockVars, boundVars, disp, poll, res, offered, ran, handled>>

\* The end of the transaction that holds jobs.
EndFailing(to) == job' = [c \in Commands |-> IF job[c] = "failing" THEN to ELSE job[c]]

\* Mutant of ReapCommit: a status no other writer knows.
ReapCommitAsTimeout ==
    /\ \A c \in Commands : seen[c] = "no"
    /\ \E c \in Commands : reaped[c] # "no"
    /\ status' = [c \in Commands |-> IF reaped[c] # "no" THEN "timeout" ELSE status[c]]
    /\ reaped' = [c \in Commands |-> "no"]
    /\ EndFailing("closed")
    /\ UNCHANGED <<outcome, stamp, committed, clockVars, boundVars, disp, poll, res,
                   seen, offered, ran, handled>>

\* ... and commits.
ReapCommit ==
    /\ \A c \in Commands : seen[c] = "no"
    /\ \E c \in Commands : reaped[c] # "no"
    /\ status' = [c \in Commands |-> IF reaped[c] # "no" THEN "failed" ELSE status[c]]
    /\ outcome' = [c \in Commands |->
                      CASE reaped[c] = "sent"    -> "no_response"
                        [] reaped[c] = "pending" -> "never_received"
                        [] OTHER                 -> outcome[c]]
    /\ reaped' = [c \in Commands |-> "no"]
    /\ EndFailing("closed")
    /\ UNCHANGED <<stamp, committed, clockVars, boundVars, disp, poll, res, seen,
                   offered, ran, handled>>

\* A propagation to a linked job fails: the transaction is lost.
ReapAbort ==
    /\ Fault
    /\ \E c \in Commands : seen[c] # "no" \/ reaped[c] # "no"
    /\ seen' = [c \in Commands |-> "no"]
    /\ reaped' = [c \in Commands |-> "no"]
    /\ EndFailing("open")
    /\ UNCHANGED <<rowVars, clockVars, claims, rearms, disp, poll, res, offered, ran,
                   handled>>

PassCreated(c) ==
    /\ status[c] # "absent" /\ ~createdOld[c]
    /\ createdOld' = [createdOld EXCEPT ![c] = TRUE]
    /\ UNCHANGED <<rowVars, sentOld, boundVars, disp, poll, res, reaperVars, offered,
                   ran, effectVars>>

PassSent(c) ==
    /\ status[c] = "sent" /\ createdOld[c] /\ ~sentOld[c]
    /\ sentOld' = [sentOld EXCEPT ![c] = TRUE]
    /\ UNCHANGED <<rowVars, createdOld, boundVars, disp, poll, res, reaperVars, offered,
                   ran, effectVars>>

-----------------------------------------------------------------------------

Dispatching(d) ==
    \/ \E c \in Commands : \/ ExecuteCommand(d, c) \/ QueueCommandForExecution(d, c)
                           \/ EnsureDesktopStreamStopped(d, c)
    \/ RearmIdempotentCommand(d) \/ ClaimPendingCommand(d) \/ SendCommandToAgent(d)
    \/ SendFails(d) \/ ReleaseClaimedCommand(d) \/ WaitForCommandResult(d)
    \/ CommitDispatch(d) \/ QueueBackupStopCommand(d) \/ AbortDispatch(d)

Polling(p) ==
    \/ HeartbeatClaim(p) \/ HeartbeatCommit(p) \/ PollClaim(p) \/ PollRelease(p)
    \/ PollAnswer(p) \/ AbortPoll(p)

Answering(r) ==
    \/ \E c \in Commands : ReadResult(r, c)
    \/ RecordResult(r) \/ HandleResult(r) \/ DropResult(r)

Withdrawing(c) ==
    CancelQueued(c) \/ DeleteQueued(c) \/ CancelForTenant(c) \/ TimeOutVerification(c)

Reaping == ReapScan \/ (\E c \in Commands : ReapOne(c)) \/ ReapCommit \/ ReapAbort

Restoring(c) == LinkRestoreJob(c) \/ CancelRestoreJob(c)

Passing(c) == PassCreated(c) \/ PassSent(c)

Next ==
    \/ \E c \in Commands : \/ QueueCommand(c) \/ AgentExecutes(c) \/ Withdrawing(c)
                           \/ Restoring(c) \/ Passing(c)
    \/ \E d \in Dispatchers : Dispatching(d)
    \/ \E p \in Polls : Polling(p)
    \/ \E r \in Results : Answering(r)
    \/ Reaping

Spec == Init /\ [][Next]_vars

-----------------------------------------------------------------------------
(* Fairness.  Time passes; the reaper is a BullMQ repeatable job (every two *)
(* minutes) and its statements run; a heartbeat that holds row locks ends.  *)
(* The wait of ReapOne for a row lock is strongly fair: PostgreSQL queues   *)
(* it, while heartbeats skip locked rows.  Nothing is assumed of agents,    *)
(* callers or faults.                                                       *)

Fairness ==
    /\ WF_vars(ReapScan) /\ WF_vars(ReapCommit)
    /\ \A c \in Commands :
          WF_vars(PassCreated(c)) /\ WF_vars(PassSent(c)) /\ SF_vars(ReapOne(c))
    /\ \A p \in Polls : WF_vars(HeartbeatCommit(p))

FairSpec == Spec /\ Fairness

-----------------------------------------------------------------------------
(* Properties.                                                             *)

Once == Commands \ StopCommands

\* A command that is not re-armed is handed to the agent under at most one claim,
\* however WebSocket dispatch, heartbeats, polls, releases and crashes interleave
\* ("marks as sent to prevent duplicate delivery").
DeliveredOnce == \A c \in Once : \A s, t \in offered[c] : s = t

\* A command that was withdrawn while queued (an "honest cancel", or a deleted
\* dispatch) has never been handed to the agent and never will be.
WithdrawnUndelivered ==
    \A c \in Once :
        outcome[c] = "cancelled_undelivered" \/ status[c] = "deleted" => offered[c] = {}

\* A result takes effect at most once, although the agent may submit it several
\* times, over both transports, and although the WebSocket handler passes results
\* of closed or unseen rows on to the restore job; but for such jobs, only for a
\* row that the agent's own result closed.
HandledOnce ==
    \A c \in Once :
        handled[c] <= 1 /\ (handled[c] = 1 => outcome[c] = "agent" \/ job[c] = "closed")

\* A closed row is never reopened or rewritten, except that a stop is re-armed.
SettledStays ==
    [][\A c \in Once :
          status[c] \in Settled => status'[c] = status[c] /\ outcome'[c] = outcome[c]]_vars

\* A release never takes back a claim under which the agent was handed the
\* command: only re-arming makes such a row pending again ("a stale release can
\* never clobber a newer claim").
ReleaseSparesNewerClaim ==
    [][\A c \in Commands :
          status[c] = "sent" /\ stamp[c] \in offered[c] /\ status'[c] = "pending"
              => rearms'[c] # rearms[c]]_vars

\* Every visible command is closed in the end, whatever the agent does.
Settles ==
    \A c \in Once \ Exempt :
        committed[c] /\ status[c] \in Open ~> status[c] \in Settled

\* The row of a command is committed before the agent can submit its result.
CommittedBeforeResult == \A c \in Once : ran[c] # "no" => committed[c]
=============================================================================
