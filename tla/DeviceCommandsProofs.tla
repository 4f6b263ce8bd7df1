------------------------ MODULE DeviceCommandsProofs ------------------------
(***************************************************************************)
(* Proofs about DeviceCommands, for every set of commands, callers, polls  *)
(* and results, and every bound on claims, re-arms and faults.             *)
(***************************************************************************)
EXTENDS DeviceCommands, TLAPS

-----------------------------------------------------------------------------
(* The inductive invariant.                                                *)

Busy(d) == disp[d].step # "idle"

\* A caller's row exists; a transaction that is still open is alone in seeing its
\* row, which nobody has closed.
CallerInv ==
    /\ \A d \in Dispatchers : Busy(d) =>
          /\ status[disp[d].cmd] # "absent"
          /\ disp[d].kind = "tx" => ~committed[disp[d].cmd] /\ status[disp[d].cmd] \in Open
          /\ disp[d].step = "closing" => disp[d].kind = "tx"
          /\ disp[d].step = "unconfirmed" => disp[d].cmd \in StopCommands
    /\ \A d, e \in Dispatchers :
          Busy(d) /\ Busy(e) /\ disp[d].kind = "tx" /\ disp[e].kind = "tx"
              /\ disp[d].cmd = disp[e].cmd => d = e

Locks(p, c) == poll[p].step = "locked" /\ c \in poll[p].cmds

\* A row lock belongs to one transaction, and nobody writes under it.
LockInv ==
    /\ \A p \in Polls, c \in Commands :
          Locks(p, c) => status[c] = "pending" /\ committed[c] /\ reaped[c] = "no"
    /\ \A p, q \in Polls, c \in Commands : Locks(p, c) /\ Locks(q, c) => p = q
    /\ \A c \in Commands : reaped[c] # "no" => status[c] \in Open /\ committed[c]
    /\ \A c \in Commands : seen[c] # "no" => committed[c]
    /\ \A c \in Commands : status[c] = "absent" => ~committed[c]

\* Callers and polls that have claimed a row and not yet handed it over.
Holds(d, c) == disp[d].step \in {"claimed", "unsent"} /\ disp[d].cmd = c
Carries(p, c) == poll[p].step \in {"claimed", "answering"} /\ c \in poll[p].cmds
Held(c) == (\E d \in Dispatchers : Holds(d, c)) \/ (\E p \in Polls : Carries(p, c))

\* A row that nobody may hold and that the agent has not been handed.
Untouched(c) ==
    status[c] \in {"absent", "pending", "deleted"} \/ outcome[c] = "cancelled_undelivered"

\* One holder at a time, and none once the agent was handed the row.
HolderOf(c) ==
    /\ Untouched(c) \/ Held(c) => offered[c] = {}
    /\ Untouched(c) => ~Held(c)
    /\ \A d, e \in Dispatchers : Holds(d, c) /\ Holds(e, c) => d = e
    /\ \A p, q \in Polls : Carries(p, c) /\ Carries(q, c) => p = q
    /\ \A d \in Dispatchers, p \in Polls : ~(Holds(d, c) /\ Carries(p, c))
    /\ \A s, t \in offered[c] : s = t
    /\ status[c] \notin Settled => outcome[c] = "none"

HolderInv == \A c \in Once : HolderOf(c)

Handling(r, c) == res[r].step = "handling" /\ res[r].cmd = c

\* One handler per row, started by the write that closed it; the result of a
\* restore is applied by closing its job, whoever reads it.
ResultOf(c) ==
    /\ ran[c] # "confirmed"
    /\ handled[c] <= 1
    /\ handled[c] = 1 =>
          IF job[c] = "none" THEN status[c] \in Settled /\ outcome[c] = "agent"
                             ELSE job[c] = "closed"
    /\ \A r \in Results : Handling(r, c) =>
          /\ status[c] \in Settled /\ outcome[c] = "agent"
          /\ job[c] = "none" => handled[c] = 0
    /\ \A r, q \in Results : Handling(r, c) /\ Handling(q, c) => r = q

\* The handler has read a visible row, or is looking for the command's job.
SlotOK(r) ==
    /\ res[r].step \in {"read", "handling"} => committed[res[r].cmd]
    /\ res[r].step = "orphan" => job[res[r].cmd] # "none"

ResultInv ==
    /\ \A r \in Results : SlotOK(r)
    /\ \A c \in Once : ResultOf(c)

IndInv == TypeOK /\ CallerInv /\ LockInv /\ HolderInv /\ ResultInv

-----------------------------------------------------------------------------
(* Type correctness.                                                       *)

\* A caller, poll or result in flight is a record of its kind.
LEMMA CallerType ==
    ASSUME TypeOK, NEW d \in Dispatchers, Busy(d)
    PROVE  disp[d] \in Dispatch
BY DEF TypeOK, Busy, Idle

\* A poll that is not idle is a poll record.
LEMMA PollType ==
    ASSUME TypeOK, NEW p \in Polls, poll[p].step # "idle"
    PROVE  poll[p] \in Poll
BY DEF TypeOK, Idle

\* A result that is not idle is a result record.
LEMMA ResultType ==
    ASSUME TypeOK, NEW r \in Results, res[r].step # "idle"
    PROVE  res[r] \in Result
BY DEF TypeOK, Idle

\* Moving a caller on keeps disp well typed.
LEMMA GoToType ==
    ASSUME TypeOK, NEW d \in Dispatchers, Busy(d), NEW s \in DispatchSteps, GoTo(d, s)
    PROVE  disp' \in [Dispatchers -> Dispatch \cup {Idle}]
<1>1. disp[d] \in Dispatch
  BY CallerType
<1>2. [disp[d] EXCEPT !.step = s] \in Dispatch
  BY <1>1 DEF Dispatch
<1> QED BY <1>2 DEF TypeOK, GoTo

\* A caller that leaves keeps the callers typed.
LEMMA LeaveType ==
    ASSUME TypeOK, NEW d \in Dispatchers, Leave(d)
    PROVE  disp' \in [Dispatchers -> Dispatch \cup {Idle}]
BY DEF TypeOK, Leave

\* A caller that goes on after its send keeps the callers typed.
LEMMA ProceedType ==
    ASSUME TypeOK, NEW d \in Dispatchers, Busy(d), Proceed(d)
    PROVE  disp' \in [Dispatchers -> Dispatch \cup {Idle}]
BY GoToType, LeaveType DEF Proceed, DispatchSteps

\* The writes of a claim, a release and a closing compare-and-swap are typed.
LEMMA MarkSentType ==
    ASSUME TypeOK, NEW S, MarkSent(S)
    PROVE  /\ status' \in [Commands -> Statuses] /\ stamp' \in [Commands -> Nat]
           /\ claims' \in [Commands -> Nat] /\ sentOld' \in [Commands -> BOOLEAN]
<1>1. status' \in [Commands -> Statuses]
  BY DEF TypeOK, MarkSent, Statuses, Open
<1>2. stamp' \in [Commands -> Nat] /\ claims' \in [Commands -> Nat]
  BY DEF TypeOK, MarkSent
<1>3. sentOld' \in [Commands -> BOOLEAN]
  BY DEF TypeOK, MarkSent
<1> QED BY <1>1, <1>2, <1>3

\* Putting rows back to pending keeps status and stamp typed.
LEMMA PutBackType ==
    ASSUME TypeOK, NEW S, PutBack(S)
    PROVE  status' \in [Commands -> Statuses] /\ stamp' \in [Commands -> Nat]
BY DEF TypeOK, PutBack, Statuses, Open

\* Closing a row keeps the rows typed.
LEMMA CloseType ==
    ASSUME TypeOK, NEW c \in Commands, NEW to \in Statuses, NEW why \in Outcomes,
           Close(c, to, why)
    PROVE  /\ status' \in [Commands -> Statuses] /\ outcome' \in [Commands -> Outcomes]
           /\ stamp' \in [Commands -> Nat] /\ committed' \in [Commands -> BOOLEAN]
BY DEF TypeOK, Close

\* Inserting a row keeps the rows typed.
LEMMA InsertType ==
    ASSUME TypeOK, NEW c \in Commands, NEW visible \in BOOLEAN, Insert(c, visible)
    PROVE  /\ status' \in [Commands -> Statuses] /\ outcome' \in [Commands -> Outcomes]
           /\ stamp' \in [Commands -> Nat] /\ committed' \in [Commands -> BOOLEAN]
BY DEF TypeOK, Insert, Statuses, Open

\* A caller that starts keeps the callers typed.
LEMMA EnterType ==
    ASSUME TypeOK, NEW d \in Dispatchers, NEW c \in Commands, NEW step \in DispatchSteps,
           NEW kind \in Kinds, Enter(d, c, step, kind)
    PROVE  disp' \in [Dispatchers -> Dispatch \cup {Idle}]
BY DEF TypeOK, Enter, Dispatch

\* The callers' actions keep every variable well typed.
LEMMA DispatchingType ==
    ASSUME TypeOK, NEW d \in Dispatchers, Dispatching(d)
    PROVE  TypeOK'
<1> USE DEF rowVars, clockVars, boundVars, reaperVars, effectVars, DispatchSteps, Kinds
<1>1. ASSUME NEW c \in Commands, ExecuteCommand(d, c) PROVE TypeOK'
  <2>1. PICK step \in {"queued", "waiting"} : Enter(d, c, step, "auto")
    BY <1>1 DEF ExecuteCommand
  <2>2. disp' \in [Dispatchers -> Dispatch \cup {Idle}]
    BY <2>1, EnterType
  <2>3. Insert(c, TRUE)
    BY <1>1 DEF ExecuteCommand
  <2> QED BY <2>1, <2>2, <2>3, InsertType DEF TypeOK, Enter
<1>2. ASSUME NEW c \in Commands, QueueCommandForExecution(d, c) PROVE TypeOK'
  <2>1. PICK step \in {"queued", "closing"} : Enter(d, c, step, "tx")
    BY <1>2 DEF QueueCommandForExecution
  <2>2. disp' \in [Dispatchers -> Dispatch \cup {Idle}]
    BY <2>1, EnterType
  <2>3. Insert(c, FALSE)
    BY <1>2 DEF QueueCommandForExecution
  <2> QED BY <2>1, <2>2, <2>3, InsertType DEF TypeOK, Enter
<1>3. ASSUME NEW c \in Commands, EnsureDesktopStreamStopped(d, c) PROVE TypeOK'
  <2>1. Enter(d, c, "unconfirmed", "stop")
    BY <1>3 DEF EnsureDesktopStreamStopped
  <2>2. disp' \in [Dispatchers -> Dispatch \cup {Idle}]
    BY <2>1, EnterType
  <2>3. CASE Insert(c, TRUE)
    BY <2>1, <2>2, <2>3, InsertType DEF TypeOK, Enter
  <2>4. CASE UNCHANGED rowVars
    BY <2>1, <2>2, <2>4 DEF TypeOK, Enter
  <2> QED BY <1>3, <2>3, <2>4 DEF EnsureDesktopStreamStopped
<1> DEFINE c == disp[d].cmd
<1>4. ASSUME RearmIdempotentCommand(d) PROVE TypeOK'
  <2>1. Busy(d)
    BY <1>4 DEF RearmIdempotentCommand, Busy
  <2>2. c \in Commands
    BY <2>1, CallerType DEF Dispatch
  <2>3. disp' \in [Dispatchers -> Dispatch \cup {Idle}]
    BY <1>4, <2>1, GoToType, LeaveType DEF RearmIdempotentCommand
  <2>4. /\ status' \in [Commands -> Statuses] /\ outcome' \in [Commands -> Outcomes]
        /\ stamp' \in [Commands -> Nat] /\ rearms' \in [Commands -> Nat]
    BY <1>4, <2>2 DEF RearmIdempotentCommand, TypeOK, Statuses, Open, Outcomes
  <2> QED BY <1>4, <2>3, <2>4 DEF RearmIdempotentCommand, TypeOK
<1>5. ASSUME ClaimPendingCommand(d) PROVE TypeOK'
  <2>1. Busy(d)
    BY <1>5 DEF ClaimPendingCommand, Busy
  <2>2. disp[d] \in Dispatch
    BY <2>1, CallerType
  <2>3. CASE status[c] = "pending"
    <3>1. MarkSent({c})
      BY <1>5, <2>3 DEF ClaimPendingCommand
    <3>2. [step |-> "claimed", kind |-> disp[d].kind, cmd |-> c, claim |-> claims[c] + 1]
            \in Dispatch
      BY <2>2 DEF TypeOK, Dispatch
    <3>3. disp' \in [Dispatchers -> Dispatch \cup {Idle}]
      BY <1>5, <2>3, <3>2 DEF ClaimPendingCommand, TypeOK
    <3> QED BY <1>5, <3>1, <3>3, MarkSentType DEF ClaimPendingCommand, TypeOK
  <2>4. CASE status[c] # "pending"
    <3>1. Proceed(d)
      BY <1>5, <2>4 DEF ClaimPendingCommand
    <3> QED BY <1>5, <2>1, <2>4, <3>1, ProceedType DEF ClaimPendingCommand, TypeOK
  <2> QED BY <2>3, <2>4
<1>6. ASSUME SendCommandToAgent(d) PROVE TypeOK'
  <2>1. Busy(d)
    BY <1>6 DEF SendCommandToAgent, Busy
  <2>2. disp[d].claim \in Nat
    BY <2>1, CallerType DEF Dispatch
  <2>3. disp' \in [Dispatchers -> Dispatch \cup {Idle}]
    BY <1>6, <2>1, ProceedType DEF SendCommandToAgent
  <2>4. offered' \in [Commands -> SUBSET Nat]
    BY <1>6, <2>2 DEF SendCommandToAgent, TypeOK
  <2> QED BY <1>6, <2>3, <2>4 DEF SendCommandToAgent, TypeOK
<1>7. ASSUME SendFails(d) PROVE TypeOK'
  <2>1. disp' \in [Dispatchers -> Dispatch \cup {Idle}]
    BY <1>7, GoToType DEF SendFails, Busy
  <2> QED BY <1>7, <2>1 DEF SendFails, TypeOK
<1>8. ASSUME ReleaseClaimedCommand(d) PROVE TypeOK'
  <2>1. disp' \in [Dispatchers -> Dispatch \cup {Idle}]
    BY <1>8, ProceedType, LeaveType DEF ReleaseClaimedCommand, Busy
  <2> QED BY <1>8, <2>1, PutBackType DEF ReleaseClaimedCommand, TypeOK
<1>9. ASSUME WaitForCommandResult(d) PROVE TypeOK'
  <2>1. disp' \in [Dispatchers -> Dispatch \cup {Idle}]
    BY <1>9, LeaveType DEF WaitForCommandResult
  <2>2. c \in Commands
    BY <1>9, CallerType DEF WaitForCommandResult, Busy, Dispatch
  <2>3. CASE Close(c, "failed", "timeout")
    BY <1>9, <2>1, <2>2, <2>3, CloseType
    DEF WaitForCommandResult, TypeOK, Statuses, Settled, Outcomes
  <2>4. CASE UNCHANGED rowVars
    BY <1>9, <2>1, <2>4 DEF WaitForCommandResult, TypeOK
  <2> QED BY <1>9, <2>3, <2>4 DEF WaitForCommandResult
<1>10. ASSUME CommitDispatch(d) PROVE TypeOK'
  <2>1. disp' \in [Dispatchers -> Dispatch \cup {Idle}]
    BY <1>10, LeaveType DEF CommitDispatch
  <2> QED BY <1>10, <2>1 DEF CommitDispatch, TypeOK
<1>11. ASSUME QueueBackupStopCommand(d) PROVE TypeOK'
  <2>1. disp' \in [Dispatchers -> Dispatch \cup {Idle}]
    BY <1>11, LeaveType DEF QueueBackupStopCommand
  <2>2. c \in Commands
    BY <1>11, CallerType DEF QueueBackupStopCommand, Busy, Dispatch
  <2> QED BY <1>11, <2>1, <2>2, CloseType
          DEF QueueBackupStopCommand, TypeOK, Statuses, Settled, Outcomes
<1>12. ASSUME AbortDispatch(d) PROVE TypeOK'
  <2>1. disp' \in [Dispatchers -> Dispatch \cup {Idle}]
    BY <1>12, LeaveType DEF AbortDispatch
  <2>2. status' \in [Commands -> Statuses]
    BY <1>12 DEF AbortDispatch, TypeOK, Statuses, Settled
  <2> QED BY <1>12, <2>1, <2>2 DEF AbortDispatch, TypeOK, Fault
<1> QED BY <1>1, <1>2, <1>3, <1>4, <1>5, <1>6, <1>7, <1>8, <1>9, <1>10, <1>11, <1>12
        DEF Dispatching

\* So do heartbeats and polls.
LEMMA PollingType ==
    ASSUME TypeOK, NEW p \in Polls, Polling(p)
    PROVE  TypeOK'
<1> USE DEF rowVars, clockVars, boundVars, reaperVars, effectVars
<1>1. ASSUME HeartbeatClaim(p) PROVE TypeOK'
  <2>1. PICK S \in Batches :
          poll' = [poll EXCEPT ![p] = [step |-> "locked", cmds |-> S, claim |-> claims]]
    BY <1>1 DEF HeartbeatClaim
  <2>2. S \subseteq Commands
    BY DEF Batches, Claimable
  <2>3. [step |-> "locked", cmds |-> S, claim |-> claims] \in Poll
    BY <2>2 DEF Poll, PollSteps, TypeOK
  <2>4. poll' \in [Polls -> Poll \cup {Idle}]
    BY <2>1, <2>3 DEF TypeOK
  <2> QED BY <1>1, <2>4 DEF HeartbeatClaim, TypeOK
<1>2. ASSUME HeartbeatCommit(p) PROVE TypeOK'
  <2>1. PICK good \in SUBSET poll[p].cmds :
          /\ MarkSent(good)
          /\ poll' = [poll EXCEPT ![p] = Answer(good, claims')]
    BY <1>2 DEF HeartbeatCommit
  <2>2. good \subseteq Commands
    BY <1>2, PollType DEF HeartbeatCommit, Poll
  <2>3. claims' \in [Commands -> Nat]
    BY <2>1, MarkSentType
  <2>4. Answer(good, claims') \in Poll
    BY <2>2, <2>3 DEF Answer, Poll, PollSteps
  <2>5. poll' \in [Polls -> Poll \cup {Idle}]
    BY <2>1, <2>4 DEF TypeOK
  <2> QED BY <1>2, <2>1, <2>5, MarkSentType DEF HeartbeatCommit, TypeOK
<1>3. ASSUME PollClaim(p) PROVE TypeOK'
  <2>1. PICK S \in Batches :
          /\ MarkSent(S)
          /\ poll' = [poll EXCEPT ![p] =
                         [step |-> "claimed", cmds |-> S, claim |-> claims']]
    BY <1>3 DEF PollClaim
  <2>2. S \subseteq Commands
    BY DEF Batches, Claimable
  <2>3. claims' \in [Commands -> Nat]
    BY <2>1, MarkSentType
  <2>4. [step |-> "claimed", cmds |-> S, claim |-> claims'] \in Poll
    BY <2>2, <2>3 DEF Poll, PollSteps
  <2>5. poll' \in [Polls -> Poll \cup {Idle}]
    BY <2>1, <2>4 DEF TypeOK
  <2> QED BY <1>3, <2>1, <2>5, MarkSentType DEF PollClaim, TypeOK
<1>4. ASSUME PollRelease(p) PROVE TypeOK'
  <2>1. PICK bad \in SUBSET poll[p].cmds, back \in SUBSET poll[p].cmds :
          /\ PutBack({c \in back : Releasable(c, poll[p].claim[c])})
          /\ poll' = [poll EXCEPT ![p] = Answer(poll[p].cmds \ bad, poll[p].claim)]
    BY <1>4 DEF PollRelease
  <2>2. poll[p] \in Poll
    BY <1>4, PollType DEF PollRelease
  <2>3. Answer(poll[p].cmds \ bad, poll[p].claim) \in Poll
    BY <2>2 DEF Answer, Poll, PollSteps
  <2>4. poll' \in [Polls -> Poll \cup {Idle}]
    BY <2>1, <2>3 DEF TypeOK
  <2> QED BY <1>4, <2>1, <2>4, PutBackType DEF PollRelease, TypeOK
<1>5. ASSUME PollAnswer(p) PROVE TypeOK'
  <2>1. poll[p].cmds \subseteq Commands /\ poll[p].claim \in [Commands -> Nat]
    BY <1>5, PollType DEF PollAnswer, Poll
  <2>2. offered' \in [Commands -> SUBSET Nat]
    BY <1>5, <2>1 DEF PollAnswer, TypeOK
  <2> QED BY <1>5, <2>2 DEF PollAnswer, TypeOK
<1>6. ASSUME AbortPoll(p) PROVE TypeOK'
  BY <1>6 DEF AbortPoll, Fault, TypeOK
<1> QED BY <1>1, <1>2, <1>3, <1>4, <1>5, <1>6 DEF Polling

\* So do the handlers of results.
LEMMA AnsweringType ==
    ASSUME TypeOK, NEW r \in Results, Answering(r)
    PROVE  TypeOK'
<1> USE DEF rowVars, clockVars, boundVars, reaperVars, effectVars
<1>1. ASSUME NEW c \in Commands, ReadResult(r, c) PROVE TypeOK'
  BY <1>1 DEF ReadResult, TypeOK, Result
<1>2. ASSUME RecordResult(r) PROVE TypeOK'
  <2> DEFINE c == res[r].cmd
  <2>1. res[r] \in Result
    BY <1>2, ResultType DEF RecordResult
  <2>2. c \in Commands /\ [res[r] EXCEPT !.step = "handling"] \in Result
    BY <2>1 DEF Result
  <2>3. res' \in [Results -> Result \cup {Idle}]
    BY <1>2, <2>2 DEF RecordResult, TypeOK
  <2>4. CASE Close(c, StoredStatus(ran[c]), StoredOutcome(ran[c]))
    <3>1. StoredStatus(ran[c]) \in Statuses /\ StoredOutcome(ran[c]) \in Outcomes
      BY DEF StoredStatus, StoredOutcome, Statuses, Settled, Outcomes
    <3> QED BY <1>2, <2>2, <2>3, <2>4, <3>1, CloseType DEF RecordResult, TypeOK
  <2>5. CASE Close(c, "failed", "agent")
    <3>1. "failed" \in Statuses /\ "agent" \in Outcomes
      BY DEF Statuses, Settled, Outcomes
    <3> QED BY <1>2, <2>2, <2>3, <2>5, <3>1, CloseType DEF RecordResult, TypeOK
  <2>6. CASE UNCHANGED rowVars
    BY <1>2, <2>3, <2>6 DEF RecordResult, TypeOK
  <2> QED BY <1>2, <2>4, <2>5, <2>6 DEF RecordResult
<1>3. ASSUME HandleResult(r) PROVE TypeOK'
  <2>0. res[r].cmd \in Commands
    BY <1>3, ResultType DEF HandleResult, Result
  <2>1. handled' \in [Commands -> Nat] /\ job' \in [Commands -> Jobs]
    BY <1>3, <2>0 DEF HandleResult, ApplyResult, TypeOK, Jobs
  <2>2. res' \in [Results -> Result \cup {Idle}]
    BY <1>3 DEF HandleResult, TypeOK
  <2> QED BY <1>3, <2>1, <2>2 DEF HandleResult, TypeOK
<1>4. ASSUME DropResult(r) PROVE TypeOK'
  BY <1>4 DEF DropResult, Fault, TypeOK
<1> QED BY <1>1, <1>2, <1>3, <1>4 DEF Answering

\* The rows, callers, polls, results and the reaper keep their types under every
\* action.
LEMMA TypeInductive ==
    ASSUME TypeOK, [Next]_vars
    PROVE  TypeOK'
<1> USE DEF rowVars, clockVars, boundVars, reaperVars, effectVars
<1>1. ASSUME NEW c \in Commands, QueueCommand(c) PROVE TypeOK'
  BY <1>1, InsertType DEF QueueCommand, TypeOK
<1>2. ASSUME NEW c \in Commands, AgentExecutes(c) PROVE TypeOK'
  BY <1>2 DEF AgentExecutes, TypeOK
<1>3. ASSUME NEW c \in Commands, Withdrawing(c) PROVE TypeOK'
  <2>1. PICK to \in Statuses, why \in Outcomes : Close(c, to, why)
    BY <1>3 DEF Withdrawing, CancelQueued, DeleteQueued, CancelForTenant,
                TimeOutVerification, Statuses, Settled, Outcomes
  <2> QED BY <1>3, <2>1, CloseType
          DEF Withdrawing, CancelQueued, DeleteQueued, CancelForTenant,
              TimeOutVerification, TypeOK
<1>4. ASSUME NEW c \in Commands, Passing(c) PROVE TypeOK'
  BY <1>4 DEF Passing, PassCreated, PassSent, TypeOK
<1>5. ASSUME ReapScan PROVE TypeOK'
  BY <1>5 DEF ReapScan, Stale, TypeOK
<1>6. ASSUME NEW c \in Commands, ReapOne(c) PROVE TypeOK'
  <2>1. job' \in [Commands -> Jobs]
    BY <1>6 DEF ReapOne, TypeOK, Jobs
  <2> QED BY <1>6, <2>1 DEF ReapOne, TypeOK
<1>7. ASSUME ReapCommit PROVE TypeOK'
  <2>0. job' \in [Commands -> Jobs]
    BY <1>7 DEF ReapCommit, EndFailing, TypeOK, Jobs
  <2>1. status' \in [Commands -> Statuses]
    BY <1>7 DEF ReapCommit, TypeOK, Statuses, Settled
  <2>2. outcome' \in [Commands -> Outcomes]
    BY <1>7 DEF ReapCommit, TypeOK, Outcomes
  <2> QED BY <1>7, <2>0, <2>1, <2>2 DEF ReapCommit, TypeOK
<1>8. ASSUME ReapAbort PROVE TypeOK'
  <2>1. job' \in [Commands -> Jobs]
    BY <1>8 DEF ReapAbort, EndFailing, TypeOK, Jobs
  <2> QED BY <1>8, <2>1 DEF ReapAbort, Fault, TypeOK
<1>10. ASSUME NEW c \in Commands, Restoring(c) PROVE TypeOK'
  BY <1>10 DEF Restoring, LinkRestoreJob, CancelRestoreJob, TypeOK, Jobs
<1>9. CASE UNCHANGED vars
  BY <1>9 DEF vars, TypeOK
<1> QED BY <1>1, <1>2, <1>3, <1>4, <1>5, <1>6, <1>7, <1>8, <1>9, <1>10, DispatchingType,
           PollingType, AnsweringType DEF Next, Reaping

\* Every status, result and claim that is written is one the other writers know
\* ("status IN ('pending', 'sent')"): no writer invents a status.
THEOREM TypeCorrect == Spec => []TypeOK
<1>1. Init => TypeOK
  BY DEF Init, TypeOK, Statuses, Outcomes, Open, Jobs
<1> QED BY <1>1, TypeInductive, PTL DEF Spec

-----------------------------------------------------------------------------
(* What a step does to one row, and to the callers.                        *)

\* A row never disappears without a trace, stays visible, and once closed keeps
\* its status and result; a result is only written together with a closing status.
RowStep(c) ==
    /\ status[c] # "absent" => status'[c] # "absent"
    /\ committed[c] => committed'[c]
    /\ status'[c] = "absent" => committed'[c] = committed[c]
    /\ c \in Once /\ status[c] \in Settled
          => status'[c] = status[c] /\ outcome'[c] = outcome[c]
    /\ c \in Once => outcome'[c] = outcome[c] \/ status'[c] \in Settled

\* A step that leaves the rows alone is a row step.
LEMMA QuietRow ==
    ASSUME NEW c \in Commands, UNCHANGED rowVars
    PROVE  RowStep(c)
BY DEF RowStep, rowVars

\* Inserting a row is a row step.
LEMMA InsertRow ==
    ASSUME TypeOK, LockInv, NEW x \in Commands, NEW visible \in BOOLEAN, Insert(x, visible),
           NEW c \in Commands
    PROVE  RowStep(c)
BY DEF TypeOK, LockInv, Insert, RowStep, Settled

\* Closing an open row is a row step.
LEMMA CloseRow ==
    ASSUME TypeOK, NEW x \in Commands, NEW to \in Settled, NEW why, Close(x, to, why),
           status[x] \in Open, NEW c \in Commands
    PROVE  RowStep(c)
BY DEF TypeOK, Close, RowStep, Settled, Open

\* Claiming pending rows is a row step.
LEMMA MarkSentRow ==
    ASSUME TypeOK, NEW S \in SUBSET Commands, MarkSent(S), UNCHANGED <<outcome, committed>>,
           \A x \in S : status[x] = "pending", NEW c \in Commands
    PROVE  RowStep(c)
BY DEF TypeOK, MarkSent, RowStep, Settled

\* Putting sent rows back is a row step.
LEMMA PutBackRow ==
    ASSUME TypeOK, NEW S, PutBack(S), UNCHANGED <<outcome, committed>>,
           \A x \in S : status[x] = "sent", NEW c \in Commands
    PROVE  RowStep(c)
BY DEF TypeOK, PutBack, RowStep, Settled

\* Rows under the callers' actions.
LEMMA DispatchingRow ==
    ASSUME TypeOK, CallerInv, LockInv, NEW d \in Dispatchers, Dispatching(d),
           NEW c \in Commands
    PROVE  RowStep(c)
<1> DEFINE x == disp[d].cmd
<1>1. ASSUME NEW y \in Commands, ExecuteCommand(d, y) PROVE RowStep(c)
  BY <1>1, InsertRow DEF ExecuteCommand
<1>2. ASSUME NEW y \in Commands, QueueCommandForExecution(d, y) PROVE RowStep(c)
  BY <1>2, InsertRow DEF QueueCommandForExecution
<1>3. ASSUME NEW y \in Commands, EnsureDesktopStreamStopped(d, y) PROVE RowStep(c)
  BY <1>3, InsertRow, QuietRow DEF EnsureDesktopStreamStopped
<1>4. ASSUME RearmIdempotentCommand(d) PROVE RowStep(c)
  <2>1. x \in StopCommands
    BY <1>4 DEF RearmIdempotentCommand, CallerInv, Busy
  <2> QED BY <1>4, <2>1 DEF RearmIdempotentCommand, RowStep, TypeOK, Once
<1>5. ASSUME ClaimPendingCommand(d) PROVE RowStep(c)
  <2>1. x \in Commands
    BY <1>5, CallerType DEF ClaimPendingCommand, Busy, Dispatch
  <2>2. CASE status[x] = "pending"
    <3>1. MarkSent({x}) /\ UNCHANGED <<outcome, committed>>
      BY <1>5, <2>2 DEF ClaimPendingCommand
    <3> QED BY <2>1, <2>2, <3>1, MarkSentRow
  <2>3. CASE status[x] # "pending"
    BY <1>5, <2>3, QuietRow DEF ClaimPendingCommand, rowVars
  <2> QED BY <2>2, <2>3
<1>6. ASSUME SendCommandToAgent(d) \/ SendFails(d) PROVE RowStep(c)
  BY <1>6, QuietRow DEF SendCommandToAgent, SendFails
<1>7. ASSUME ReleaseClaimedCommand(d) PROVE RowStep(c)
  <2>1. PICK S \in SUBSET {x} : PutBack(S) /\ \A y \in S : status[y] = "sent"
    BY <1>7 DEF ReleaseClaimedCommand, Releasable
  <2> QED BY <1>7, <2>1, PutBackRow DEF ReleaseClaimedCommand
<1>8. ASSUME WaitForCommandResult(d) PROVE RowStep(c)
  <2>1. x \in Commands
    BY <1>8, CallerType DEF WaitForCommandResult, Busy, Dispatch
  <2>2. CASE Writable(x, Open) /\ Close(x, "failed", "timeout")
    BY <2>1, <2>2, CloseRow DEF Writable, Settled
  <2> QED BY <1>8, <2>2, QuietRow DEF WaitForCommandResult
<1>9. ASSUME CommitDispatch(d) PROVE RowStep(c)
  <2>1. status[x] # "absent"
    BY <1>9 DEF CommitDispatch, CallerInv, Busy
  <2> QED BY <1>9, <2>1 DEF CommitDispatch, RowStep, TypeOK
<1>10. ASSUME QueueBackupStopCommand(d) PROVE RowStep(c)
  <2>1. x \in Commands
    BY <1>10, CallerType DEF QueueBackupStopCommand, Busy, Dispatch
  <2> QED BY <1>10, <2>1, CloseRow DEF QueueBackupStopCommand, Open, Settled
<1>11. ASSUME AbortDispatch(d) PROVE RowStep(c)
  <2>1. Busy(d)
    BY <1>11 DEF AbortDispatch, Busy, TypeOK, Idle, Dispatch, DispatchSteps
  <2>2. disp[d].kind = "tx" => status[x] \in Open
    BY <2>1 DEF CallerInv
  <2> QED BY <1>11, <2>2 DEF AbortDispatch, RowStep, TypeOK, Settled, Open
<1> QED BY <1>1, <1>2, <1>3, <1>4, <1>5, <1>6, <1>7, <1>8, <1>9, <1>10, <1>11
        DEF Dispatching

\* Rows under the actions of heartbeats and polls.
LEMMA PollingRow ==
    ASSUME TypeOK, LockInv, NEW p \in Polls, Polling(p), NEW c \in Commands
    PROVE  RowStep(c)
<1>1. ASSUME HeartbeatClaim(p) \/ PollAnswer(p) \/ AbortPoll(p) PROVE RowStep(c)
  BY <1>1, QuietRow DEF HeartbeatClaim, PollAnswer, AbortPoll
<1>2. ASSUME HeartbeatCommit(p) PROVE RowStep(c)
  <2>1. PICK good \in SUBSET poll[p].cmds : MarkSent(good)
    BY <1>2 DEF HeartbeatCommit
  <2>2. good \in SUBSET Commands
    BY <1>2, PollType DEF HeartbeatCommit, Poll
  <2>3. \A x \in good : status[x] = "pending"
    BY <1>2, <2>2 DEF HeartbeatCommit, LockInv, Locks
  <2> QED BY <1>2, <2>1, <2>2, <2>3, MarkSentRow DEF HeartbeatCommit
<1>3. ASSUME PollClaim(p) PROVE RowStep(c)
  <2>1. PICK S \in Batches : MarkSent(S)
    BY <1>3 DEF PollClaim
  <2>2. S \in SUBSET Commands /\ \A x \in S : status[x] = "pending"
    BY DEF Batches, Claimable, Writable
  <2> QED BY <1>3, <2>1, <2>2, MarkSentRow DEF PollClaim
<1>4. ASSUME PollRelease(p) PROVE RowStep(c)
  <2>1. PICK back : PutBack({x \in back : Releasable(x, poll[p].claim[x])})
    BY <1>4 DEF PollRelease
  <2> DEFINE S == {x \in back : Releasable(x, poll[p].claim[x])}
  <2>2. \A x \in S : status[x] = "sent"
    BY DEF Releasable
  <2>3. UNCHANGED <<outcome, committed>>
    BY <1>4 DEF PollRelease
  <2> HIDE DEF S
  <2> QED BY <2>1, <2>2, <2>3, PutBackRow DEF S
<1> QED BY <1>1, <1>2, <1>3, <1>4 DEF Polling

\* Rows under every action.
LEMMA RowSteps ==
    ASSUME TypeOK, CallerInv, LockInv, [Next]_vars, NEW c \in Commands
    PROVE  RowStep(c)
<1>1. ASSUME NEW x \in Commands, QueueCommand(x) PROVE RowStep(c)
  BY <1>1, InsertRow DEF QueueCommand
<1>2. ASSUME NEW x \in Commands, AgentExecutes(x) \/ Restoring(x) \/ Passing(x)
      PROVE  RowStep(c)
  BY <1>2, QuietRow DEF AgentExecutes, Passing, PassCreated, PassSent, Restoring,
                        LinkRestoreJob, CancelRestoreJob
<1>3. ASSUME NEW x \in Commands, Withdrawing(x) PROVE RowStep(c)
  <2>1. status[x] \in Open
    BY <1>3 DEF Withdrawing, CancelQueued, DeleteQueued, CancelForTenant,
                TimeOutVerification, Undelivered, Writable, Open
  <2>2. PICK to \in Settled, why \in Outcomes : Close(x, to, why)
    BY <1>3 DEF Withdrawing, CancelQueued, DeleteQueued, CancelForTenant,
                TimeOutVerification, Settled, Outcomes
  <2> QED BY <2>1, <2>2, CloseRow
<1>4. ASSUME NEW r \in Results, Answering(r) PROVE RowStep(c)
  <2>1. ASSUME RecordResult(r), Accepted(res[r].cmd) PROVE RowStep(c)
    <3>1. res[r].cmd \in Commands
      BY <2>1, ResultType DEF RecordResult, Result
    <3>2. PICK to \in Settled, why \in Outcomes : Close(res[r].cmd, to, why)
      BY <2>1 DEF RecordResult, StoredStatus, StoredOutcome, Settled, Outcomes
    <3> QED BY <2>1, <3>1, <3>2, CloseRow DEF Accepted
  <2> QED BY <1>4, <2>1, QuietRow
          DEF Answering, ReadResult, RecordResult, HandleResult, DropResult
<1>5. ASSUME ReapScan \/ ReapAbort PROVE RowStep(c)
  BY <1>5, QuietRow DEF ReapScan, ReapAbort
<1>6. ASSUME NEW x \in Commands, ReapOne(x) PROVE RowStep(c)
  BY <1>6, QuietRow DEF ReapOne
<1>7. ASSUME ReapCommit PROVE RowStep(c)
  <2>1. reaped[c] # "no" => status[c] \in Open
    BY DEF LockInv
  <2>2. reaped[c] = "no" => status'[c] = status[c] /\ outcome'[c] = outcome[c]
    BY <1>7 DEF ReapCommit, TypeOK
  <2>3. reaped[c] # "no" => status'[c] = "failed"
    BY <1>7 DEF ReapCommit, TypeOK
  <2> QED BY <1>7, <2>1, <2>2, <2>3 DEF ReapCommit, RowStep, Settled, Open
<1>8. CASE UNCHANGED vars
  BY <1>8, QuietRow DEF vars
<1> QED BY <1>1, <1>2, <1>3, <1>4, <1>5, <1>6, <1>7, <1>8, DispatchingRow, PollingRow
        DEF Next, Reaping

-----------------------------------------------------------------------------
(* Callers.                                                                *)

\* Caller d moves on to one of the steps S, or leaves; the others stay.
Moved(d, S) ==
    /\ \A e \in Dispatchers : e # d => disp'[e] = disp[e]
    /\ disp'[d].step \in S \cup {"idle"}
    /\ disp'[d].step # "idle" => disp'[d].kind = disp[d].kind /\ disp'[d].cmd = disp[d].cmd

\* Going to a step moves one caller only.
LEMMA GoToMoved ==
    ASSUME TypeOK, NEW d \in Dispatchers, Busy(d), NEW s, GoTo(d, s)
    PROVE  Moved(d, {s})
<1>1. disp[d] \in Dispatch
  BY CallerType
<1>2. disp'[d] = [disp[d] EXCEPT !.step = s]
  BY DEF GoTo, TypeOK
<1>3. disp'[d].step = s /\ disp'[d].kind = disp[d].kind /\ disp'[d].cmd = disp[d].cmd
  BY <1>1, <1>2 DEF Dispatch
<1> QED BY <1>3 DEF GoTo, Moved, TypeOK

\* Leaving moves one caller only.
LEMMA LeaveMoved ==
    ASSUME TypeOK, NEW d \in Dispatchers, Leave(d)
    PROVE  Moved(d, {})
BY DEF Leave, Moved, TypeOK, Idle

\* Going on after the send moves one caller only, to the wait or to the close.
LEMMA ProceedMoved ==
    ASSUME TypeOK, NEW d \in Dispatchers, Busy(d), Proceed(d)
    PROVE  /\ Moved(d, {"waiting", "closing"})
           /\ disp'[d].step = "closing" => disp[d].kind = "tx"
<1>1. CASE disp[d].kind = "auto"
  <2>1. GoTo(d, "waiting")
    BY <1>1 DEF Proceed
  <2> QED BY <2>1, GoToMoved DEF Moved
<1>2. CASE disp[d].kind = "tx"
  <2>1. GoTo(d, "closing")
    BY <1>2 DEF Proceed
  <2> QED BY <1>2, <2>1, GoToMoved DEF Moved
<1>3. CASE disp[d].kind \notin {"auto", "tx"}
  <2>1. Leave(d)
    BY <1>3 DEF Proceed
  <2> QED BY <2>1, LeaveMoved DEF Moved
<1> QED BY <1>1, <1>2, <1>3

\* What no step of another actor does to the row of an open transaction.
OwnRowKept == \A c \in Commands :
    ~committed[c] /\ status[c] \in Open => ~committed'[c] /\ status'[c] \in Open

\* A row step that moves no caller keeps the caller invariant.
LEMMA CallersStay ==
    ASSUME TypeOK, CallerInv, \A c \in Commands : RowStep(c), OwnRowKept,
           UNCHANGED disp
    PROVE  CallerInv'
<1>1. \A d \in Dispatchers : Busy(d) => disp[d].cmd \in Commands
  BY CallerType DEF Dispatch
<1> QED BY <1>1 DEF CallerInv, RowStep, OwnRowKept, Busy

\* A row step that moves one caller keeps the caller invariant.
LEMMA CallerMoves ==
    ASSUME TypeOK, CallerInv, \A c \in Commands : RowStep(c), OwnRowKept,
           NEW d \in Dispatchers, Busy(d),
           Moved(d, {"queued", "claimed", "unsent", "waiting", "closing"}),
           disp'[d].step = "closing" => disp[d].kind = "tx"
    PROVE  CallerInv'
<1>1. \A e \in Dispatchers : Busy(e) => disp[e].cmd \in Commands
  BY CallerType DEF Dispatch
<1>2. \A e \in Dispatchers : Busy(e)' =>
          Busy(e) /\ disp'[e].kind = disp[e].kind /\ disp'[e].cmd = disp[e].cmd
  BY DEF Moved, Busy
<1>3. ASSUME NEW e \in Dispatchers, Busy(e)'
      PROVE  /\ status'[disp'[e].cmd] # "absent"
             /\ disp'[e].kind = "tx"
                  => ~committed'[disp'[e].cmd] /\ status'[disp'[e].cmd] \in Open
  BY <1>1, <1>2, <1>3 DEF CallerInv, RowStep, OwnRowKept
<1>4. ASSUME NEW e \in Dispatchers, Busy(e)'
      PROVE  /\ disp'[e].step = "closing" => disp'[e].kind = "tx"
             /\ disp'[e].step = "unconfirmed" => disp'[e].cmd \in StopCommands
  BY <1>2, <1>4 DEF CallerInv, Moved
<1> QED BY <1>2, <1>3, <1>4 DEF CallerInv

\* A new caller inserts its row, or finds that of a stop.
LEMMA CallerEnters ==
    ASSUME TypeOK, CallerInv, \A c \in Commands : RowStep(c), OwnRowKept,
           NEW d \in Dispatchers, NEW c \in Commands, NEW step \in DispatchSteps,
           NEW kind \in Kinds, Enter(d, c, step, kind),
           status'[c] # "absent",
           kind = "tx" => status[c] = "absent" /\ ~committed'[c] /\ status'[c] \in Open,
           step = "closing" => kind = "tx",
           step = "unconfirmed" => c \in StopCommands
    PROVE  CallerInv'
<1>1. \A e \in Dispatchers : Busy(e) => disp[e].cmd \in Commands
  BY CallerType DEF Dispatch
<1>2. /\ disp'[d] = [step |-> step, kind |-> kind, cmd |-> c, claim |-> 0]
      /\ \A e \in Dispatchers : e # d => disp'[e] = disp[e]
  BY DEF Enter, TypeOK
<1>3. ASSUME NEW e \in Dispatchers, e # d, Busy(e)'
      PROVE  /\ Busy(e) /\ status'[disp'[e].cmd] # "absent"
             /\ disp'[e].kind = "tx"
                  => ~committed'[disp'[e].cmd] /\ status'[disp'[e].cmd] \in Open
             /\ disp'[e].step = "closing" => disp'[e].kind = "tx"
             /\ disp'[e].step = "unconfirmed" => disp'[e].cmd \in StopCommands
  BY <1>1, <1>2, <1>3 DEF CallerInv, RowStep, OwnRowKept, Busy
<1>4. ASSUME NEW e \in Dispatchers, e # d, Busy(e)', kind = "tx"
      PROVE  disp'[e].cmd # c
  BY <1>2, <1>3, <1>4 DEF CallerInv, Busy
<1>5. ASSUME NEW e \in Dispatchers, Busy(e)'
      PROVE  /\ status'[disp'[e].cmd] # "absent"
             /\ disp'[e].kind = "tx"
                  => ~committed'[disp'[e].cmd] /\ status'[disp'[e].cmd] \in Open
             /\ disp'[e].step = "closing" => disp'[e].kind = "tx"
             /\ disp'[e].step = "unconfirmed" => disp'[e].cmd \in StopCommands
  BY <1>2, <1>3, <1>5
<1>6. ASSUME NEW e \in Dispatchers, NEW f \in Dispatchers, Busy(e)', Busy(f)',
             disp'[e].kind = "tx", disp'[f].kind = "tx", disp'[e].cmd = disp'[f].cmd
      PROVE  e = f
  BY <1>2, <1>4, <1>6 DEF CallerInv, Busy
<1> QED BY <1>5, <1>6 DEF CallerInv

\* The callers' invariant under their own actions.
LEMMA DispatchingCaller ==
    ASSUME TypeOK, CallerInv, LockInv, NEW d \in Dispatchers, Dispatching(d)
    PROVE  CallerInv'
<1> DEFINE x == disp[d].cmd
<1>0. \A c \in Commands : RowStep(c)
  BY DispatchingRow
<1>1. ASSUME NEW c \in Commands, ExecuteCommand(d, c) PROVE CallerInv'
  <2>1. PICK step \in {"queued", "waiting"} : Enter(d, c, step, "auto")
    BY <1>1 DEF ExecuteCommand
  <2>2. OwnRowKept /\ status'[c] = "pending"
    BY <1>1 DEF ExecuteCommand, Insert, OwnRowKept, TypeOK, Open
  <2> QED BY <1>0, <2>1, <2>2, CallerEnters DEF DispatchSteps, Kinds
<1>2. ASSUME NEW c \in Commands, QueueCommandForExecution(d, c) PROVE CallerInv'
  <2>1. PICK step \in {"queued", "closing"} : Enter(d, c, step, "tx")
    BY <1>2 DEF QueueCommandForExecution
  <2>2. OwnRowKept /\ status[c] = "absent" /\ status'[c] = "pending" /\ ~committed'[c]
    BY <1>2 DEF QueueCommandForExecution, Insert, OwnRowKept, TypeOK, Open
  <2> QED BY <1>0, <2>1, <2>2, CallerEnters DEF DispatchSteps, Kinds, Open
<1>3. ASSUME NEW c \in Commands, EnsureDesktopStreamStopped(d, c) PROVE CallerInv'
  <2>1. Enter(d, c, "unconfirmed", "stop") /\ c \in StopCommands
    BY <1>3 DEF EnsureDesktopStreamStopped
  <2>2. OwnRowKept /\ status'[c] # "absent"
    BY <1>3 DEF EnsureDesktopStreamStopped, Insert, OwnRowKept, TypeOK, Open, rowVars
  <2> QED BY <1>0, <2>1, <2>2, CallerEnters DEF DispatchSteps, Kinds
<1>4. ASSUME RearmIdempotentCommand(d) PROVE CallerInv'
  <2>1. Busy(d)
    BY <1>4 DEF RearmIdempotentCommand, Busy
  <2>2. OwnRowKept
    BY <1>4 DEF RearmIdempotentCommand, OwnRowKept, TypeOK, Open
  <2>3. Moved(d, {"queued"})
    BY <1>4, <2>1, GoToMoved, LeaveMoved DEF RearmIdempotentCommand, Moved
  <2> QED BY <1>0, <2>1, <2>2, <2>3, CallerMoves DEF Moved
<1>5. ASSUME ClaimPendingCommand(d) PROVE CallerInv'
  <2>1. Busy(d)
    BY <1>5 DEF ClaimPendingCommand, Busy
  <2>2. OwnRowKept
    BY <1>5 DEF ClaimPendingCommand, MarkSent, OwnRowKept, TypeOK, Open
  <2>3. CASE status[x] = "pending"
    <3>1. Moved(d, {"claimed"})
      BY <1>5, <2>3 DEF ClaimPendingCommand, Moved, TypeOK
    <3> QED BY <1>0, <2>1, <2>2, <3>1, CallerMoves DEF Moved
  <2>4. CASE status[x] # "pending"
    <3>1. Proceed(d)
      BY <1>5, <2>4 DEF ClaimPendingCommand
    <3> QED BY <1>0, <2>1, <2>2, <3>1, ProceedMoved, CallerMoves DEF Moved
  <2> QED BY <2>3, <2>4
<1>6. ASSUME SendCommandToAgent(d) PROVE CallerInv'
  <2>1. Busy(d) /\ Proceed(d) /\ OwnRowKept
    BY <1>6 DEF SendCommandToAgent, Busy, OwnRowKept, rowVars
  <2> QED BY <1>0, <2>1, ProceedMoved, CallerMoves DEF Moved
<1>7. ASSUME SendFails(d) PROVE CallerInv'
  <2>1. Busy(d) /\ GoTo(d, "unsent") /\ OwnRowKept
    BY <1>7 DEF SendFails, Busy, OwnRowKept, rowVars
  <2> QED BY <1>0, <2>1, GoToMoved, CallerMoves DEF Moved
<1>8. ASSUME ReleaseClaimedCommand(d) PROVE CallerInv'
  <2>1. Busy(d)
    BY <1>8 DEF ReleaseClaimedCommand, Busy
  <2>2. OwnRowKept
    BY <1>8 DEF ReleaseClaimedCommand, PutBack, OwnRowKept, TypeOK, Open
  <2>3. CASE Proceed(d)
    BY <1>0, <2>1, <2>2, <2>3, ProceedMoved, CallerMoves DEF Moved
  <2>4. CASE Leave(d)
    BY <1>0, <2>1, <2>2, <2>4, LeaveMoved, CallerMoves DEF Moved
  <2> QED BY <1>8, <2>3, <2>4 DEF ReleaseClaimedCommand
<1>9. ASSUME WaitForCommandResult(d) PROVE CallerInv'
  <2>1. Busy(d) /\ Leave(d)
    BY <1>9 DEF WaitForCommandResult, Busy
  <2>2. OwnRowKept
    BY <1>9 DEF WaitForCommandResult, Writable, Close, OwnRowKept, TypeOK, rowVars
  <2> QED BY <1>0, <2>1, <2>2, LeaveMoved, CallerMoves DEF Moved
<1>10. ASSUME CommitDispatch(d) \/ QueueBackupStopCommand(d) \/ AbortDispatch(d)
       PROVE  CallerInv'
  <2>1. Busy(d) /\ Leave(d)
    BY <1>10 DEF CommitDispatch, QueueBackupStopCommand, AbortDispatch, Busy, TypeOK, Idle,
                 Dispatch, DispatchSteps
  <2>2. /\ \A e \in Dispatchers : Busy(e)' => e # d /\ Busy(e) /\ disp'[e] = disp[e]
    BY <2>1, LeaveMoved DEF Moved, Busy, Leave, Idle, TypeOK
  <2>3. disp[d].kind # "tx" => UNCHANGED <<status, committed>>
    BY <1>10, <2>1 DEF CommitDispatch, QueueBackupStopCommand, AbortDispatch, CallerInv
  <2>6. \A c \in Commands : c # x => committed'[c] = committed[c] /\ status'[c] = status[c]
    BY <1>10 DEF CommitDispatch, QueueBackupStopCommand, AbortDispatch, Close, TypeOK
  <2>4. ASSUME NEW e \in Dispatchers, Busy(e)', disp[e].kind = "tx"
        PROVE  ~committed'[disp[e].cmd] /\ status'[disp[e].cmd] \in Open
    <3>1. disp[e].cmd \in Commands
      BY <2>2, <2>4, CallerType DEF Dispatch
    <3>2. disp[d].kind = "tx" => disp[e].cmd # x
      BY <2>1, <2>2, <2>4 DEF CallerInv
    <3>3. ~committed[disp[e].cmd] /\ status[disp[e].cmd] \in Open
      BY <2>2, <2>4 DEF CallerInv
    <3> QED BY <2>3, <2>6, <3>1, <3>2, <3>3
  <2>5. ASSUME NEW e \in Dispatchers, Busy(e)' PROVE status'[disp[e].cmd] # "absent"
    BY <1>0, <2>2, <2>5, CallerType DEF CallerInv, RowStep, Dispatch
  <2> QED BY <2>2, <2>4, <2>5 DEF CallerInv
<1> QED BY <1>1, <1>2, <1>3, <1>4, <1>5, <1>6, <1>7, <1>8, <1>9, <1>10 DEF Dispatching

\* The callers' invariant under every action.
LEMMA CallerInductive ==
    ASSUME TypeOK, CallerInv, LockInv, ResultInv, [Next]_vars
    PROVE  CallerInv'
<1>0. \A c \in Commands : RowStep(c)
  BY RowSteps
<1>1. ASSUME NEW c \in Commands, QueueCommand(c) PROVE CallerInv'
  <2>1. OwnRowKept /\ UNCHANGED disp
    BY <1>1 DEF QueueCommand, Insert, OwnRowKept, TypeOK, Open
  <2> QED BY <1>0, <2>1, CallersStay
<1>2. ASSUME NEW c \in Commands, AgentExecutes(c) \/ Restoring(c) \/ Passing(c)
      PROVE  CallerInv'
  <2>1. OwnRowKept /\ UNCHANGED disp
    BY <1>2 DEF AgentExecutes, Passing, PassCreated, PassSent, Restoring, LinkRestoreJob,
                CancelRestoreJob, OwnRowKept, rowVars
  <2> QED BY <1>0, <2>1, CallersStay
<1>3. ASSUME NEW c \in Commands, Withdrawing(c) PROVE CallerInv'
  <2>1. committed[c]
    BY <1>3 DEF Withdrawing, CancelQueued, DeleteQueued, CancelForTenant,
                TimeOutVerification, Undelivered, Writable
  <2>2. PICK to, why : Close(c, to, why)
    BY <1>3 DEF Withdrawing, CancelQueued, DeleteQueued, CancelForTenant,
                TimeOutVerification
  <2>3. OwnRowKept
    BY <2>1, <2>2 DEF Close, OwnRowKept, TypeOK
  <2>4. UNCHANGED disp
    BY <1>3 DEF Withdrawing, CancelQueued, DeleteQueued, CancelForTenant,
                TimeOutVerification
  <2> QED BY <1>0, <2>3, <2>4, CallersStay
<1>4. ASSUME NEW p \in Polls, Polling(p) PROVE CallerInv'
  <2>1. UNCHANGED disp /\ UNCHANGED committed
    BY <1>4 DEF Polling, HeartbeatClaim, HeartbeatCommit, PollClaim, PollRelease,
                PollAnswer, AbortPoll, rowVars
  <2>2. \A c \in Commands : status'[c] \in {status[c]} \cup Open
    BY <1>4 DEF Polling, HeartbeatClaim, HeartbeatCommit, PollClaim, PollRelease,
                PollAnswer, AbortPoll, rowVars, MarkSent, PutBack, Open
  <2>3. OwnRowKept
    BY <2>1, <2>2 DEF OwnRowKept
  <2> QED BY <1>0, <2>1, <2>3, CallersStay
<1>5. ASSUME NEW r \in Results, Answering(r) PROVE CallerInv'
  <2>1. UNCHANGED disp
    BY <1>5 DEF Answering, ReadResult, RecordResult, HandleResult, DropResult
  <2>2. CASE UNCHANGED rowVars
    BY <1>0, <2>1, <2>2, CallersStay DEF OwnRowKept, rowVars
  <2>3. CASE RecordResult(r) /\ Accepted(res[r].cmd)
    <3>1. PICK to, why : Close(res[r].cmd, to, why)
      BY <2>3 DEF RecordResult
    <3>2. committed[res[r].cmd]
      BY <2>3 DEF RecordResult, ResultInv, SlotOK
    <3>3. OwnRowKept
      BY <3>1, <3>2 DEF Close, OwnRowKept, TypeOK
    <3> QED BY <1>0, <2>1, <3>3, CallersStay
  <2> QED BY <1>5, <2>2, <2>3 DEF Answering, ReadResult, RecordResult, HandleResult, DropResult
<1>6. ASSUME Reaping PROVE CallerInv'
  <2>1. UNCHANGED disp
    BY <1>6 DEF Reaping, ReapScan, ReapOne, ReapCommit, ReapAbort
  <2>2. CASE UNCHANGED rowVars
    BY <1>0, <2>1, <2>2, CallersStay DEF OwnRowKept, rowVars
  <2>3. CASE ReapCommit
    <3>1. \A c \in Commands : ~committed[c] => status'[c] = status[c] /\ ~committed'[c]
      BY <2>3 DEF ReapCommit, LockInv, TypeOK
    <3> QED BY <1>0, <2>1, <3>1, CallersStay DEF OwnRowKept
  <2> QED BY <1>6, <2>2, <2>3 DEF Reaping, ReapScan, ReapOne, ReapAbort
<1>7. CASE UNCHANGED vars
  BY <1>0, <1>7, CallersStay DEF OwnRowKept, vars, rowVars
<1> QED BY <1>1, <1>2, <1>3, <1>4, <1>5, <1>6, <1>7, DispatchingCaller DEF Next

-----------------------------------------------------------------------------
(* Row locks.                                                              *)

\* Locked rows are not written while the locks stay as they are.
LEMMA LocksStay ==
    ASSUME TypeOK, LockInv, \A c \in Commands : RowStep(c), UNCHANGED <<poll, reaped, seen>>,
           \A c \in Commands : Locked(c) => status'[c] = status[c]
    PROVE  LockInv'
<1>1. \A p \in Polls, c \in Commands : Locks(p, c) => Locked(c)
  BY DEF Locks, Locked
<1>2. \A c \in Commands : reaped[c] # "no" => Locked(c)
  BY DEF Locked
<1> QED BY <1>1, <1>2 DEF LockInv, RowStep, Locks

\* The rows of open transactions are not locked by others.
LEMMA OwnRowUnlocked ==
    ASSUME TypeOK, CallerInv, LockInv, NEW d \in Dispatchers, Busy(d), disp[d].kind = "tx"
    PROVE  ~Locked(disp[d].cmd)
<1>1. disp[d].cmd \in Commands /\ ~committed[disp[d].cmd]
  BY CallerType DEF CallerInv, Dispatch
<1> QED BY <1>1 DEF LockInv, Locks, Locked

\* A caller's step respects the row locks of the others.
LEMMA DispatchingLock ==
    ASSUME TypeOK, CallerInv, LockInv, NEW d \in Dispatchers, Dispatching(d)
    PROVE  LockInv'
<1> DEFINE x == disp[d].cmd
<1>1. \A c \in Commands : RowStep(c)
  BY DispatchingRow
<1>2. UNCHANGED <<poll, reaped, seen>>
  BY DEF Dispatching, ExecuteCommand, QueueCommandForExecution, EnsureDesktopStreamStopped,
         Enter, RearmIdempotentCommand, ClaimPendingCommand, SendCommandToAgent, SendFails,
         ReleaseClaimedCommand, WaitForCommandResult, CommitDispatch,
         QueueBackupStopCommand, AbortDispatch, reaperVars
<1>3. \A c \in Commands : status[c] = "absent" => ~Locked(c)
  BY DEF LockInv, Locks, Locked, Open
<1>4. ASSUME NEW c \in Commands, Locked(c) PROVE status'[c] = status[c]
  <2>1. ASSUME NEW y \in Commands,
               ExecuteCommand(d, y) \/ QueueCommandForExecution(d, y)
                 \/ EnsureDesktopStreamStopped(d, y)
        PROVE  status'[c] = status[c]
    BY <1>3, <1>4, <2>1 DEF ExecuteCommand, QueueCommandForExecution,
       EnsureDesktopStreamStopped, Insert, TypeOK, rowVars
  <2>2. ASSUME RearmIdempotentCommand(d) PROVE status'[c] = status[c]
    BY <1>4, <2>2 DEF RearmIdempotentCommand, TypeOK
  <2>3. ASSUME ClaimPendingCommand(d) PROVE status'[c] = status[c]
    BY <1>4, <2>3 DEF ClaimPendingCommand, MarkSent, TypeOK
  <2>4. ASSUME ReleaseClaimedCommand(d) PROVE status'[c] = status[c]
    BY <1>4, <2>4 DEF ReleaseClaimedCommand, PutBack, TypeOK
  <2>5. ASSUME WaitForCommandResult(d) PROVE status'[c] = status[c]
    BY <1>4, <2>5 DEF WaitForCommandResult, Writable, Close, TypeOK, rowVars
  <2>6. ASSUME QueueBackupStopCommand(d) \/ AbortDispatch(d) PROVE status'[c] = status[c]
    <3>1. Busy(d)
      BY <2>6 DEF QueueBackupStopCommand, AbortDispatch, Busy, TypeOK, Idle, Dispatch,
                  DispatchSteps
    <3>2. CASE disp[d].kind = "tx"
      <4>1. c # x
        BY <1>4, <3>1, <3>2, OwnRowUnlocked
      <4> QED BY <2>6, <4>1 DEF QueueBackupStopCommand, AbortDispatch, Close, TypeOK
    <3>3. CASE disp[d].kind # "tx"
      BY <2>6, <3>1, <3>3 DEF QueueBackupStopCommand, AbortDispatch, CallerInv
    <3> QED BY <3>2, <3>3
  <2>7. ASSUME SendCommandToAgent(d) \/ SendFails(d) \/ CommitDispatch(d)
        PROVE  status'[c] = status[c]
    BY <2>7 DEF SendCommandToAgent, SendFails, CommitDispatch, rowVars
  <2> QED BY <2>1, <2>2, <2>3, <2>4, <2>5, <2>6, <2>7 DEF Dispatching
<1> QED BY <1>1, <1>2, <1>4, LocksStay

\* A poll's step takes only free rows and writes only those it holds.
LEMMA PollingLock ==
    ASSUME TypeOK, LockInv, NEW p \in Polls, Polling(p)
    PROVE  LockInv'
<1>0. \A c \in Commands : RowStep(c)
  BY PollingRow
<1>1. ASSUME HeartbeatClaim(p) PROVE LockInv'
  <2>1. PICK S \in Batches :
          poll' = [poll EXCEPT ![p] = [step |-> "locked", cmds |-> S, claim |-> claims]]
    BY <1>1 DEF HeartbeatClaim
  <2>2. \A c \in S : c \in Commands /\ committed[c] /\ status[c] = "pending" /\ ~Locked(c)
    BY DEF Batches, Claimable, Writable
  <2>3. /\ poll'[p].step = "locked" /\ poll'[p].cmds = S
        /\ \A q \in Polls : q # p => poll'[q] = poll[q]
    BY <2>1 DEF TypeOK
  <2>4. UNCHANGED <<status, committed, reaped, seen>>
    BY <1>1 DEF HeartbeatClaim, rowVars, reaperVars
  <2>5. \A c \in Commands, q \in Polls :
          Locks(q, c)' => (q = p /\ c \in S) \/ (q # p /\ Locks(q, c))
    BY <2>3 DEF Locks
  <2>6. \A c \in S, q \in Polls : ~Locks(q, c) /\ reaped[c] = "no"
    BY <2>2 DEF Locks, Locked
  <2> QED BY <2>2, <2>4, <2>5, <2>6 DEF LockInv
<1>2. ASSUME HeartbeatCommit(p) PROVE LockInv'
  <2>1. PICK good \in SUBSET poll[p].cmds :
          MarkSent(good) /\ poll' = [poll EXCEPT ![p] = Answer(good, claims')]
    BY <1>2 DEF HeartbeatCommit
  <2>2. \A c \in Commands, q \in Polls : Locks(q, c)' => q # p /\ Locks(q, c)
    BY <2>1 DEF Locks, Answer, TypeOK
  <2>3. \A c \in Commands : c \in good => Locks(p, c)
    BY <1>2, <2>1 DEF HeartbeatCommit, Locks
  <2>4. UNCHANGED <<committed, reaped, seen>>
    BY <1>2 DEF HeartbeatCommit, reaperVars
  <2>5. \A c \in Commands : status'[c] = IF c \in good THEN "sent" ELSE status[c]
    BY <2>1 DEF MarkSent
  <2> QED BY <2>2, <2>3, <2>4, <2>5 DEF LockInv, Open
<1>3. ASSUME PollClaim(p) PROVE LockInv'
  <2>1. PICK S \in Batches :
          /\ MarkSent(S)
          /\ poll' = [poll EXCEPT ![p] =
                         [step |-> "claimed", cmds |-> S, claim |-> claims']]
    BY <1>3 DEF PollClaim
  <2>2. \A c \in S : c \in Commands /\ status[c] = "pending" /\ ~Locked(c)
    BY DEF Batches, Claimable, Writable
  <2>3. \A c \in Commands, q \in Polls : Locks(q, c)' => Locks(q, c) /\ c \notin S
    BY <2>1, <2>2 DEF Locks, Locked, TypeOK
  <2>4. UNCHANGED <<committed, reaped, seen>>
    BY <1>3 DEF PollClaim, reaperVars
  <2>5. \A c \in Commands : status'[c] = IF c \in S THEN "sent" ELSE status[c]
    BY <2>1 DEF MarkSent
  <2> QED BY <2>2, <2>3, <2>4, <2>5 DEF LockInv, Open
<1>4. ASSUME PollRelease(p) PROVE LockInv'
  <2>1. PICK bad, back :
          /\ \A c \in back : ~Locked(c)
          /\ PutBack({c \in back : Releasable(c, poll[p].claim[c])})
          /\ poll' = [poll EXCEPT ![p] = Answer(poll[p].cmds \ bad, poll[p].claim)]
    BY <1>4 DEF PollRelease
  <2>2. \A c \in Commands, q \in Polls : Locks(q, c)' => Locks(q, c)
    BY <2>1 DEF Locks, Answer, TypeOK
  <2>3. \A c \in Commands : Locked(c) => status'[c] = status[c]
    BY <2>1 DEF PutBack
  <2>4. UNCHANGED <<committed, reaped, seen>>
    BY <1>4 DEF PollRelease, reaperVars
  <2>5. \A c \in Commands : status'[c] = "absent" => status[c] = "absent"
    BY <1>0 DEF RowStep
  <2> QED BY <2>2, <2>3, <2>4, <2>5 DEF LockInv, Locks, Locked
<1>5. ASSUME PollAnswer(p) \/ AbortPoll(p) PROVE LockInv'
  <2>1. \A c \in Commands, q \in Polls : Locks(q, c)' => Locks(q, c)
    BY <1>5 DEF PollAnswer, AbortPoll, Locks, Idle, TypeOK
  <2>2. UNCHANGED <<status, committed, reaped, seen>>
    BY <1>5 DEF PollAnswer, AbortPoll, rowVars, reaperVars
  <2> QED BY <2>1, <2>2 DEF LockInv
<1> QED BY <1>1, <1>2, <1>3, <1>4, <1>5 DEF Polling

\* Locks under every action.
LEMMA LockInductive ==
    ASSUME TypeOK, CallerInv, LockInv, [Next]_vars
    PROVE  LockInv'
<1>0. \A c \in Commands : RowStep(c)
  BY RowSteps
<1>1. ASSUME NEW x \in Commands, QueueCommand(x) PROVE LockInv'
  <2>1. ~Locked(x)
    BY <1>1 DEF QueueCommand, Insert, LockInv, Locks, Locked, Open
  <2> QED BY <1>0, <1>1, <2>1, LocksStay DEF QueueCommand, Insert, TypeOK, reaperVars
<1>2. ASSUME NEW x \in Commands, AgentExecutes(x) \/ Restoring(x) \/ Passing(x)
      PROVE  LockInv'
  BY <1>0, <1>2, LocksStay
  DEF AgentExecutes, Passing, PassCreated, PassSent, Restoring, LinkRestoreJob,
      CancelRestoreJob, rowVars, reaperVars
<1>3. ASSUME NEW x \in Commands, Withdrawing(x) PROVE LockInv'
  <2>1. ~Locked(x)
    BY <1>3 DEF Withdrawing, CancelQueued, DeleteQueued, CancelForTenant,
                TimeOutVerification, Undelivered, Writable
  <2>2. PICK to, why : Close(x, to, why)
    BY <1>3 DEF Withdrawing, CancelQueued, DeleteQueued, CancelForTenant,
                TimeOutVerification
  <2>3. UNCHANGED <<poll, reaped, seen>>
    BY <1>3 DEF Withdrawing, CancelQueued, DeleteQueued, CancelForTenant,
                TimeOutVerification, reaperVars
  <2> QED BY <1>0, <2>1, <2>2, <2>3, LocksStay DEF Close, TypeOK
<1>4. ASSUME NEW r \in Results, Answering(r) PROVE LockInv'
  <2>1. UNCHANGED <<poll, reaped, seen>>
    BY <1>4 DEF Answering, ReadResult, RecordResult, HandleResult, DropResult, reaperVars
  <2>2. \A c \in Commands : Locked(c) => status'[c] = status[c]
    BY <1>4 DEF Answering, ReadResult, RecordResult, HandleResult, DropResult, rowVars,
                Close, TypeOK
  <2> QED BY <1>0, <2>1, <2>2, LocksStay
<1>5. ASSUME ReapScan PROVE LockInv'
  BY <1>5 DEF ReapScan, Stale, LockInv, Locks, TypeOK, rowVars
<1>6. ASSUME NEW x \in Commands, ReapOne(x) PROVE LockInv'
  <2>1. \A p \in Polls : ~Locks(p, x)
    BY <1>6 DEF ReapOne, Locked, Locks
  <2> QED BY <1>6, <2>1 DEF ReapOne, LockInv, Locks, TypeOK, rowVars
<1>7. ASSUME ReapCommit PROVE LockInv'
  <2>1. \A c \in Commands : reaped[c] = "no" => status'[c] = status[c]
    BY <1>7 DEF ReapCommit
  <2>2. \A c \in Commands : reaped'[c] = "no"
    BY <1>7 DEF ReapCommit
  <2>3. UNCHANGED <<committed, poll, seen>>
    BY <1>7 DEF ReapCommit
  <2> QED BY <1>0, <2>1, <2>2, <2>3 DEF LockInv, Locks, RowStep
<1>8. ASSUME ReapAbort PROVE LockInv'
  BY <1>8 DEF ReapAbort, LockInv, Locks, rowVars
<1>9. CASE UNCHANGED vars
  BY <1>0, <1>9, LocksStay DEF vars, rowVars, reaperVars
<1> QED BY <1>1, <1>2, <1>3, <1>4, <1>5, <1>6, <1>7, <1>8, <1>9, DispatchingLock, PollingLock
        DEF Next, Reaping

-----------------------------------------------------------------------------
(* Claims and deliveries.                                                  *)

\* An open row has no outcome after a row step.
LEMMA OutcomeStep ==
    ASSUME NEW c \in Once, RowStep(c), HolderOf(c)
    PROVE  status'[c] \notin Settled => outcome'[c] = "none"
BY DEF RowStep, HolderOf

\* Nobody claims the row, and nobody hands it over.
LEMMA HoldersShrink ==
    ASSUME NEW c \in Once, RowStep(c), HolderOf(c), offered'[c] = offered[c],
           \A d \in Dispatchers : Holds(d, c)' => Holds(d, c),
           \A p \in Polls : Carries(p, c)' => Carries(p, c),
           Untouched(c)' => Untouched(c) \/ (~Held(c)' /\ offered[c] = {})
    PROVE  HolderOf(c)'
<1>1. Held(c)' => Held(c)
  BY DEF Held
<1> QED BY <1>1, OutcomeStep DEF HolderOf

\* A pending row gets its one holder.
LEMMA NewHolder ==
    ASSUME TypeOK, NEW c \in Once, RowStep(c), HolderOf(c), offered'[c] = offered[c],
           status[c] = "pending", status'[c] = "sent", outcome'[c] = outcome[c],
           \A d, e \in Dispatchers : Holds(d, c)' /\ Holds(e, c)' => d = e,
           \A p, q \in Polls : Carries(p, c)' /\ Carries(q, c)' => p = q,
           \A d \in Dispatchers, p \in Polls : ~(Holds(d, c)' /\ Carries(p, c)')
    PROVE  HolderOf(c)'
<1>1. offered[c] = {} /\ outcome[c] = "none"
  BY DEF HolderOf, Untouched, Settled
<1>2. ~Untouched(c)'
  BY <1>1 DEF Untouched
<1> QED BY <1>1, <1>2, OutcomeStep DEF HolderOf

\* The holder hands the row over.
LEMMA HandedOver ==
    ASSUME NEW c \in Once, HolderOf(c), NEW claim, offered'[c] = offered[c] \cup {claim},
           Held(c), ~Held(c)', UNCHANGED <<status, outcome>>
    PROVE  HolderOf(c)'
<1>1. ~Untouched(c)' /\ offered'[c] = {claim}
  BY DEF HolderOf, Untouched
<1>2. \A d \in Dispatchers : ~Holds(d, c)'
  BY DEF Held
<1>3. \A p \in Polls : ~Carries(p, c)'
  BY DEF Held
<1> QED BY <1>1, <1>2, <1>3 DEF HolderOf

\* A row is closed: as withdrawn only if it was pending.
LEMMA CloseUntouched ==
    ASSUME TypeOK, NEW x \in Commands, NEW to \in Settled, NEW why, Close(x, to, why),
           status[x] = "pending" \/ (to # "deleted" /\ why # "cancelled_undelivered"),
           NEW c \in Commands
    PROVE  Untouched(c)' => Untouched(c)
BY DEF TypeOK, Close, Untouched, Settled

\* A caller's step leaves at most one holder of a row's undelivered claim.
LEMMA DispatchingHolder ==
    ASSUME TypeOK, CallerInv, LockInv, NEW c \in Once, HolderOf(c),
           NEW d \in Dispatchers, Dispatching(d)
    PROVE  HolderOf(c)'
<1> DEFINE x == disp[d].cmd
<1>0. c \in Commands /\ c \notin StopCommands /\ RowStep(c)
  BY DispatchingRow DEF Once
<1>1. ASSUME NEW y \in Commands, NEW step \in {"unconfirmed", "queued", "waiting", "closing"},
             NEW kind, Enter(d, y, step, kind)
      PROVE  /\ \A e \in Dispatchers : Holds(e, c)' => Holds(e, c)
             /\ \A p \in Polls : Carries(p, c)' => Carries(p, c)
             /\ offered'[c] = offered[c]
  BY <1>1 DEF Enter, Holds, Carries, TypeOK
<1>2. ASSUME NEW y \in Commands, NEW visible, Insert(y, visible)
      PROVE  Untouched(c)' => Untouched(c)
  BY <1>0, <1>2 DEF Insert, Untouched, TypeOK
<1>3. ASSUME NEW y \in Commands, ExecuteCommand(d, y) PROVE HolderOf(c)'
  <2>1. PICK step \in {"queued", "waiting"} : Enter(d, y, step, "auto")
    BY <1>3 DEF ExecuteCommand
  <2> QED BY <1>0, <1>1, <1>2, <1>3, <2>1, HoldersShrink DEF ExecuteCommand
<1>4. ASSUME NEW y \in Commands, QueueCommandForExecution(d, y) PROVE HolderOf(c)'
  <2>1. PICK step \in {"queued", "closing"} : Enter(d, y, step, "tx")
    BY <1>4 DEF QueueCommandForExecution
  <2> QED BY <1>0, <1>1, <1>2, <1>4, <2>1, HoldersShrink DEF QueueCommandForExecution
<1>5. ASSUME NEW y \in Commands, EnsureDesktopStreamStopped(d, y) PROVE HolderOf(c)'
  <2>1. Enter(d, y, "unconfirmed", "stop")
    BY <1>5 DEF EnsureDesktopStreamStopped
  <2>2. Untouched(c)' => Untouched(c)
    BY <1>2, <1>5 DEF EnsureDesktopStreamStopped, Untouched, rowVars
  <2> QED BY <1>0, <1>1, <2>1, <2>2, HoldersShrink
<1>6. ASSUME NEW S, S \cap {"claimed", "unsent"} = {}, Moved(d, S), UNCHANGED poll
      PROVE  /\ \A e \in Dispatchers : Holds(e, c)' => e # d /\ Holds(e, c)
             /\ \A p \in Polls : Carries(p, c)' => Carries(p, c)
  BY <1>6 DEF Moved, Holds, Carries
<1>7. ASSUME RearmIdempotentCommand(d) PROVE HolderOf(c)'
  <2>1. Busy(d)
    BY <1>7 DEF RearmIdempotentCommand, Busy
  <2>2. x \in StopCommands
    BY <1>7, <2>1 DEF RearmIdempotentCommand, CallerInv
  <2>3. Moved(d, {"queued"})
    BY <1>7, <2>1, GoToMoved, LeaveMoved DEF RearmIdempotentCommand, Moved
  <2>4. status'[c] = status[c] /\ outcome'[c] = outcome[c]
    BY <1>0, <1>7, <2>2 DEF RearmIdempotentCommand, TypeOK
  <2>5. Untouched(c)' => Untouched(c)
    BY <2>4 DEF Untouched
  <2>6. UNCHANGED <<poll, offered>>
    BY <1>7 DEF RearmIdempotentCommand
  <2>7. {"queued"} \cap {"claimed", "unsent"} = {}
    OBVIOUS
  <2> QED BY <1>0, <1>6, <2>3, <2>5, <2>6, <2>7, HoldersShrink
<1>8. ASSUME ClaimPendingCommand(d) PROVE HolderOf(c)'
  <2>1. Busy(d) /\ UNCHANGED <<poll, offered, outcome>>
    BY <1>8 DEF ClaimPendingCommand, Busy
  <2>2. CASE status[x] = "pending" /\ c = x
    <3>1. status'[c] = "sent"
      BY <1>0, <1>8, <2>2 DEF ClaimPendingCommand, MarkSent
    <3>2. \A e \in Dispatchers : Holds(e, c)' => e = d
      <4>1. \A e \in Dispatchers : ~Holds(e, c)
        BY <2>2 DEF HolderOf, Untouched, Held
      <4> QED BY <1>8, <2>2, <4>1 DEF ClaimPendingCommand, Holds, TypeOK
    <3>3. \A p \in Polls : ~Carries(p, c)'
      <4>1. \A p \in Polls : ~Carries(p, c)
        BY <2>2 DEF HolderOf, Untouched, Held
      <4> QED BY <2>1, <4>1 DEF Carries
    <3> QED BY <1>0, <2>1, <2>2, <3>1, <3>2, <3>3, NewHolder
  <2>3. CASE status[x] = "pending" /\ c # x
    <3>1. status'[c] = status[c]
      BY <1>0, <1>8, <2>3 DEF ClaimPendingCommand, MarkSent
    <3>2. \A e \in Dispatchers : Holds(e, c)' => Holds(e, c)
      BY <1>8, <2>3 DEF ClaimPendingCommand, Holds, TypeOK
    <3>3. \A p \in Polls : Carries(p, c)' => Carries(p, c)
      BY <2>1 DEF Carries
    <3>4. Untouched(c)' => Untouched(c)
      BY <2>1, <3>1 DEF Untouched
    <3> QED BY <1>0, <2>1, <3>2, <3>3, <3>4, HoldersShrink
  <2>4. CASE status[x] # "pending"
    <3>1. Proceed(d) /\ UNCHANGED status
      BY <1>8, <2>4 DEF ClaimPendingCommand
    <3>2. Moved(d, {"waiting", "closing"})
      BY <2>1, <3>1, ProceedMoved
    <3>3. Untouched(c)' => Untouched(c)
      BY <2>1, <3>1 DEF Untouched
    <3>4. {"waiting", "closing"} \cap {"claimed", "unsent"} = {}
      OBVIOUS
    <3> QED BY <1>0, <1>6, <2>1, <3>2, <3>3, <3>4, HoldersShrink
  <2> QED BY <2>2, <2>3, <2>4
<1>9. ASSUME SendCommandToAgent(d) PROVE HolderOf(c)'
  <2>1. Busy(d) /\ Proceed(d) /\ UNCHANGED <<poll, status, outcome>>
    BY <1>9 DEF SendCommandToAgent, Busy, rowVars
  <2>2. Moved(d, {"waiting", "closing"})
    BY <2>1, ProceedMoved
  <2>3. {"waiting", "closing"} \cap {"claimed", "unsent"} = {}
    OBVIOUS
  <2>4. CASE c = x
    <3>1. Holds(d, c) /\ offered'[c] = offered[c] \cup {disp[d].claim}
      BY <1>0, <1>9, <2>4 DEF SendCommandToAgent, Holds, TypeOK
    <3>2. ~Held(c)'
      <4>1. \A e \in Dispatchers : ~Holds(e, c)'
        BY <1>6, <2>1, <2>2, <2>3, <3>1 DEF HolderOf
      <4>2. \A p \in Polls : ~Carries(p, c)'
        BY <1>6, <2>1, <2>2, <2>3, <3>1 DEF HolderOf
      <4> QED BY <4>1, <4>2 DEF Held
    <3>3. Held(c)
      BY <3>1 DEF Held
    <3> QED BY <2>1, <3>1, <3>2, <3>3, HandedOver
  <2>5. CASE c # x
    <3>1. offered'[c] = offered[c]
      BY <1>0, <1>9, <2>5 DEF SendCommandToAgent, TypeOK
    <3>2. Untouched(c)' => Untouched(c)
      BY <2>1 DEF Untouched
    <3> QED BY <1>0, <1>6, <2>1, <2>2, <2>3, <3>1, <3>2, HoldersShrink
  <2> QED BY <2>4, <2>5
<1>10. ASSUME SendFails(d) PROVE HolderOf(c)'
  <2>1. Busy(d) /\ GoTo(d, "unsent") /\ UNCHANGED <<poll, status, outcome, offered>>
    BY <1>10 DEF SendFails, Busy, rowVars
  <2>2. Moved(d, {"unsent"})
    BY <2>1, GoToMoved
  <2>3. \A e \in Dispatchers : Holds(e, c)' => Holds(e, c)
    BY <1>10, <2>2 DEF SendFails, Moved, Holds
  <2>4. \A p \in Polls : Carries(p, c)' => Carries(p, c)
    BY <2>1 DEF Carries
  <2>5. Untouched(c)' => Untouched(c)
    BY <2>1 DEF Untouched
  <2> QED BY <1>0, <2>1, <2>3, <2>4, <2>5, HoldersShrink
<1>11. ASSUME ReleaseClaimedCommand(d) PROVE HolderOf(c)'
  <2>1. Busy(d) /\ UNCHANGED <<poll, outcome, offered>>
    BY <1>11 DEF ReleaseClaimedCommand, Busy
  <2>2. Moved(d, {"waiting", "closing"})
    BY <1>11, <2>1, ProceedMoved, LeaveMoved DEF ReleaseClaimedCommand, Moved
  <2>3. {"waiting", "closing"} \cap {"claimed", "unsent"} = {}
    OBVIOUS
  <2>4. /\ \A e \in Dispatchers : Holds(e, c)' => e # d /\ Holds(e, c)
        /\ \A p \in Polls : Carries(p, c)' => Carries(p, c)
    BY <1>6, <2>1, <2>2, <2>3
  <2>5. CASE c = x
    <3>1. Holds(d, c)
      BY <1>11, <2>5 DEF ReleaseClaimedCommand, Holds
    <3>2. offered[c] = {}
      BY <3>1 DEF HolderOf, Held
    <3>3. ~Held(c)'
      BY <2>4, <3>1 DEF HolderOf, Held
    <3> QED BY <1>0, <2>1, <2>4, <3>2, <3>3, HoldersShrink
  <2>6. CASE c # x
    <3>1. status'[c] = status[c]
      BY <1>0, <1>11, <2>6 DEF ReleaseClaimedCommand, PutBack
    <3>2. Untouched(c)' => Untouched(c)
      BY <2>1, <3>1 DEF Untouched
    <3> QED BY <1>0, <2>1, <2>4, <3>2, HoldersShrink
  <2> QED BY <2>5, <2>6
<1>12. ASSUME WaitForCommandResult(d) \/ CommitDispatch(d) \/ QueueBackupStopCommand(d)
                \/ AbortDispatch(d)
       PROVE  HolderOf(c)'
  <2>1. Leave(d) /\ UNCHANGED <<poll, offered>>
    BY <1>12 DEF WaitForCommandResult, CommitDispatch, QueueBackupStopCommand, AbortDispatch
  <2>2. Moved(d, {})
    BY <2>1, LeaveMoved
  <2>3. CASE WaitForCommandResult(d) \/ QueueBackupStopCommand(d)
    <3>1. x \in Commands
      BY <2>3, CallerType DEF WaitForCommandResult, QueueBackupStopCommand, Busy, Dispatch
    <3>2. UNCHANGED rowVars => (Untouched(c)' => Untouched(c))
      BY DEF Untouched, rowVars
    <3>3. Close(x, "failed", "timeout") => (Untouched(c)' => Untouched(c))
      BY <1>0, <3>1, CloseUntouched DEF Settled
    <3>4. Close(x, "deleted", "none") /\ status[x] = "pending"
            => (Untouched(c)' => Untouched(c))
      BY <1>0, <3>1, CloseUntouched DEF Settled
    <3>5. Untouched(c)' => Untouched(c)
      BY <2>3, <3>2, <3>3, <3>4 DEF WaitForCommandResult, QueueBackupStopCommand
    <3> QED BY <1>0, <1>6, <2>1, <2>2, <3>5, HoldersShrink
  <2>4. CASE CommitDispatch(d) \/ AbortDispatch(d)
    <3>1. status'[c] \in {status[c], "rolled_back"} /\ outcome'[c] = outcome[c]
      BY <1>0, <2>4 DEF CommitDispatch, AbortDispatch, TypeOK
    <3>2. Untouched(c)' => Untouched(c)
      BY <3>1 DEF Untouched
    <3> QED BY <1>0, <1>6, <2>1, <2>2, <3>2, HoldersShrink
  <2> QED BY <1>12, <2>3, <2>4
<1> QED BY <1>3, <1>4, <1>5, <1>7, <1>8, <1>9, <1>10, <1>11, <1>12 DEF Dispatching

\* A poll's step leaves at most one holder of a row's undelivered claim.
LEMMA PollingHolder ==
    ASSUME TypeOK, LockInv, NEW c \in Once, HolderOf(c), NEW p \in Polls, Polling(p)
    PROVE  HolderOf(c)'
<1>0. c \in Commands /\ RowStep(c)
  BY PollingRow DEF Once
<1>1. UNCHANGED <<disp, outcome>>
  BY DEF Polling, HeartbeatClaim, HeartbeatCommit, PollClaim, PollRelease, PollAnswer,
         AbortPoll, rowVars
<1>2. \A d \in Dispatchers : Holds(d, c)' <=> Holds(d, c)
  BY <1>1 DEF Holds
\* p takes the rows S, all of them pending.
<1>3. ASSUME NEW S, MarkSent(S), UNCHANGED offered, c \in S => status[c] = "pending",
             \A q \in Polls : q # p => poll'[q] = poll[q],
             poll'[p].cmds = S, ~Carries(p, c) \/ c \notin poll[p].cmds
      PROVE  HolderOf(c)'
  <2>1. CASE c \in S
    <3>1. status'[c] = "sent"
      BY <1>0, <1>3, <2>1 DEF MarkSent
    <3>2. \A q \in Polls : ~Carries(q, c)
      BY <1>3, <2>1 DEF HolderOf, Untouched, Held
    <3>3. \A d \in Dispatchers : ~Holds(d, c)
      BY <1>3, <2>1 DEF HolderOf, Untouched, Held
    <3>4. \A q \in Polls : Carries(q, c)' => q = p
      BY <1>3, <3>2 DEF Carries
    <3>5. \A d \in Dispatchers : ~Holds(d, c)'
      BY <1>2, <3>3
    <3> QED BY <1>0, <1>1, <1>3, <2>1, <3>1, <3>4, <3>5, NewHolder
  <2>2. CASE c \notin S
    <3>1. status'[c] = status[c]
      BY <1>0, <1>3, <2>2 DEF MarkSent
    <3>2. \A q \in Polls : Carries(q, c)' => Carries(q, c)
      BY <1>3, <2>2 DEF Carries
    <3>3. Untouched(c)' => Untouched(c)
      BY <1>1, <3>1 DEF Untouched
    <3> QED BY <1>0, <1>2, <1>3, <3>2, <3>3, HoldersShrink
  <2> QED BY <2>1, <2>2
<1>4. ASSUME HeartbeatClaim(p) PROVE HolderOf(c)'
  <2>1. \A q \in Polls : Carries(q, c)' => Carries(q, c)
    BY <1>4 DEF HeartbeatClaim, Carries, TypeOK
  <2>2. Untouched(c)' => Untouched(c)
    BY <1>4 DEF HeartbeatClaim, Untouched, rowVars
  <2>3. offered'[c] = offered[c]
    BY <1>4 DEF HeartbeatClaim
  <2> QED BY <1>0, <1>2, <2>1, <2>2, <2>3, HoldersShrink
<1>5. ASSUME HeartbeatCommit(p) PROVE HolderOf(c)'
  <2>1. PICK good \in SUBSET poll[p].cmds :
          MarkSent(good) /\ poll' = [poll EXCEPT ![p] = Answer(good, claims')]
    BY <1>5 DEF HeartbeatCommit
  <2>2. c \in good => status[c] = "pending"
    BY <1>0, <1>5, <2>1 DEF HeartbeatCommit, LockInv, Locks
  <2>3. poll'[p].cmds = good /\ \A q \in Polls : q # p => poll'[q] = poll[q]
    BY <2>1 DEF Answer, TypeOK
  <2>4. ~Carries(p, c) /\ UNCHANGED offered
    BY <1>5 DEF HeartbeatCommit, Carries
  <2> QED BY <1>3, <2>1, <2>2, <2>3, <2>4
<1>6. ASSUME PollClaim(p) PROVE HolderOf(c)'
  <2>1. PICK S \in Batches :
          /\ MarkSent(S)
          /\ poll' = [poll EXCEPT ![p] =
                         [step |-> "claimed", cmds |-> S, claim |-> claims']]
    BY <1>6 DEF PollClaim
  <2>2. c \in S => status[c] = "pending"
    BY DEF Batches, Claimable, Writable
  <2>3. poll'[p].cmds = S /\ \A q \in Polls : q # p => poll'[q] = poll[q]
    BY <2>1 DEF TypeOK
  <2>4. ~Carries(p, c) /\ UNCHANGED offered
    BY <1>6 DEF PollClaim, Carries, Idle
  <2> QED BY <1>3, <2>1, <2>2, <2>3, <2>4
<1>7. ASSUME PollRelease(p) PROVE HolderOf(c)'
  <2>1. PICK bad \in SUBSET poll[p].cmds, back \in SUBSET poll[p].cmds :
          /\ back \subseteq bad
          /\ PutBack({x \in back : Releasable(x, poll[p].claim[x])})
          /\ poll' = [poll EXCEPT ![p] = Answer(poll[p].cmds \ bad, poll[p].claim)]
    BY <1>7 DEF PollRelease
  <2>2. poll'[p].cmds = poll[p].cmds \ bad /\ \A q \in Polls : q # p => poll'[q] = poll[q]
    BY <2>1 DEF Answer, TypeOK
  <2>3. \A q \in Polls : Carries(q, c)' => Carries(q, c)
    BY <1>7, <2>2 DEF PollRelease, Carries
  <2>4. offered'[c] = offered[c]
    BY <1>7 DEF PollRelease
  <2>5. CASE c \in back
    <3>1. Carries(p, c)
      BY <1>7, <2>5 DEF PollRelease, Carries
    <3>2. offered[c] = {}
      BY <3>1 DEF HolderOf, Held
    <3>3. ~Held(c)'
      <4>1. ~Carries(p, c)'
        BY <2>1, <2>2, <2>5 DEF Carries
      <4>2. \A q \in Polls : ~Carries(q, c)'
        BY <2>3, <3>1, <4>1 DEF HolderOf
      <4>3. \A d \in Dispatchers : ~Holds(d, c)'
        BY <1>2, <3>1 DEF HolderOf
      <4> QED BY <4>2, <4>3 DEF Held
    <3> QED BY <1>0, <1>2, <2>3, <2>4, <3>2, <3>3, HoldersShrink
  <2>6. CASE c \notin back
    <3>1. status'[c] = status[c]
      BY <1>0, <2>1, <2>6 DEF PutBack
    <3>2. Untouched(c)' => Untouched(c)
      BY <1>1, <3>1 DEF Untouched
    <3> QED BY <1>0, <1>2, <2>3, <2>4, <3>2, HoldersShrink
  <2> QED BY <2>5, <2>6
<1>8. ASSUME PollAnswer(p) PROVE HolderOf(c)'
  <2>1. UNCHANGED <<status, outcome>>
    BY <1>8 DEF PollAnswer, rowVars
  <2>2. \A q \in Polls : Carries(q, c)' => q # p /\ Carries(q, c)
    BY <1>8 DEF PollAnswer, Carries, Idle, TypeOK
  <2>3. CASE c \in poll[p].cmds
    <3>1. Carries(p, c) /\ offered'[c] = offered[c] \cup {poll[p].claim[c]}
      BY <1>0, <1>8, <2>3 DEF PollAnswer, Carries
    <3>2. ~Held(c)'
      <4>1. \A q \in Polls : ~Carries(q, c)'
        BY <2>2, <3>1 DEF HolderOf
      <4>2. \A d \in Dispatchers : ~Holds(d, c)'
        BY <1>2, <3>1 DEF HolderOf
      <4> QED BY <4>1, <4>2 DEF Held
    <3>3. Held(c)
      BY <3>1 DEF Held
    <3> QED BY <2>1, <3>1, <3>2, <3>3, HandedOver
  <2>4. CASE c \notin poll[p].cmds
    <3>1. offered'[c] = offered[c]
      BY <1>0, <1>8, <2>4 DEF PollAnswer
    <3>2. Untouched(c)' => Untouched(c)
      BY <2>1 DEF Untouched
    <3> QED BY <1>0, <1>2, <2>2, <3>1, <3>2, HoldersShrink
  <2> QED BY <2>3, <2>4
<1>9. ASSUME AbortPoll(p) PROVE HolderOf(c)'
  <2>1. \A q \in Polls : Carries(q, c)' => Carries(q, c)
    BY <1>9 DEF AbortPoll, Carries, Idle, TypeOK
  <2>2. Untouched(c)' => Untouched(c)
    BY <1>9 DEF AbortPoll, Untouched, rowVars
  <2>3. offered'[c] = offered[c]
    BY <1>9 DEF AbortPoll
  <2> QED BY <1>0, <1>2, <2>1, <2>2, <2>3, HoldersShrink
<1> QED BY <1>4, <1>5, <1>6, <1>7, <1>8, <1>9 DEF Polling

\* Claims and deliveries under every action.
LEMMA HolderInductive ==
    ASSUME TypeOK, CallerInv, LockInv, HolderInv, [Next]_vars
    PROVE  HolderInv'
<1> SUFFICES ASSUME NEW c \in Once PROVE HolderOf(c)'
  BY DEF HolderInv
<1>0. c \in Commands /\ RowStep(c) /\ HolderOf(c)
  BY RowSteps DEF Once, HolderInv
<1>1. ASSUME UNCHANGED <<disp, poll, offered>>, Untouched(c)' => Untouched(c)
      PROVE  HolderOf(c)'
  <2>1. \A d \in Dispatchers : Holds(d, c)' => Holds(d, c)
    BY <1>1 DEF Holds
  <2>2. \A p \in Polls : Carries(p, c)' => Carries(p, c)
    BY <1>1 DEF Carries
  <2> QED BY <1>0, <1>1, <2>1, <2>2, HoldersShrink
<1>2. ASSUME NEW x \in Commands, QueueCommand(x) PROVE HolderOf(c)'
  <2>1. Untouched(c)' => Untouched(c)
    BY <1>0, <1>2 DEF QueueCommand, Insert, Untouched, TypeOK
  <2> QED BY <1>1, <1>2, <2>1 DEF QueueCommand
<1>3. ASSUME NEW x \in Commands, AgentExecutes(x) \/ Restoring(x) \/ Passing(x)
      PROVE  HolderOf(c)'
  <2>1. Untouched(c)' => Untouched(c)
    BY <1>3 DEF AgentExecutes, Passing, PassCreated, PassSent, Restoring, LinkRestoreJob,
                CancelRestoreJob, Untouched, rowVars
  <2> QED BY <1>1, <1>3, <2>1 DEF AgentExecutes, Passing, PassCreated, PassSent, Restoring,
                                  LinkRestoreJob, CancelRestoreJob
<1>4. ASSUME NEW x \in Commands, Withdrawing(x) PROVE HolderOf(c)'
  <2>1. CASE Undelivered(x) /\ (CancelQueued(x) \/ DeleteQueued(x))
    <3>1. status[x] = "pending"
      BY <2>1 DEF Undelivered, Writable
    <3>2. PICK to \in Settled, why \in Outcomes : Close(x, to, why)
      BY <2>1 DEF CancelQueued, DeleteQueued, Settled, Outcomes
    <3>3. Untouched(c)' => Untouched(c)
      BY <1>0, <3>1, <3>2, CloseUntouched
    <3> QED BY <1>1, <2>1, <3>3 DEF CancelQueued, DeleteQueued
  <2>2. CASE CancelForTenant(x) \/ TimeOutVerification(x)
    <3>1. PICK to \in Settled, why \in Outcomes :
          /\ Close(x, to, why)
          /\ to # "deleted" /\ why # "cancelled_undelivered"
      BY <2>2 DEF CancelForTenant, TimeOutVerification, Settled, Outcomes
    <3>2. Untouched(c)' => Untouched(c)
      BY <1>0, <3>1, CloseUntouched
    <3> QED BY <1>1, <2>2, <3>2 DEF CancelForTenant, TimeOutVerification
  <2> QED BY <1>4, <2>1, <2>2 DEF Withdrawing, CancelQueued, DeleteQueued
<1>5. ASSUME NEW r \in Results, Answering(r) PROVE HolderOf(c)'
  <2>1. UNCHANGED <<disp, poll, offered>>
    BY <1>5 DEF Answering, ReadResult, RecordResult, HandleResult, DropResult
  <2>2. CASE UNCHANGED rowVars
    BY <1>1, <2>1, <2>2 DEF Untouched, rowVars
  <2>3. CASE RecordResult(r) /\ Accepted(res[r].cmd)
    <3>1. res[r].cmd \in Commands
      BY <2>3, ResultType DEF RecordResult, Result
    <3>2. PICK to \in Settled, why \in Outcomes :
          /\ Close(res[r].cmd, to, why)
          /\ to # "deleted" /\ why # "cancelled_undelivered"
      BY <2>3 DEF RecordResult, StoredStatus, StoredOutcome, Settled, Outcomes
    <3>3. Untouched(c)' => Untouched(c)
      BY <1>0, <3>1, <3>2, CloseUntouched
    <3> QED BY <1>1, <2>1, <3>3
  <2> QED BY <1>5, <2>2, <2>3 DEF Answering, ReadResult, RecordResult, HandleResult, DropResult
<1>6. ASSUME Reaping PROVE HolderOf(c)'
  <2>1. UNCHANGED <<disp, poll, offered>>
    BY <1>6 DEF Reaping, ReapScan, ReapOne, ReapCommit, ReapAbort
  <2>2. CASE UNCHANGED rowVars
    BY <1>1, <2>1, <2>2 DEF Untouched, rowVars
  <2>3. CASE ReapCommit
    <3>1. reaped[c] = "no" => status'[c] = status[c] /\ outcome'[c] = outcome[c]
      BY <1>0, <2>3 DEF ReapCommit, TypeOK
    <3>2. reaped[c] # "no" => /\ status'[c] = "failed"
                              /\ outcome'[c] \in {"no_response", "never_received"}
      BY <1>0, <2>3 DEF ReapCommit, TypeOK, Open
    <3>3. Untouched(c)' => Untouched(c)
      BY <3>1, <3>2 DEF Untouched
    <3> QED BY <1>1, <2>1, <3>3
  <2> QED BY <1>6, <2>2, <2>3 DEF Reaping, ReapScan, ReapOne, ReapAbort
<1>7. CASE UNCHANGED vars
  BY <1>1, <1>7 DEF vars, rowVars, Untouched
<1> QED BY <1>0, <1>2, <1>3, <1>4, <1>5, <1>6, <1>7, DispatchingHolder, PollingHolder DEF Next

-----------------------------------------------------------------------------
(* Results.                                                                *)

\* Ingesting a result keeps the result invariant.
LEMMA AnsweringResult ==
    ASSUME TypeOK, ResultInv, \A c \in Commands : RowStep(c), NEW r \in Results, Answering(r)
    PROVE  ResultInv'
<1> DEFINE x == res[r].cmd
<1>1. ASSUME NEW y \in Commands, ReadResult(r, y) PROVE ResultInv'
  <2>1. UNCHANGED <<status, outcome, committed, ran, job, handled>>
    BY <1>1 DEF ReadResult, rowVars, effectVars
  <2>2. /\ \/ res'[r] = [step |-> "read", cmd |-> y] /\ committed[y]
           \/ res'[r] = [step |-> "orphan", cmd |-> y] /\ job[y] # "none"
        /\ \A q \in Results : q # r => res'[q] = res[q]
    BY <1>1 DEF ReadResult, TypeOK
  <2>3. \A q \in Results, c \in Once : Handling(q, c)' => Handling(q, c)
    BY <2>2 DEF Handling
  <2>4. \A q \in Results : SlotOK(q)'
    BY <2>1, <2>2 DEF ResultInv, SlotOK
  <2>5. ASSUME NEW c \in Once PROVE ResultOf(c)'
    BY <2>1, <2>3 DEF ResultInv, ResultOf
  <2> QED BY <2>4, <2>5 DEF ResultInv
<1>2. ASSUME RecordResult(r) PROVE ResultInv'
  <2>1. x \in Commands /\ res[r].step = "read" /\ UNCHANGED <<ran, job, handled>>
    BY <1>2, ResultType DEF RecordResult, Result, effectVars
  <2>2. /\ res'[r] = Idle \/ (res'[r].step = "handling" /\ res'[r].cmd = x)
        /\ \A q \in Results : q # r => res'[q] = res[q]
    <3>1. res[r] \in Result
      BY <1>2, ResultType DEF RecordResult
    <3>2. \/ res' = [res EXCEPT ![r].step = "handling"] \/ res' = [res EXCEPT ![r] = Idle]
      BY <1>2 DEF RecordResult
    <3> QED BY <3>1, <3>2 DEF TypeOK, Result
  <2>3. UNCHANGED committed
    BY <1>2 DEF RecordResult, Close, rowVars
  <2>4. \A q \in Results : SlotOK(q)'
    BY <2>1, <2>2, <2>3 DEF ResultInv, SlotOK, Idle
  <2>5. ASSUME NEW c \in Once PROVE ResultOf(c)'
    <3>1. c \in Commands /\ ResultOf(c) /\ handled[c] \in Nat
      BY DEF Once, ResultInv, TypeOK
    <3>2. CASE c = x /\ Accepted(c)
      <4>1. (job[c] = "none" => handled[c] = 0) /\ \A q \in Results : ~Handling(q, c)
        BY <3>1, <3>2 DEF ResultOf, Accepted, Open, Settled
      <4>2. status'[c] \in Settled /\ outcome'[c] = "agent"
        BY <1>2, <3>1, <3>2 DEF RecordResult, Close, StoredStatus, StoredOutcome, ResultOf,
                                TypeOK, Settled
      <4>3. \A q \in Results : Handling(q, c)' => q = r
        BY <2>2, <4>1 DEF Handling
      <4> QED BY <2>1, <3>1, <4>1, <4>2, <4>3 DEF ResultOf
    <3>3. CASE c # x \/ ~Accepted(c)
      <4>1. status'[c] = status[c] /\ outcome'[c] = outcome[c]
        BY <1>2, <3>1, <3>3 DEF RecordResult, Close, TypeOK, rowVars
      <4>2. ~Accepted(x) => res'[r] = Idle
        BY <1>2 DEF RecordResult, TypeOK
      <4>3. \A q \in Results : Handling(q, c)' => Handling(q, c)
        BY <2>2, <3>3, <4>2 DEF Handling, Idle
      <4> QED BY <2>1, <3>1, <4>1, <4>3 DEF ResultOf
    <3> QED BY <3>2, <3>3
  <2> QED BY <2>4, <2>5 DEF ResultInv
<1>3. ASSUME HandleResult(r) PROVE ResultInv'
  <2>1. UNCHANGED <<status, outcome, committed, ran>>
    BY <1>3 DEF HandleResult, rowVars
  <2>2. res'[r] = Idle /\ \A q \in Results : q # r => res'[q] = res[q]
    BY <1>3 DEF HandleResult, TypeOK
  <2>3. x \in Commands /\ (\A c \in Commands : job'[c] = "none" <=> job[c] = "none")
    BY <1>3, ResultType DEF HandleResult, ApplyResult, MutableJob, Result, TypeOK
  <2>4. \A q \in Results, c \in Once : Handling(q, c)' => q # r /\ Handling(q, c)
    BY <2>2 DEF Handling, Idle
  <2>5. \A q \in Results : SlotOK(q)'
    <3>1. \A q \in Results : res[q].step = "orphan" => res[q].cmd \in Commands
      BY ResultType DEF Result
    <3> QED BY <2>1, <2>2, <2>3, <3>1 DEF ResultInv, SlotOK, Idle
  <2>6. ASSUME NEW c \in Once PROVE ResultOf(c)'
    <3>1. c \in Commands /\ ResultOf(c) /\ handled[c] \in Nat
      BY DEF Once, ResultInv, TypeOK
    <3>2. CASE c = x /\ job[c] = "none"
      <4>1. Handling(r, c)
        BY <1>3, <3>2 DEF HandleResult, Handling, ResultInv, SlotOK
      <4>2. handled'[c] = 1 /\ job'[c] = "none"
        BY <1>3, <2>3, <3>1, <3>2, <4>1 DEF HandleResult, ApplyResult, ResultOf, TypeOK
      <4>3. \A q \in Results : ~Handling(q, c)'
        BY <2>4, <3>1, <4>1 DEF ResultOf
      <4> QED BY <2>1, <3>1, <4>1, <4>2, <4>3 DEF ResultOf
    <3>3. CASE c = x /\ job[c] = "open"
      <4>1. handled[c] = 0
        BY <3>1, <3>3 DEF ResultOf
      <4>2. handled'[c] = 1 /\ job'[c] = "closed"
        BY <1>3, <3>1, <3>3, <4>1 DEF HandleResult, ApplyResult, MutableJob, TypeOK
      <4> QED BY <2>1, <2>4, <3>1, <4>2 DEF ResultOf
    <3>4. CASE c # x \/ job[c] \notin {"none", "open"}
      <4>1. handled'[c] = handled[c] /\ job'[c] = job[c]
        BY <1>3, <3>1, <3>4 DEF HandleResult, ApplyResult, MutableJob, TypeOK
      <4> QED BY <2>1, <2>4, <3>1, <4>1 DEF ResultOf
    <3> QED BY <3>2, <3>3, <3>4
  <2> QED BY <2>5, <2>6 DEF ResultInv
<1>4. ASSUME DropResult(r) PROVE ResultInv'
  <2>1. UNCHANGED <<status, outcome, committed, ran, job, handled>>
    BY <1>4 DEF DropResult, rowVars, effectVars
  <2>2. res'[r] = Idle /\ \A q \in Results : q # r => res'[q] = res[q]
    BY <1>4 DEF DropResult, TypeOK
  <2>3. \A q \in Results, c \in Once : Handling(q, c)' => Handling(q, c)
    BY <2>2 DEF Handling, Idle
  <2>4. \A q \in Results : SlotOK(q)'
    BY <2>1, <2>2 DEF ResultInv, SlotOK, Idle
  <2>5. ASSUME NEW c \in Once PROVE ResultOf(c)'
    BY <2>1, <2>3 DEF ResultInv, ResultOf
  <2> QED BY <2>4, <2>5 DEF ResultInv
<1> QED BY <1>1, <1>2, <1>3, <1>4 DEF Answering

\* A command has a job from the start or never, and an ended job stays so.
JobStep(c) ==
    /\ job'[c] = "none" <=> job[c] = "none"
    /\ job[c] = "closed" => job'[c] = "closed"

\* Results under every action.
LEMMA ResultInductive ==
    ASSUME TypeOK, CallerInv, LockInv, ResultInv, [Next]_vars
    PROVE  ResultInv'
<1>0. \A c \in Commands : RowStep(c)
  BY RowSteps
<1>1. ASSUME UNCHANGED <<res, handled>>, \A c \in Once : ran'[c] # "confirmed",
             \A c \in Commands : JobStep(c)
      PROVE  ResultInv'
  <2>1. \A r \in Results : res[r].step # "idle" => res[r].cmd \in Commands
    BY ResultType DEF Result
  <2>2. \A r \in Results : SlotOK(r)'
    BY <1>0, <1>1, <2>1 DEF ResultInv, SlotOK, RowStep, JobStep
  <2>3. ASSUME NEW c \in Once PROVE ResultOf(c)'
    <3>1. ResultOf(c) /\ RowStep(c) /\ JobStep(c)
      BY <1>0, <1>1 DEF ResultInv, Once
    <3> QED BY <1>1, <3>1 DEF ResultOf, RowStep, JobStep, Handling
  <2> QED BY <2>2, <2>3 DEF ResultInv
<1>9. ASSUME UNCHANGED <<res, handled, ran>>, \A c \in Commands : JobStep(c)
      PROVE  ResultInv'
  BY <1>1, <1>9 DEF ResultInv, ResultOf
<1>2. ASSUME UNCHANGED <<res, effectVars, ran>> PROVE ResultInv'
  BY <1>9, <1>2 DEF JobStep, effectVars
<1>3. ASSUME NEW c \in Commands, QueueCommand(c) \/ Passing(c) \/ Withdrawing(c)
      PROVE  ResultInv'
  BY <1>2, <1>3 DEF QueueCommand, Passing, PassCreated, PassSent, Withdrawing, CancelQueued,
                    DeleteQueued, CancelForTenant, TimeOutVerification
<1>4. ASSUME NEW c \in Commands, AgentExecutes(c) PROVE ResultInv'
  <2>1. \A y \in Once : ran'[y] # "confirmed"
    BY <1>4 DEF AgentExecutes, ResultInv, ResultOf, TypeOK, Once
  <2>2. UNCHANGED <<res, handled>> /\ \A y \in Commands : JobStep(y)
    BY <1>4 DEF AgentExecutes, effectVars, JobStep
  <2> QED BY <1>1, <2>1, <2>2
<1>10. ASSUME NEW c \in Commands, Restoring(c) PROVE ResultInv'
  <2>1. UNCHANGED <<res, handled, ran>>
    BY <1>10 DEF Restoring, LinkRestoreJob, CancelRestoreJob
  <2>2. \A y \in Commands : JobStep(y)
    BY <1>10 DEF Restoring, LinkRestoreJob, CancelRestoreJob, JobStep, TypeOK
  <2> QED BY <1>9, <2>1, <2>2
<1>5. ASSUME NEW d \in Dispatchers, Dispatching(d) PROVE ResultInv'
  BY <1>2, <1>5 DEF Dispatching, ExecuteCommand, QueueCommandForExecution,
     EnsureDesktopStreamStopped, Enter, RearmIdempotentCommand, ClaimPendingCommand,
     SendCommandToAgent, SendFails, ReleaseClaimedCommand, WaitForCommandResult,
     CommitDispatch, QueueBackupStopCommand, AbortDispatch
<1>6. ASSUME NEW p \in Polls, Polling(p) PROVE ResultInv'
  BY <1>2, <1>6 DEF Polling, HeartbeatClaim, HeartbeatCommit, PollClaim, PollRelease,
                    PollAnswer, AbortPoll
<1>7. ASSUME Reaping PROVE ResultInv'
  <2>1. UNCHANGED <<res, handled, ran>>
    BY <1>7 DEF Reaping, ReapScan, ReapOne, ReapCommit, ReapAbort, effectVars
  <2>2. \A y \in Commands : JobStep(y)
    BY <1>7 DEF Reaping, ReapScan, ReapOne, ReapCommit, ReapAbort, EndFailing, effectVars,
                JobStep, TypeOK
  <2> QED BY <1>9, <2>1, <2>2
<1>8. CASE UNCHANGED vars
  BY <1>2, <1>8 DEF vars
<1> QED BY <1>0, <1>3, <1>4, <1>5, <1>6, <1>7, <1>8, <1>10, AnsweringResult DEF Next

-----------------------------------------------------------------------------
(* The theorems.                                                           *)

\* The initial state satisfies the inductive invariant.
LEMMA InitIndInv == Init => IndInv
<1> SUFFICES ASSUME Init PROVE IndInv
  OBVIOUS
<1>1. TypeOK
  BY DEF Init, TypeOK, Statuses, Outcomes, Open, Jobs
<1>2. CallerInv
  BY DEF Init, CallerInv, Busy, Idle
<1>3. LockInv
  BY DEF Init, LockInv, Locks, Idle
<1>4. HolderInv
  BY DEF Init, HolderInv, HolderOf, Held, Holds, Carries, Untouched, Idle, Once, Settled
<1>5. ResultInv
  BY DEF Init, ResultInv, ResultOf, SlotOK, Handling, Idle, Once
<1> QED BY <1>1, <1>2, <1>3, <1>4, <1>5 DEF IndInv

\* Every step keeps the inductive invariant.
LEMMA IndInvInductive == IndInv /\ [Next]_vars => IndInv'
BY TypeInductive, CallerInductive, LockInductive, HolderInductive, ResultInductive DEF IndInv

\* The inductive invariant holds in every reachable state.
LEMMA IndInvHolds == Spec => []IndInv
BY InitIndInv, IndInvInductive, PTL DEF Spec

\* However WebSocket dispatch, heartbeats, polls, releases, crashes and rollbacks
\* interleave, the agent is handed a command under at most one claim.
THEOREM DeliveryAtMostOnce == Spec => []DeliveredOnce
<1>1. IndInv => DeliveredOnce
  BY DEF IndInv, HolderInv, HolderOf, DeliveredOnce
<1> QED BY <1>1, IndInvHolds, PTL

\* A command that was cancelled or deleted as still queued is never handed over.
THEOREM WithdrawalIsHonest == Spec => []WithdrawnUndelivered
<1>1. IndInv => WithdrawnUndelivered
  BY DEF IndInv, HolderInv, HolderOf, Untouched, WithdrawnUndelivered
<1> QED BY <1>1, IndInvHolds, PTL

\* Duplicate results over two transports, late results, results of rows that are
\* closed or not yet visible, and the writers that close a row or a restore job in
\* between cannot make a result take effect twice; only a restore job takes one
\* although somebody else closed the command's row.
THEOREM ResultAppliedOnce == Spec => []HandledOnce
<1>1. IndInv => HandledOnce
  BY DEF IndInv, ResultInv, ResultOf, HandledOnce
<1> QED BY <1>1, IndInvHolds, PTL

\* Late results, the synchronous timeout, the reaper, cancellations, releases and
\* heartbeats never reopen or rewrite a row that was closed.
THEOREM ClosedRowsStay == Spec => SettledStays
<1> DEFINE Stays == \A c \in Once :
              status[c] \in Settled => status'[c] = status[c] /\ outcome'[c] = outcome[c]
<1>1. IndInv /\ [Next]_vars => [Stays]_vars
  BY RowSteps DEF IndInv, RowStep, Once
<1>2. Spec => [][Stays]_vars
  BY <1>1, IndInvHolds, PTL DEF Spec
<1> QED BY <1>2 DEF SettledStays

-----------------------------------------------------------------------------
(* Claim numbers, for every row, stops included: a row that is re-armed may *)
(* have several holders at once, but each holds a claim of its own, under   *)
(* which the agent has not been handed the row.                             *)

ClaimOf(c) ==
    /\ \A n \in offered[c] : n <= claims[c]
    /\ \A d \in Dispatchers :
          Holds(d, c) => disp[d].claim <= claims[c] /\ disp[d].claim \notin offered[c]
    /\ \A p \in Polls :
          Carries(p, c) => poll[p].claim[c] <= claims[c] /\ poll[p].claim[c] \notin offered[c]
    /\ \A d, e \in Dispatchers :
          Holds(d, c) /\ Holds(e, c) /\ disp[d].claim = disp[e].claim => d = e
    /\ \A p, q \in Polls :
          Carries(p, c) /\ Carries(q, c) /\ poll[p].claim[c] = poll[q].claim[c] => p = q
    /\ \A d \in Dispatchers, p \in Polls :
          ~(Holds(d, c) /\ Carries(p, c) /\ disp[d].claim = poll[p].claim[c])

ClaimInv == \A c \in Commands : ClaimOf(c)

\* A holder keeps its claim, or has let it go.
KeepsHold(d, c) == Holds(d, c)' => Holds(d, c) /\ disp'[d].claim = disp[d].claim
KeepsCarry(p, c) == Carries(p, c)' => Carries(p, c) /\ poll'[p].claim[c] = poll[p].claim[c]

\* Claim numbers are numbers; used by every proof about them.
LEMMA ClaimTypes ==
    ASSUME TypeOK, NEW c \in Commands
    PROVE  /\ claims[c] \in Nat /\ offered[c] \subseteq Nat
           /\ \A d \in Dispatchers : Holds(d, c) => disp[d].claim \in Nat
           /\ \A p \in Polls : Carries(p, c) => poll[p].claim[c] \in Nat
<1>1. \A d \in Dispatchers : Holds(d, c) => disp[d].claim \in Nat
  BY CallerType DEF Holds, Busy, Dispatch
<1>2. \A p \in Polls : Carries(p, c) => poll[p].claim[c] \in Nat
  BY PollType DEF Carries, Poll
<1> QED BY <1>1, <1>2 DEF TypeOK

\* Nobody claims the row, and nobody hands it over.
LEMMA ClaimsKept ==
    ASSUME TypeOK, NEW c \in Commands, ClaimOf(c), offered'[c] = offered[c], claims'[c] = claims[c],
           \A d \in Dispatchers : KeepsHold(d, c), \A p \in Polls : KeepsCarry(p, c)
    PROVE  ClaimOf(c)'
<1> USE DEF KeepsHold, KeepsCarry
<1>1. \A d \in Dispatchers : Holds(d, c)' =>
          disp'[d].claim <= claims'[c] /\ disp'[d].claim \notin offered'[c]
  BY DEF ClaimOf
<1>2. \A p \in Polls : Carries(p, c)' =>
          poll'[p].claim[c] <= claims'[c] /\ poll'[p].claim[c] \notin offered'[c]
  BY DEF ClaimOf
<1>3. \A n \in offered'[c] : n <= claims'[c]
  BY DEF ClaimOf
<1> QED BY <1>1, <1>2, <1>3 DEF ClaimOf

\* A new claim has a new number: nobody holds it, and the agent has not seen it.
LEMMA NewClaim ==
    ASSUME TypeOK, NEW c \in Commands, ClaimOf(c), offered'[c] = offered[c],
           claims'[c] = claims[c] + 1,
           \/ \E d \in Dispatchers :
                 /\ \A e \in Dispatchers \ {d} : KeepsHold(e, c)
                 /\ \A p \in Polls : KeepsCarry(p, c)
                 /\ disp'[d].claim = claims[c] + 1
           \/ \E p \in Polls :
                 /\ \A q \in Polls \ {p} : KeepsCarry(q, c)
                 /\ \A d \in Dispatchers : KeepsHold(d, c)
                 /\ poll'[p].claim[c] = claims[c] + 1
    PROVE  ClaimOf(c)'
<1> USE DEF KeepsHold, KeepsCarry
<1>0. /\ claims[c] \in Nat /\ \A n \in offered[c] : n \in Nat /\ n < claims[c] + 1
      /\ \A d \in Dispatchers : Holds(d, c) =>
            disp[d].claim \in Nat /\ disp[d].claim < claims[c] + 1 /\ disp[d].claim \notin offered[c]
      /\ \A p \in Polls : Carries(p, c) =>
            /\ poll[p].claim[c] \in Nat /\ poll[p].claim[c] < claims[c] + 1
            /\ poll[p].claim[c] \notin offered[c]
  BY ClaimTypes DEF ClaimOf
<1>1. \A n \in offered'[c] : n <= claims'[c]
  BY <1>0
<1>2. ASSUME NEW d \in Dispatchers, \A e \in Dispatchers \ {d} : KeepsHold(e, c),
             \A p \in Polls : KeepsCarry(p, c), disp'[d].claim = claims[c] + 1
      PROVE  ClaimOf(c)'
  <2>1. \A e \in Dispatchers : Holds(e, c)' =>
            disp'[e].claim <= claims'[c] /\ disp'[e].claim \notin offered'[c]
    BY <1>0, <1>2
  <2>2. \A p \in Polls : Carries(p, c)' =>
            poll'[p].claim[c] <= claims'[c] /\ poll'[p].claim[c] \notin offered'[c]
    BY <1>0, <1>2
  <2>3. \A e, f \in Dispatchers :
            Holds(e, c)' /\ Holds(f, c)' /\ disp'[e].claim = disp'[f].claim => e = f
    BY <1>0, <1>2 DEF ClaimOf
  <2>4. \A p, q \in Polls :
            Carries(p, c)' /\ Carries(q, c)' /\ poll'[p].claim[c] = poll'[q].claim[c] => p = q
    BY <1>2 DEF ClaimOf
  <2>5. \A e \in Dispatchers, p \in Polls :
            ~(Holds(e, c)' /\ Carries(p, c)' /\ disp'[e].claim = poll'[p].claim[c])
    BY <1>0, <1>2 DEF ClaimOf
  <2> QED BY <1>1, <2>1, <2>2, <2>3, <2>4, <2>5 DEF ClaimOf
<1>3. ASSUME NEW p \in Polls, \A q \in Polls \ {p} : KeepsCarry(q, c),
             \A d \in Dispatchers : KeepsHold(d, c), poll'[p].claim[c] = claims[c] + 1
      PROVE  ClaimOf(c)'
  <2>1. \A e \in Dispatchers : Holds(e, c)' =>
            disp'[e].claim <= claims'[c] /\ disp'[e].claim \notin offered'[c]
    BY <1>0, <1>3
  <2>2. \A q \in Polls : Carries(q, c)' =>
            poll'[q].claim[c] <= claims'[c] /\ poll'[q].claim[c] \notin offered'[c]
    BY <1>0, <1>3
  <2>3. \A e, f \in Dispatchers :
            Holds(e, c)' /\ Holds(f, c)' /\ disp'[e].claim = disp'[f].claim => e = f
    BY <1>3 DEF ClaimOf
  <2>4. \A q, s \in Polls :
            Carries(q, c)' /\ Carries(s, c)' /\ poll'[q].claim[c] = poll'[s].claim[c] => q = s
    BY <1>0, <1>3 DEF ClaimOf
  <2>5. \A e \in Dispatchers, q \in Polls :
            ~(Holds(e, c)' /\ Carries(q, c)' /\ disp'[e].claim = poll'[q].claim[c])
    BY <1>0, <1>3 DEF ClaimOf
  <2> QED BY <1>1, <2>1, <2>2, <2>3, <2>4, <2>5 DEF ClaimOf
<1> QED BY <1>2, <1>3

\* The holder hands the row over under its claim, and lets it go.
LEMMA ClaimHandedOver ==
    ASSUME TypeOK, NEW c \in Commands, ClaimOf(c), claims'[c] = claims[c],
           \A d \in Dispatchers : KeepsHold(d, c), \A p \in Polls : KeepsCarry(p, c),
           \/ \E d \in Dispatchers : /\ Holds(d, c) /\ ~Holds(d, c)'
                                     /\ offered'[c] = offered[c] \cup {disp[d].claim}
           \/ \E p \in Polls : /\ Carries(p, c) /\ ~Carries(p, c)'
                               /\ offered'[c] = offered[c] \cup {poll[p].claim[c]}
    PROVE  ClaimOf(c)'
<1> USE DEF KeepsHold, KeepsCarry
<1>1. PICK n : /\ offered'[c] = offered[c] \cup {n} /\ n <= claims[c]
               /\ \A d \in Dispatchers : Holds(d, c)' => disp[d].claim # n
               /\ \A p \in Polls : Carries(p, c)' => poll[p].claim[c] # n
  <2>1. ASSUME NEW d \in Dispatchers, Holds(d, c), ~Holds(d, c)',
               offered'[c] = offered[c] \cup {disp[d].claim}
        PROVE  /\ disp[d].claim <= claims[c]
               /\ \A e \in Dispatchers : Holds(e, c)' => disp[e].claim # disp[d].claim
               /\ \A p \in Polls : Carries(p, c)' => poll[p].claim[c] # disp[d].claim
    BY <2>1 DEF ClaimOf
  <2>2. ASSUME NEW p \in Polls, Carries(p, c), ~Carries(p, c)',
               offered'[c] = offered[c] \cup {poll[p].claim[c]}
        PROVE  /\ poll[p].claim[c] <= claims[c]
               /\ \A d \in Dispatchers : Holds(d, c)' => disp[d].claim # poll[p].claim[c]
               /\ \A q \in Polls : Carries(q, c)' => poll[q].claim[c] # poll[p].claim[c]
    BY <2>2 DEF ClaimOf
  <2> QED BY <2>1, <2>2
<1>2. \A d \in Dispatchers : Holds(d, c)' =>
          disp'[d].claim <= claims'[c] /\ disp'[d].claim \notin offered'[c]
  BY <1>1 DEF ClaimOf
<1>3. \A p \in Polls : Carries(p, c)' =>
          poll'[p].claim[c] <= claims'[c] /\ poll'[p].claim[c] \notin offered'[c]
  BY <1>1 DEF ClaimOf
<1>4. \A m \in offered'[c] : m <= claims'[c]
  BY <1>1 DEF ClaimOf
<1> QED BY <1>2, <1>3, <1>4 DEF ClaimOf

\* A caller's step keeps claims distinct and unoffered while held.
LEMMA DispatchingClaim ==
    ASSUME TypeOK, NEW c \in Commands, ClaimOf(c), NEW d \in Dispatchers, Dispatching(d)
    PROVE  ClaimOf(c)'
<1> DEFINE x == disp[d].cmd
<1>1. ASSUME NEW y \in Commands, NEW step \in {"unconfirmed", "queued", "waiting", "closing"},
             NEW kind, Enter(d, y, step, kind)
      PROVE  ClaimOf(c)'
  <2>1. \A e \in Dispatchers : KeepsHold(e, c)
    BY <1>1 DEF Enter, Holds, KeepsHold, TypeOK
  <2>2. \A p \in Polls : KeepsCarry(p, c)
    BY <1>1 DEF Enter, Carries, KeepsCarry
  <2> QED BY <1>1, <2>1, <2>2, ClaimsKept DEF Enter, boundVars
<1>2. CASE \E y \in Commands : ExecuteCommand(d, y) \/ QueueCommandForExecution(d, y)
                               \/ EnsureDesktopStreamStopped(d, y)
  BY <1>1, <1>2 DEF ExecuteCommand, QueueCommandForExecution, EnsureDesktopStreamStopped
<1>3. ASSUME NEW S, S \cap {"claimed", "unsent"} = {}, Moved(d, S), UNCHANGED poll
      PROVE  /\ \A e \in Dispatchers : KeepsHold(e, c) /\ ~Holds(d, c)'
             /\ \A p \in Polls : KeepsCarry(p, c)
  BY <1>3 DEF Moved, Holds, Carries, KeepsHold, KeepsCarry
<1>4. ASSUME NEW S, S \cap {"claimed", "unsent"} = {}, Moved(d, S), UNCHANGED <<poll, offered, claims>>
      PROVE  ClaimOf(c)'
  BY <1>3, <1>4, ClaimsKept
<1>5. CASE RearmIdempotentCommand(d)
  <2>1. Busy(d) /\ UNCHANGED <<poll, offered, claims>>
    BY <1>5 DEF RearmIdempotentCommand, Busy
  <2>2. Moved(d, {"queued"})
    BY <1>5, <2>1, GoToMoved, LeaveMoved DEF RearmIdempotentCommand, Moved
  <2> QED BY <1>4, <2>1, <2>2
<1>6. CASE ClaimPendingCommand(d)
  <2>1. Busy(d) /\ UNCHANGED <<poll, offered>>
    BY <1>6 DEF ClaimPendingCommand, Busy
  <2>2. CASE status[x] = "pending"
    <3>1. /\ disp' = [disp EXCEPT ![d] = [step |-> "claimed", kind |-> disp[d].kind,
                                          cmd |-> x, claim |-> claims[x] + 1]]
          /\ claims' = [y \in Commands |-> IF y \in {x} THEN claims[y] + 1 ELSE claims[y]]
      BY <1>6, <2>2 DEF ClaimPendingCommand, MarkSent
    <3>2. \A e \in Dispatchers \ {d} : KeepsHold(e, c)
      BY <3>1 DEF KeepsHold, Holds, TypeOK
    <3>3. \A p \in Polls : KeepsCarry(p, c)
      BY <2>1 DEF KeepsCarry, Carries
    <3>4. disp'[d].cmd = x /\ disp'[d].claim = claims[x] + 1
      BY <3>1 DEF TypeOK
    <3>5. CASE c = x
      BY <2>1, <3>1, <3>2, <3>3, <3>4, <3>5, NewClaim
    <3>6. CASE c # x
      <4>1. claims'[c] = claims[c] /\ KeepsHold(d, c)
        BY <3>1, <3>4, <3>6 DEF KeepsHold, Holds
      <4> QED BY <2>1, <3>2, <3>3, <4>1, ClaimsKept
    <3> QED BY <3>5, <3>6
  <2>3. CASE status[x] # "pending"
    <3>1. Proceed(d) /\ UNCHANGED claims
      BY <1>6, <2>3 DEF ClaimPendingCommand
    <3>2. Moved(d, {"waiting", "closing"})
      BY <2>1, <3>1, ProceedMoved
    <3> QED BY <1>4, <2>1, <3>1, <3>2
  <2> QED BY <2>2, <2>3
<1>7. CASE SendCommandToAgent(d)
  <2>1. Busy(d) /\ Proceed(d) /\ UNCHANGED <<poll, claims>>
    BY <1>7 DEF SendCommandToAgent, Busy, boundVars
  <2>2. Moved(d, {"waiting", "closing"})
    BY <2>1, ProceedMoved
  <2>3. /\ \A e \in Dispatchers : KeepsHold(e, c) /\ ~Holds(d, c)'
        /\ \A p \in Polls : KeepsCarry(p, c)
    BY <1>3, <2>1, <2>2
  <2>4. CASE c = x
    <3>1. Holds(d, c) /\ offered'[c] = offered[c] \cup {disp[d].claim}
      BY <1>7, <2>4 DEF SendCommandToAgent, Holds, TypeOK
    <3> QED BY <2>1, <2>3, <3>1, ClaimHandedOver
  <2>5. CASE c # x
    <3>1. offered'[c] = offered[c]
      BY <1>7, <2>5 DEF SendCommandToAgent, TypeOK
    <3> QED BY <2>1, <2>3, <3>1, ClaimsKept
  <2> QED BY <2>4, <2>5
<1>8. CASE SendFails(d)
  <2>1. disp[d] \in Dispatch /\ disp[d].step = "claimed"
    BY <1>8, CallerType DEF SendFails, Busy
  <2>2. disp'[d] = [disp[d] EXCEPT !.step = "unsent"] /\ \A e \in Dispatchers \ {d} : disp'[e] = disp[e]
    BY <1>8 DEF SendFails, GoTo, TypeOK
  <2>3. disp'[d].cmd = disp[d].cmd /\ disp'[d].claim = disp[d].claim
    BY <2>1, <2>2 DEF Dispatch
  <2>4. \A e \in Dispatchers : KeepsHold(e, c)
    BY <2>1, <2>2, <2>3 DEF KeepsHold, Holds
  <2>5. UNCHANGED <<poll, claims, offered>> /\ \A p \in Polls : KeepsCarry(p, c)
    BY <1>8 DEF SendFails, boundVars, KeepsCarry, Carries
  <2> QED BY <2>4, <2>5, ClaimsKept
<1>9. CASE ReleaseClaimedCommand(d)
  <2>1. Busy(d) /\ UNCHANGED <<poll, offered, claims>>
    BY <1>9 DEF ReleaseClaimedCommand, Busy, boundVars
  <2>2. Moved(d, {"waiting", "closing"})
    BY <1>9, <2>1, ProceedMoved, LeaveMoved DEF ReleaseClaimedCommand, Moved
  <2> QED BY <1>4, <2>1, <2>2
<1>10. CASE WaitForCommandResult(d) \/ CommitDispatch(d) \/ QueueBackupStopCommand(d)
              \/ AbortDispatch(d)
  <2>1. Leave(d) /\ UNCHANGED <<poll, offered, claims>>
    BY <1>10 DEF WaitForCommandResult, CommitDispatch, QueueBackupStopCommand, AbortDispatch, boundVars
  <2>2. Moved(d, {})
    BY <2>1, LeaveMoved
  <2> QED BY <1>4, <2>1, <2>2
<1> QED BY <1>2, <1>5, <1>6, <1>7, <1>8, <1>9, <1>10 DEF Dispatching

\* A poll's step keeps claims distinct and unoffered while held.
LEMMA PollingClaim ==
    ASSUME TypeOK, NEW c \in Commands, ClaimOf(c), NEW p \in Polls, Polling(p)
    PROVE  ClaimOf(c)'
<1>0. UNCHANGED disp
  BY DEF Polling, HeartbeatClaim, HeartbeatCommit, PollClaim, PollRelease, PollAnswer, AbortPoll
<1>1. \A d \in Dispatchers : KeepsHold(d, c)
  BY <1>0 DEF KeepsHold, Holds
\* p takes the rows S.
<1>2. ASSUME NEW S, MarkSent(S), UNCHANGED offered, ~Carries(p, c),
             \A q \in Polls \ {p} : poll'[q] = poll[q], poll'[p].cmds = S, poll'[p].claim = claims'
      PROVE  ClaimOf(c)'
  <2>1. \A q \in Polls \ {p} : KeepsCarry(q, c)
    BY <1>2 DEF KeepsCarry, Carries
  <2>2. CASE c \in S
    <3>1. claims'[c] = claims[c] + 1
      BY <1>2, <2>2 DEF MarkSent
    <3> QED BY <1>1, <1>2, <2>1, <3>1, NewClaim
  <2>3. CASE c \notin S
    <3>1. claims'[c] = claims[c] /\ KeepsCarry(p, c)
      BY <1>2, <2>3 DEF MarkSent, KeepsCarry, Carries
    <3> QED BY <1>1, <1>2, <2>1, <3>1, ClaimsKept
  <2> QED BY <2>2, <2>3
<1>3. CASE HeartbeatClaim(p) \/ AbortPoll(p)
  <2>1. \A q \in Polls : KeepsCarry(q, c)
    BY <1>3 DEF HeartbeatClaim, AbortPoll, KeepsCarry, Carries, Idle, TypeOK
  <2> QED BY <1>1, <1>3, <2>1, ClaimsKept DEF HeartbeatClaim, AbortPoll, boundVars
<1>4. CASE HeartbeatCommit(p)
  <2>1. PICK good \in SUBSET poll[p].cmds :
          MarkSent(good) /\ poll' = [poll EXCEPT ![p] = Answer(good, claims')]
    BY <1>4 DEF HeartbeatCommit
  <2>2. /\ poll'[p].cmds = good /\ poll'[p].claim = claims'
        /\ \A q \in Polls \ {p} : poll'[q] = poll[q]
    BY <2>1 DEF Answer, TypeOK
  <2>3. ~Carries(p, c) /\ UNCHANGED offered
    BY <1>4 DEF HeartbeatCommit, Carries
  <2> QED BY <1>2, <2>1, <2>2, <2>3
<1>5. CASE PollClaim(p)
  <2>1. PICK S \in Batches :
          /\ MarkSent(S)
          /\ poll' = [poll EXCEPT ![p] = [step |-> "claimed", cmds |-> S, claim |-> claims']]
    BY <1>5 DEF PollClaim
  <2>2. /\ poll'[p].cmds = S /\ poll'[p].claim = claims'
        /\ \A q \in Polls \ {p} : poll'[q] = poll[q]
    BY <2>1 DEF TypeOK
  <2>3. ~Carries(p, c) /\ UNCHANGED offered
    BY <1>5 DEF PollClaim, Carries, Idle
  <2> QED BY <1>2, <2>1, <2>2, <2>3
<1>6. CASE PollRelease(p)
  <2>1. PICK bad \in SUBSET poll[p].cmds :
          poll' = [poll EXCEPT ![p] = Answer(poll[p].cmds \ bad, poll[p].claim)]
    BY <1>6 DEF PollRelease
  <2>2. /\ poll'[p].cmds = poll[p].cmds \ bad /\ poll'[p].claim = poll[p].claim
        /\ \A q \in Polls \ {p} : poll'[q] = poll[q]
    BY <2>1 DEF Answer, TypeOK
  <2>3. \A q \in Polls : KeepsCarry(q, c)
    BY <1>6, <2>2 DEF PollRelease, KeepsCarry, Carries
  <2> QED BY <1>1, <1>6, <2>3, ClaimsKept DEF PollRelease, boundVars
<1>7. CASE PollAnswer(p)
  <2>1. (\A q \in Polls : KeepsCarry(q, c)) /\ ~Carries(p, c)'
    BY <1>7 DEF PollAnswer, KeepsCarry, Carries, Idle, TypeOK
  <2>2. claims'[c] = claims[c]
    BY <1>7 DEF PollAnswer, boundVars
  <2>3. CASE c \in poll[p].cmds
    <3>1. Carries(p, c) /\ offered'[c] = offered[c] \cup {poll[p].claim[c]}
      BY <1>7, <2>3 DEF PollAnswer, Carries
    <3> QED BY <1>1, <2>1, <2>2, <3>1, ClaimHandedOver
  <2>4. CASE c \notin poll[p].cmds
    <3>1. offered'[c] = offered[c]
      BY <1>7, <2>4 DEF PollAnswer
    <3> QED BY <1>1, <2>1, <2>2, <3>1, ClaimsKept
  <2> QED BY <2>3, <2>4
<1> QED BY <1>3, <1>4, <1>5, <1>6, <1>7 DEF Polling

\* Claim numbers under every action.
LEMMA ClaimInductive ==
    ASSUME TypeOK, ClaimInv, [Next]_vars
    PROVE  ClaimInv'
<1> SUFFICES ASSUME NEW c \in Commands PROVE ClaimOf(c)'
  BY DEF ClaimInv
<1>0. ClaimOf(c)
  BY DEF ClaimInv
<1>1. CASE UNCHANGED <<disp, poll, offered, claims>>
  <2>1. \A d \in Dispatchers : KeepsHold(d, c)
    BY <1>1 DEF KeepsHold, Holds
  <2>2. \A p \in Polls : KeepsCarry(p, c)
    BY <1>1 DEF KeepsCarry, Carries
  <2> QED BY <1>0, <1>1, <2>1, <2>2, ClaimsKept
<1>2. ASSUME NEW x \in Commands, QueueCommand(x) \/ AgentExecutes(x) \/ Withdrawing(x)
                                 \/ Restoring(x) \/ Passing(x)
      PROVE  ClaimOf(c)'
  BY <1>1, <1>2 DEF QueueCommand, AgentExecutes, Withdrawing, CancelQueued, DeleteQueued,
     CancelForTenant, TimeOutVerification, Passing, PassCreated, PassSent, Restoring, LinkRestoreJob,
     CancelRestoreJob, boundVars
<1>3. ASSUME NEW r \in Results, Answering(r) PROVE ClaimOf(c)'
  BY <1>1, <1>3 DEF Answering, ReadResult, RecordResult, HandleResult, DropResult, boundVars
<1>4. CASE Reaping
  BY <1>1, <1>4 DEF Reaping, ReapScan, ReapOne, ReapCommit, ReapAbort, boundVars
<1>5. CASE UNCHANGED vars
  BY <1>1, <1>5 DEF vars, boundVars
<1> QED BY <1>0, <1>2, <1>3, <1>4, <1>5, DispatchingClaim, PollingClaim DEF Next

\* The claim invariant holds in every reachable state.
LEMMA ClaimHolds == Spec => []ClaimInv
<1>1. Init => ClaimInv
  BY DEF Init, ClaimInv, ClaimOf, Holds, Carries, Idle
<1>2. TypeOK /\ ClaimInv /\ [Next]_vars => ClaimInv'
  BY ClaimInductive
<1> QED BY <1>1, <1>2, TypeCorrect, PTL DEF Spec

\* What makes a sent row pending again: re-arming it, or giving up the claim it shows.
GivesUp(c) ==
    \/ \E d \in Dispatchers : Holds(d, c) /\ disp[d].claim = stamp[c]
    \/ \E p \in Polls : Carries(p, c) /\ poll[p].claim[c] = stamp[c]

\* A sent row returns to pending only through a holder's release or a re-arm.
LEMMA PendingAgain ==
    ASSUME TypeOK, LockInv, [Next]_vars, NEW c \in Commands, status[c] = "sent", status'[c] = "pending"
    PROVE  GivesUp(c) \/ rearms'[c] # rearms[c]
<1>1. ASSUME NEW x, NEW to, NEW why, Close(x, to, why), to # "pending" PROVE FALSE
  BY <1>1 DEF Close, TypeOK
<1>2. ASSUME NEW x, NEW visible, Insert(x, visible) PROVE FALSE
  BY <1>2 DEF Insert, TypeOK
<1>3. CASE UNCHANGED status
  BY <1>3
<1>4. ASSUME NEW S, MarkSent(S) PROVE FALSE
  BY <1>4 DEF MarkSent
<1>5. ASSUME NEW x \in Commands, QueueCommand(x) \/ AgentExecutes(x) \/ Withdrawing(x)
                                 \/ Restoring(x) \/ Passing(x)
      PROVE  FALSE
  BY <1>1, <1>2, <1>3, <1>5 DEF QueueCommand, AgentExecutes, Withdrawing, CancelQueued, DeleteQueued,
     CancelForTenant, TimeOutVerification, Passing, PassCreated, PassSent, Restoring, LinkRestoreJob,
     CancelRestoreJob, rowVars
<1>6. ASSUME NEW r \in Results, Answering(r) PROVE FALSE
  BY <1>1, <1>3, <1>6 DEF Answering, ReadResult, RecordResult, StoredStatus, HandleResult, DropResult,
     rowVars
<1>7. CASE Reaping
  BY <1>7 DEF Reaping, ReapScan, ReapOne, ReapCommit, ReapAbort, rowVars
<1>8. ASSUME NEW d \in Dispatchers, Dispatching(d) PROVE GivesUp(c) \/ rearms'[c] # rearms[c]
  <2>1. CASE RearmIdempotentCommand(d)
    <3>1. c = disp[d].cmd /\ rearms'[c] = rearms[c] + 1
      BY <2>1 DEF RearmIdempotentCommand, TypeOK
    <3> QED BY <3>1 DEF TypeOK
  <2>2. CASE ReleaseClaimedCommand(d)
    <3>1. c = disp[d].cmd /\ Releasable(c, disp[d].claim)
      BY <2>2 DEF ReleaseClaimedCommand, PutBack
    <3> QED BY <2>2, <3>1 DEF ReleaseClaimedCommand, Releasable, GivesUp, Holds
  <2>3. CASE ClaimPendingCommand(d)
    BY <1>3, <1>4, <2>3 DEF ClaimPendingCommand
  <2>4. CASE AbortDispatch(d)
    BY <2>4 DEF AbortDispatch, TypeOK
  <2> QED BY <1>1, <1>2, <1>3, <1>8, <2>1, <2>2, <2>3, <2>4 DEF Dispatching, ExecuteCommand,
          QueueCommandForExecution, EnsureDesktopStreamStopped, SendCommandToAgent, SendFails,
          WaitForCommandResult, CommitDispatch, QueueBackupStopCommand, rowVars
<1>9. ASSUME NEW p \in Polls, Polling(p) PROVE GivesUp(c)
  <2>1. CASE PollRelease(p)
    <3>1. PICK back \in SUBSET poll[p].cmds :
            PutBack({x \in back : Releasable(x, poll[p].claim[x])})
      BY <2>1 DEF PollRelease
    <3>2. c \in back /\ Releasable(c, poll[p].claim[c])
      BY <3>1 DEF PutBack
    <3> QED BY <2>1, <3>2 DEF PollRelease, Releasable, GivesUp, Carries
  <2> QED BY <1>3, <1>4, <1>9, <2>1 DEF Polling, HeartbeatClaim, HeartbeatCommit, PollClaim,
          PollAnswer, AbortPoll, rowVars
<1> QED BY <1>3, <1>5, <1>6, <1>7, <1>8, <1>9 DEF Next, vars, rowVars

\* releaseClaimedCommandDelivery compares executed_at: a release by a caller or a poll
\* that was overtaken by a re-arm and a newer claim never takes back a claim under which
\* the agent was handed the command.
THEOREM StaleReleaseHarmless == Spec => ReleaseSparesNewerClaim
<1> DEFINE Spares == \A c \in Commands :
              status[c] = "sent" /\ stamp[c] \in offered[c] /\ status'[c] = "pending"
                  => rearms'[c] # rearms[c]
<1>1. ASSUME NEW c \in Commands, ClaimInv, stamp[c] \in offered[c] PROVE ~GivesUp(c)
  BY <1>1 DEF ClaimInv, ClaimOf, GivesUp
<1>2. IndInv /\ ClaimInv /\ [Next]_vars => [Spares]_vars
  BY <1>1, PendingAgain DEF IndInv
<1>3. Spec => [][Spares]_vars
  BY <1>2, IndInvHolds, ClaimHolds, PTL DEF Spec
<1> QED BY <1>3 DEF ReleaseSparesNewerClaim
=============================================================================
