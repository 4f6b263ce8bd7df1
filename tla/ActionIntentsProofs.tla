------------------------ MODULE ActionIntentsProofs ------------------------
(***************************************************************************)
(* Proofs about ActionIntents, for every set of intents, users, concurrent *)
(* requests and deliveries, and every number of role changes and faults.   *)
(***************************************************************************)
EXTENDS ActionIntents, TLAPS

\* A request in flight is a record with an intent, a user and a verdict.
LEMMA RequestType ==
    ASSUME TypeOK, NEW d \in Requests, req[d].step # "idle"
    PROVE  req[d] \in ActiveRequest
BY DEF TypeOK, NoRequest

\* Moving a request on keeps req well typed.
LEMMA RequestStepType ==
    ASSUME TypeOK, NEW d \in Requests, req[d].step # "idle", NEW s \in RequestSteps
    PROVE  [req EXCEPT ![d].step = s] \in [Requests -> ActiveRequest \cup {NoRequest}]
<1>1. req[d] \in ActiveRequest
  BY RequestType
<1>2. [req[d] EXCEPT !.step = s] \in ActiveRequest
  BY <1>1 DEF ActiveRequest
<1> QED BY <1>2 DEF TypeOK

\* Moving a releaser on keeps rel well typed.
LEMMA ReleaserStepType ==
    ASSUME TypeOK, NEW i \in Intents, NEW r \in Releasers, NEW s \in ReleaseSteps
    PROVE  [rel EXCEPT ![i][r] = s] \in [Intents -> [Releasers -> ReleaseSteps]]
BY DEF TypeOK

\* So does letting a session wait.
LEMMA WaitingType ==
    ASSUME TypeOK, NEW i \in Intents, NEW caller
    PROVE  StartWaiting(i, caller) \in [Intents -> [Releasers -> ReleaseSteps]]
BY DEF TypeOK, StartWaiting, ReleaseSteps

\* The rows of action_intents and approval_requests, the handlers and the
\* releasers keep their types under every action.
LEMMA TypeInductive ==
    ASSUME TypeOK, [Next]_vars
    PROVE  TypeOK'
<1> USE BoundsAssumption
<1> USE DEF TypeOK, intentVars, clockVars, envVars, releaseVars, publishVars
<1>1. ASSUME NEW i \in Intents, ResolveIntentApprovers(i) PROVE TypeOK'
  BY <1>1 DEF ResolveIntentApprovers
<1>2. ASSUME NEW i \in Intents, NEW u \in Users, NEW caller \in Callers,
             CreateActionIntent(i, u, caller)
      PROVE TypeOK'
  <2>1. rel' \in [Intents -> [Releasers -> ReleaseSteps]]
    BY <1>2, WaitingType DEF CreateActionIntent
  <2> QED BY <1>2, <2>1
          DEF CreateActionIntent, Statuses, Live, Terminal, Withdrawn, RowStatuses, ErrorCodes
<1>3. ASSUME NEW i \in Intents, NEW caller \in Callers, ReplayActionIntent(i, caller)
      PROVE TypeOK'
  <2>1. rel' \in [Intents -> [Releasers -> ReleaseSteps]]
    BY <1>3, WaitingType DEF ReplayActionIntent
  <2> QED BY <1>3, <2>1 DEF ReplayActionIntent
<1>4. ASSUME NEW i \in Intents, CancelActionIntent(i) PROVE TypeOK'
  BY <1>4 DEF CancelActionIntent, Statuses, Terminal, Withdrawn
<1>5. ASSUME NEW d \in Requests, NEW i \in Intents, NEW u \in Users, NEW v \in Verdicts,
             ReadApproval(d, i, u, v)
      PROVE TypeOK'
  BY <1>5 DEF ReadApproval, ActiveRequest, RequestSteps
<1>6. ASSUME NEW d \in Requests, WriteOwnRow(d) PROVE TypeOK'
  <2>1. [req EXCEPT ![d].step = "written"] \in [Requests -> ActiveRequest \cup {NoRequest}]
    BY <1>6, RequestStepType DEF WriteOwnRow, RequestSteps
  <2> QED BY <1>6, <2>1 DEF WriteOwnRow
<1>7. ASSUME NEW d \in Requests, FanInCas(d) PROVE TypeOK'
  <2>1. req' \in [Requests -> ActiveRequest \cup {NoRequest}]
    BY <1>7, RequestStepType DEF FanInCas, RequestSteps
  <2> QED BY <1>7, <2>1 DEF FanInCas
<1>8. ASSUME NEW d \in Requests, FanInCommit(d) PROVE TypeOK'
  <2>1. req' \in [Requests -> ActiveRequest \cup {NoRequest}]
    BY <1>8, RequestStepType DEF FanInCommit, RequestSteps
  <2>2. req[d].intent \in Intents /\ req[d].user \in Users
    BY <1>8, RequestType DEF FanInCommit, ActiveRequest
  <2> QED BY <1>8, <2>1, <2>2
          DEF FanInCommit, IntentTargetStatus, Statuses, Live, Terminal,
              Withdrawn, RowStatuses
<1>9. ASSUME NEW d \in Requests, FanInFail(d) PROVE TypeOK'
  <2>1. req' \in [Requests -> ActiveRequest \cup {NoRequest}]
    BY <1>9, RequestStepType DEF FanInFail, RequestSteps
  <2> QED BY <1>9, <2>1 DEF FanInFail, Fault
<1>10. ASSUME NEW d \in Requests, CommitRequest(d) PROVE TypeOK'
  <2>1. req[d] \in ActiveRequest
    BY <1>10, RequestType DEF CommitRequest
  <2> QED BY <1>10, <2>1 DEF CommitRequest, ActiveRequest, Verdicts, RowStatuses
<1>11. ASSUME NEW d \in Requests, KillTransaction(d) PROVE TypeOK'
  <2>1. req[d] \in ActiveRequest
    BY <1>11, RequestType DEF KillTransaction
  <2>2. [req[d] EXCEPT !.alive = FALSE] \in ActiveRequest
    BY <2>1 DEF ActiveRequest
  <2> QED BY <1>11, <2>2 DEF KillTransaction
<1>12. ASSUME NEW d \in Requests, AbortRequest(d) PROVE TypeOK'
  BY <1>12 DEF AbortRequest, Fault
<1>13. ASSUME NEW i \in Intents, NEW r \in Releasers, Claim(i, r) PROVE TypeOK'
  BY <1>13, ReleaserStepType DEF Claim, ReleaseSteps, HoldsClaim, Statuses, Live
<1>14. ASSUME NEW i \in Intents, NEW r \in Releasers, LoadApproval(i, r) PROVE TypeOK'
  BY <1>14, ReleaserStepType DEF LoadApproval, ReleaseSteps, HoldsClaim
<1>15. ASSUME NEW i \in Intents, NEW to \in {"completed", "failed"}, NEW code \in ErrorCodes,
              NEW executed \in BOOLEAN, Transition(i, to, code, executed),
              rel' \in [Intents -> [Releasers -> ReleaseSteps]],
              slot' = slot, taken' \in SUBSET Intents
       PROVE TypeOK'
  <2>1. UNCHANGED <<clockVars, envVars, faults, requester, decidedBy, outbox, approval,
                    resolved, req, reaping, claimedBy, runs, publishVars>>
    BY <1>15 DEF Transition
  <2>2. CASE status[i] = "executing"
    <3>1. status' = [status EXCEPT ![i] = to]
      BY <1>15, <2>2 DEF Transition
    <3>2. errorCode' = [errorCode EXCEPT ![i] = code]
      BY <1>15, <2>2 DEF Transition
    <3>3. executedAt' = [executedAt EXCEPT ![i] = IF executed THEN TRUE ELSE @]
      BY <1>15, <2>2 DEF Transition
    <3>4. status' \in [Intents -> Statuses]
      BY <3>1 DEF Statuses, Terminal
    <3>5. executedAt' \in [Intents -> BOOLEAN]
      BY <3>3
    <3> QED BY <1>15, <2>1, <3>2, <3>4, <3>5
  <2>3. CASE status[i] # "executing"
    BY <1>15, <2>1, <2>3 DEF Transition
  <2> QED BY <2>2, <2>3
<1>16. ASSUME NEW i \in Intents, NEW r \in Releasers, RunTool(i, r) PROVE TypeOK'
  BY <1>16, ReleaserStepType DEF RunTool, ReleaseSteps, HoldsClaim
<1>17. ASSUME NEW i \in Intents, NEW r \in Deliveries, CrashDelivery(i, r) PROVE TypeOK'
  <2>1. rel' \in [Intents -> [Releasers -> ReleaseSteps]]
    BY <1>17, ReleaserStepType DEF CrashDelivery, ReleaseSteps, Releasers
  <2> QED BY <1>17, <2>1 DEF CrashDelivery, Fault
<1>18. ASSUME BeginReap PROVE TypeOK'
  BY <1>18 DEF BeginReap
<1>19. ASSUME CommitReap PROVE TypeOK'
  BY <1>19 DEF CommitReap, Statuses, Terminal, Withdrawn, RowStatuses
<1>20. ASSUME AbortReap PROVE TypeOK'
  BY <1>20 DEF AbortReap, Fault
<1>21. ASSUME NEW i \in Intents, ReapStaleExecuting(i) PROVE TypeOK'
  BY <1>21 DEF ReapStaleExecuting, Statuses, Terminal, ErrorCodes
<1>22. ASSUME NEW i \in Intents, ReapExpiredApprovals(i) PROVE TypeOK'
  BY <1>22 DEF ReapExpiredApprovals, RowStatuses
<1>23. ASSUME NEW i \in Intents, PassDeadline(i) PROVE TypeOK'
  BY <1>23 DEF PassDeadline
<1>24. ASSUME NEW i \in Intents, PassStaleTimeout(i) PROVE TypeOK'
  BY <1>24 DEF PassStaleTimeout
<1>25. ASSUME NEW i \in Intents, NEW r \in Releasers, StopWaiting(i, r) PROVE TypeOK'
  BY <1>25, ReleaserStepType DEF StopWaiting, ReleaseSteps
<1>26. ASSUME NEW u \in Users, ChangeRole(u) PROVE TypeOK'
  BY <1>26 DEF ChangeRole
<1>27. CASE UNCHANGED vars
  BY <1>27 DEF vars
<1>31. ASSUME NEW i \in Intents, NEW s \in Sessions, AuthorizeCall(i, s) PROVE TypeOK'
  BY <1>31, ReleaserStepType DEF AuthorizeCall, ReleaseSteps, HoldsClaim, Releasers
<1>32. ASSUME NEW i \in Intents, NEW s \in Sessions, EndCall(i, s) PROVE TypeOK'
  BY <1>32, ReleaserStepType DEF EndCall, ReleaseSteps, Releasers
<1>33. ASSUME NEW i \in Intents, NEW s \in Sessions, SealedHook(i, s) PROVE TypeOK'
  BY <1>33, ReleaserStepType DEF SealedHook, ReleaseSteps, Releasers
<1>34. ASSUME NEW s \in Sessions, PostToolHook(s) PROVE TypeOK'
  BY <1>34 DEF PostToolHook
<1>35. ASSUME NEW i \in Intents, SettleFails(i) PROVE TypeOK'
  BY <1>35 DEF SettleFails, Fault
<1>36. ASSUME NEW s \in Sessions, CrashSession(s) PROVE TypeOK'
  <2>1. rel' \in [Intents -> [Releasers -> ReleaseSteps]]
    BY <1>36 DEF CrashSession, ReleaseSteps
  <2> QED BY <1>36, <2>1 DEF CrashSession, Fault
<1>37. ASSUME NEW p \in Publishers, ClaimOutboxRows(p) PROVE TypeOK'
  <2>1. \A i \in Intents : Unpublished(i) => attempts[i] + 1 \in 0 .. MaxPublishAttempts + 1
    BY DEF Unpublished
  <2>2. attempts' \in [Intents -> 0 .. MaxPublishAttempts + 1]
    BY <1>37, <2>1 DEF ClaimOutboxRows
  <2> QED BY <1>37, <2>2 DEF ClaimOutboxRows
<1>38. ASSUME NEW p \in Publishers, NEW i \in Intents, EnqueueRow(p, i) PROVE TypeOK'
  BY <1>38 DEF EnqueueRow
<1>39. ASSUME NEW p \in Publishers, NEW i \in Intents, EnqueueFails(p, i) PROVE TypeOK'
  BY <1>39 DEF EnqueueFails, Fault
<1>40. ASSUME NEW p \in Publishers, MarkPublished(p) PROVE TypeOK'
  BY <1>40 DEF MarkPublished
<1>41. ASSUME NEW p \in Publishers, CrashPublisher(p) PROVE TypeOK'
  BY <1>41 DEF CrashPublisher, Fault
<1>43. ASSUME NEW i \in Intents, SettleTaken(i) PROVE TypeOK'
  <2>1. UNCHANGED <<rel, slot>> /\ taken' \in SUBSET Intents
    BY <1>43 DEF SettleTaken
  <2> QED BY <1>43, <2>1, <1>15 DEF SettleTaken, ErrorCodes
<1> HIDE DEF TypeOK, intentVars, clockVars, envVars, releaseVars, publishVars
<1>42. ASSUME NEW i \in Intents, NEW r \in Releasers,
              NEW to \in {"completed", "failed"}, NEW code \in ErrorCodes,
              NEW executed \in BOOLEAN, Finish(i, r, to, code, executed)
       PROVE TypeOK'
  <2>1. rel' \in [Intents -> [Releasers -> ReleaseSteps]]
    BY <1>42, ReleaserStepType DEF Finish, ReleaseSteps, TypeOK
  <2>2. slot' = slot /\ taken' \in SUBSET Intents
    BY <1>42 DEF Finish, TypeOK
  <2>3. Transition(i, to, code, executed)
    BY <1>42 DEF Finish
  <2> QED BY <2>1, <2>2, <2>3, <1>15, Zenon
<1>28. ASSUME NEW i \in Intents, NEW r \in Releasers, Release(i, r) PROVE TypeOK'
  BY <1>28, <1>13, <1>14, <1>42, <1>16, <1>25
  DEF Release, RefuseRelease, ErrorCodes
<1>44. ASSUME NEW i \in Intents, NEW r \in Deliveries, Deliver(i, r) PROVE TypeOK'
  <2>1. r \in Releasers
    BY DEF Releasers
  <2> QED BY <1>44, <2>1, <1>42, <1>17 DEF Deliver, RecordOutcome, ErrorCodes
<1>45. CASE Hooks
  BY <1>45, <1>34, <1>35, <1>36, <1>43 DEF Hooks
<1>46. ASSUME NEW p \in Publishers, Publish(p) PROVE TypeOK'
  BY <1>46, <1>37, <1>38, <1>39, <1>40, <1>41 DEF Publish
<1>47. ASSUME NEW i \in Intents, NEW s \in Sessions, Call(i, s) PROVE TypeOK'
  BY <1>47, <1>31, <1>32, <1>33 DEF Call
<1>29. ASSUME NEW d \in Requests, Approvals(d) PROVE TypeOK'
  BY <1>29, <1>5, <1>6, <1>7, <1>8, <1>9, <1>10, <1>11, <1>12 DEF Approvals
<1>30. ASSUME NEW i \in Intents, Service(i) PROVE TypeOK'
  BY <1>30, <1>1, <1>2, <1>3, <1>4 DEF Service
<1> QED BY <1>18, <1>19, <1>20, <1>21, <1>22, <1>23, <1>24, <1>26, <1>27,
           <1>28, <1>29, <1>30, <1>44, <1>45, <1>46, <1>47
        DEF Next, Sweeps, Environment

\* Type correctness of the approval layer.
THEOREM TypeCorrect == Spec => []TypeOK
<1>1. Init => TypeOK
  BY BoundsAssumption
  DEF Init, TypeOK, Statuses, RowStatuses, ReleaseSteps, ErrorCodes, NotResolved
<1>2. TypeOK /\ [Next]_vars => TypeOK'
  BY TypeInductive
<1> QED BY <1>1, <1>2, PTL DEF Spec

-----------------------------------------------------------------------------
(* Row locks.  Every action that changes an intent row either finds it      *)
(* unlocked or is the holder's own.                                        *)

\* A step that leaves statuses alone, and neither begins a fan-in nor a sweep,
\* keeps LockInv.
LEMMA LockFrame ==
    ASSUME LockInv, UNCHANGED status, reaping' \subseteq reaping,
           \A d \in Requests : req'[d].step = "deciding" =>
               req[d].step = "deciding" /\ req'[d].intent = req[d].intent
    PROVE  LockInv'
BY DEF LockInv

\* So does a step that changes the status of an unlocked intent only.
LEMMA LockUnlocked ==
    ASSUME TypeOK, LockInv, NEW i \in Intents, ~IntentLocked(i),
           \A j \in Intents \ {i} : status'[j] = status[j],
           UNCHANGED <<req, reaping>>
    PROVE  LockInv'
<1>1. \A d \in Requests : req[d].step = "deciding" => req[d].intent \in Intents \ {i}
  BY RequestType DEF IntentLocked, ActiveRequest
<1>2. i \notin reaping /\ reaping \subseteq Intents
  BY DEF IntentLocked, TypeOK
<1> QED BY <1>1, <1>2 DEF LockInv

\* Every action respects the row locks.
LEMMA LockInductive ==
    ASSUME TypeOK, LockInv, [Next]_vars
    PROVE  LockInv'
<1> USE DEF intentVars
<1>1. ASSUME NEW i \in Intents, ResolveIntentApprovers(i) PROVE LockInv'
  BY <1>1, LockFrame DEF ResolveIntentApprovers
<1>2. ASSUME NEW i \in Intents, NEW u \in Users, NEW caller \in Callers,
             CreateActionIntent(i, u, caller)
      PROVE LockInv'
  <2>1. ~IntentLocked(i)
    BY <1>2 DEF CreateActionIntent, IntentLocked, LockInv
  <2> QED BY <1>2, <2>1, LockUnlocked DEF CreateActionIntent, TypeOK
<1>3. ASSUME NEW i \in Intents, NEW caller \in Callers, ReplayActionIntent(i, caller)
      PROVE LockInv'
  BY <1>3, LockFrame DEF ReplayActionIntent
<1>4. ASSUME NEW i \in Intents, CancelActionIntent(i) PROVE LockInv'
  BY <1>4, LockUnlocked DEF CancelActionIntent, TypeOK
<1>5. ASSUME NEW d \in Requests, NEW i \in Intents, NEW u \in Users, NEW v \in Verdicts,
             ReadApproval(d, i, u, v)
      PROVE LockInv'
  BY <1>5, LockFrame DEF ReadApproval, TypeOK
<1>6. ASSUME NEW d \in Requests, WriteOwnRow(d) PROVE LockInv'
  <2>1. req[d] \in ActiveRequest
    BY <1>6, RequestType DEF WriteOwnRow
  <2>2. req'[d].step # "deciding"
    BY <1>6, <2>1 DEF WriteOwnRow, TypeOK, NoRequest, ActiveRequest
  <2>3. \A e \in Requests \ {d} : req'[e] = req[e]
    BY <1>6 DEF WriteOwnRow, TypeOK
  <2> QED BY <1>6, <2>2, <2>3, LockFrame DEF WriteOwnRow
<1>7. ASSUME NEW d \in Requests, FanInCas(d) PROVE LockInv'
  <2>1. req[d] \in ActiveRequest
    BY <1>7, RequestType DEF FanInCas
  <2>2. \A e \in Requests \ {d} : req'[e] = req[e]
    BY <1>7 DEF FanInCas, TypeOK
  <2>3. req'[d].intent = req[d].intent
    BY <1>7, <2>1 DEF FanInCas, TypeOK, ActiveRequest
  <2>4. req'[d].step = "deciding" => status[req[d].intent] = "pending_approval"
    BY <1>7, <2>1 DEF FanInCas, TypeOK, ActiveRequest
  <2>5. req[d].intent \notin reaping
    BY <1>7 DEF FanInCas, IntentLocked
  <2>6. \A e \in Requests : req[e].step = "deciding" => req[e].intent # req[d].intent
    BY <1>7 DEF FanInCas, IntentLocked
  <2>7. UNCHANGED <<status, reaping>>
    BY <1>7 DEF FanInCas
  <2> QED BY <2>2, <2>3, <2>4, <2>5, <2>6, <2>7 DEF LockInv
<1>8. ASSUME NEW d \in Requests, FanInCommit(d) PROVE LockInv'
  <2>1. req[d] \in ActiveRequest /\ req[d].intent \in Intents
    BY <1>8, RequestType DEF FanInCommit, ActiveRequest
  <2>2. req'[d].step # "deciding" /\ \A e \in Requests \ {d} : req'[e] = req[e]
    BY <1>8, <2>1 DEF FanInCommit, TypeOK, ActiveRequest
  <2>3. \A j \in Intents : j # req[d].intent => status'[j] = status[j]
    BY <1>8, <2>1 DEF FanInCommit, TypeOK
  <2>4. req[d].intent \notin reaping /\ reaping \subseteq Intents
    BY <1>8 DEF FanInCommit, LockInv, TypeOK
  <2>5. \A e \in Requests \ {d} : req[e].step = "deciding" =>
            req[e].intent \in Intents /\ req[e].intent # req[d].intent
    BY <1>8, RequestType DEF FanInCommit, LockInv, ActiveRequest
  <2>6. UNCHANGED reaping
    BY <1>8 DEF FanInCommit
  <2> QED BY <2>2, <2>3, <2>4, <2>5, <2>6 DEF LockInv
<1>9. ASSUME NEW d \in Requests, NEW s \in {"written", "closing"},
             req[d].step # "idle",
             req' = [req EXCEPT ![d].step = s],
             UNCHANGED <<status, reaping>>
      PROVE LockInv'
  <2>1. req[d] \in ActiveRequest
    BY <1>9, RequestType
  <2>2. req'[d].step # "deciding" /\ \A e \in Requests \ {d} : req'[e] = req[e]
    BY <1>9, <2>1 DEF TypeOK, ActiveRequest
  <2> QED BY <1>9, <2>2, LockFrame
<1>10. ASSUME NEW d \in Requests, FanInFail(d) PROVE LockInv'
  BY <1>10, <1>9 DEF FanInFail
<1>11. ASSUME NEW d \in Requests, req' = [req EXCEPT ![d] = NoRequest],
              UNCHANGED <<status, reaping>>
       PROVE LockInv'
  BY <1>11, LockFrame DEF TypeOK, NoRequest
<1>12. ASSUME NEW d \in Requests, KillTransaction(d) PROVE LockInv'
  <2>1. req[d] \in ActiveRequest
    BY <1>12, RequestType DEF KillTransaction
  <2>2. req'[d].step = req[d].step /\ req'[d].intent = req[d].intent
    BY <1>12, <2>1 DEF KillTransaction, TypeOK, ActiveRequest
  <2>3. \A e \in Requests \ {d} : req'[e] = req[e]
    BY <1>12 DEF KillTransaction, TypeOK
  <2> QED BY <1>12, <2>2, <2>3, LockFrame DEF KillTransaction
<1>13. ASSUME NEW i \in Intents, NEW r \in Releasers, Claim(i, r) PROVE LockInv'
  BY <1>13, LockUnlocked DEF Claim, TypeOK
<1>14. ASSUME NEW i \in Intents, NEW to, NEW code, NEW executed,
              Transition(i, to, code, executed)
       PROVE LockInv'
  BY <1>14, LockUnlocked DEF Transition, TypeOK
<1>15. ASSUME BeginReap PROVE LockInv'
  <2>1. \A i \in reaping' : Due(i)
    BY <1>15 DEF BeginReap
  <2> QED BY <1>15, <2>1 DEF BeginReap, Due, IntentLocked, LockInv
<1>16. ASSUME CommitReap PROVE LockInv'
  <2>1. \A d \in Requests : req[d].step = "deciding" =>
            req[d].intent \in Intents \ reaping
    BY RequestType DEF LockInv, ActiveRequest
  <2> QED BY <1>16, <2>1 DEF CommitReap, LockInv
<1>17. ASSUME NEW i \in Intents, ReapStaleExecuting(i) PROVE LockInv'
  BY <1>17, LockUnlocked DEF ReapStaleExecuting, TypeOK
<1>18. ASSUME UNCHANGED <<status, req>>, reaping' \subseteq reaping PROVE LockInv'
  BY <1>18, LockFrame
<1> HIDE DEF intentVars
<1>19. ASSUME NEW i \in Intents, Service(i) PROVE LockInv'
  BY <1>19, <1>1, <1>2, <1>3, <1>4 DEF Service
<1>20. ASSUME NEW d \in Requests, Approvals(d) PROVE LockInv'
  <2>1. CASE CommitRequest(d) \/ AbortRequest(d)
    BY <2>1, <1>11 DEF CommitRequest, AbortRequest, intentVars
  <2> QED BY <1>20, <2>1, <1>5, <1>6, <1>7, <1>8, <1>10, <1>12 DEF Approvals
<1>21. ASSUME NEW i \in Intents, NEW r \in Releasers, Release(i, r) PROVE LockInv'
  <2>1. CASE StopWaiting(i, r) \/ LoadApproval(i, r) \/ RunTool(i, r)
    BY <2>1, <1>18 DEF StopWaiting, LoadApproval, RunTool, intentVars
  <2> QED BY <1>21, <2>1, <1>13, <1>14 DEF Release, RefuseRelease, Finish
<1>22. ASSUME Sweeps PROVE LockInv'
  <2>1. CASE AbortReap
    BY <2>1, <1>18 DEF AbortReap, intentVars
  <2>2. ASSUME NEW i \in Intents, ReapExpiredApprovals(i) PROVE LockInv'
    BY <2>2, <1>18 DEF ReapExpiredApprovals, intentVars
  <2> QED BY <1>22, <2>1, <2>2, <1>15, <1>16, <1>17 DEF Sweeps
<1>23. ASSUME Environment PROVE LockInv'
  BY <1>23, <1>18
  DEF Environment, PassDeadline, PassStaleTimeout, ChangeRole, intentVars
<1>24. CASE UNCHANGED vars
  BY <1>24, <1>18 DEF vars, intentVars
<1>25. ASSUME NEW i \in Intents, NEW r \in Deliveries, Deliver(i, r) PROVE LockInv'
  BY <1>25, <1>14, <1>18 DEF Deliver, RecordOutcome, Finish, CrashDelivery, intentVars
<1>26. ASSUME NEW i \in Intents, NEW s \in Sessions, Call(i, s) PROVE LockInv'
  BY <1>26, <1>18 DEF Call, AuthorizeCall, EndCall, SealedHook, intentVars
<1>27. ASSUME Hooks PROVE LockInv'
  BY <1>27, <1>14, <1>18
  DEF Hooks, SettleTaken, SettleFails, PostToolHook, CrashSession, intentVars
<1>28. ASSUME NEW p \in Publishers, Publish(p) PROVE LockInv'
  BY <1>28, <1>18 DEF Publish, ClaimOutboxRows, EnqueueRow, EnqueueFails, MarkPublished,
     CrashPublisher, intentVars
<1> QED BY <1>19, <1>20, <1>21, <1>22, <1>23, <1>24, <1>25, <1>26, <1>27, <1>28 DEF Next

-----------------------------------------------------------------------------
(* At-most-once release.  ReleaseOK(i) only speaks of the row's outcome, the *)
(* releasers, the slots and the history of claims and runs.                 *)

claimState == <<status, errorCode, executedAt, rel, releaseVars>>

\* A step that leaves those variables alone keeps ReleaseInv.
LEMMA ReleaseFrame ==
    ASSUME ReleaseInv, UNCHANGED claimState
    PROVE  ReleaseInv'
BY DEF ReleaseInv, ReleaseOK, Lost, claimState, releaseVars

\* A releaser is not None.
LEMMA ReleaserIsSome ==
    ASSUME NEW r \in Releasers
    PROVE  r # None
BY NoneAssumption DEF Releasers

\* ReleaseOK(j) does not see what a step does to other intents.
LEMMA OtherIntent ==
    ASSUME NEW j \in Intents, ReleaseOK(j),
           status'[j] = status[j], errorCode'[j] = errorCode[j],
           executedAt'[j] = executedAt[j], claimedBy'[j] = claimedBy[j],
           runs'[j] = runs[j],
           \A r \in Releasers : \/ rel'[j][r] = rel[j][r]
                                \/ rel'[j][r] \in {"idle", "waiting"},
           \A s \in Sessions : slot'[s] = j => slot[s] = j,
           j \in taken' => j \in taken \/ \E s \in Sessions : slot[s] = j
    PROVE  ReleaseOK(j)'
<1>1. \A r \in Releasers : rel'[j][r] \in HoldsClaim => rel'[j][r] = rel[j][r]
  BY DEF HoldsClaim
<1>2. j \in taken' => claimedBy[j] \in Sessions
  BY DEF ReleaseOK
<1>3. \A r \in Releasers :
        /\ rel'[j][r] \in HoldsClaim =>
              /\ claimedBy'[j] = r
              /\ \/ status'[j] = "executing" \/ Lost(j)' \/ (r \in Sessions /\ executedAt'[j])
        /\ rel'[j][r] \in HoldsClaim \ {"running"} => runs'[j] = 0
        /\ rel'[j][r] = "running" => runs'[j] = 1
  BY <1>1 DEF ReleaseOK, Lost, HoldsClaim
<1> QED BY <1>2, <1>3 DEF ReleaseOK, Lost

\* ReleaseOK survives a withdrawal or decision that no releaser can have
\* overtaken: the intent has not been claimed, so nothing has run and nobody
\* knows of it.
LEMMA ReleaseUnclaimed ==
    ASSUME TypeOK, ReleaseInv, NEW i \in Intents, status[i] \notin Begun
    PROVE  /\ runs[i] = 0 /\ ~executedAt[i] /\ claimedBy[i] = None
           /\ i \notin taken
           /\ \A s \in Sessions : slot[s] # i
           /\ \A r \in Releasers : rel[i][r] \notin HoldsClaim
<1>1. ReleaseOK(i) /\ claimedBy[i] = None
  BY DEF ReleaseInv, ReleaseOK
<1>2. \A s \in Sessions : s \in Releasers
  BY DEF Releasers
<1> QED BY <1>1, <1>2, ReleaserIsSome DEF ReleaseOK, Begun

\* What an intent that is not claimed needs.
LEMMA UnclaimedOK ==
    ASSUME NEW i \in Intents, status'[i] \notin Begun, runs'[i] = 0, ~executedAt'[i],
           claimedBy'[i] = None, i \notin taken', \A s \in Sessions : slot'[s] # i,
           \A r \in Releasers : rel'[i][r] \notin HoldsClaim
    PROVE  ReleaseOK(i)'
BY DEF ReleaseOK, Begun, HoldsClaim

\* Settling on behalf of a holder, or of a session's hook.
LEMMA TransitionKeeps ==
    ASSUME TypeOK, ReleaseInv, NEW i \in Intents,
           NEW to \in {"completed", "failed"}, NEW code \in ErrorCodes \ {"execution_lost"},
           NEW executed \in BOOLEAN,
           Transition(i, to, code, executed), slot' = slot, taken' \subseteq taken,
           \A j \in Intents, r \in Releasers :
               rel'[j][r] = rel[j][r] \/ rel'[j][r] = "idle",
           executed => runs[i] = 1 \/ claimedBy[i] \in Sessions,
           executed /\ status[i] = "executing" =>
               \A r \in Releasers : rel'[i][r] \in HoldsClaim => r \in Sessions,
           ~executed => /\ to = "failed"
                        /\ status[i] = "executing" => runs[i] = 0
                        /\ \A r \in Releasers : rel'[i][r] \notin HoldsClaim
    PROVE  ReleaseInv'
<1>0. UNCHANGED <<claimedBy, runs>>
  BY DEF Transition
<1>1. ASSUME NEW j \in Intents, j # i \/ status[i] # "executing" PROVE ReleaseOK(j)'
  <2>1. status'[j] = status[j] /\ errorCode'[j] = errorCode[j] /\ executedAt'[j] = executedAt[j]
    BY <1>1 DEF Transition, TypeOK
  <2> QED BY <1>0, <2>1, OtherIntent DEF ReleaseInv
<1>2. CASE status[i] = "executing"
  <2>1. status'[i] = to /\ errorCode'[i] = code
    BY <1>2 DEF Transition, TypeOK
  <2>2. executed => executedAt'[i]
    BY <1>2 DEF Transition, TypeOK
  <2>3. ~executed => executedAt'[i] = executedAt[i]
    BY <1>2 DEF Transition, TypeOK
  <2>4. ReleaseOK(i) /\ ~executedAt[i] /\ claimedBy[i] # None
    BY <1>2 DEF ReleaseInv, ReleaseOK, Begun
  <2>5. \A r \in Releasers : rel'[i][r] \in HoldsClaim => rel'[i][r] = rel[i][r]
    BY DEF HoldsClaim
  <2>6. \A r \in Releasers :
          /\ rel'[i][r] \in HoldsClaim =>
                /\ claimedBy'[i] = r
                /\ \/ status'[i] = "executing" \/ Lost(i)' \/ (r \in Sessions /\ executedAt'[i])
          /\ rel'[i][r] \in HoldsClaim \ {"running"} => runs'[i] = 0
          /\ rel'[i][r] = "running" => runs'[i] = 1
    <3> SUFFICES ASSUME NEW r \in Releasers, rel'[i][r] \in HoldsClaim
                 PROVE  /\ claimedBy'[i] = r
                        /\ r \in Sessions /\ executedAt'[i]
                        /\ rel'[i][r] # "running" => runs'[i] = 0
                        /\ rel'[i][r] = "running" => runs'[i] = 1
      BY DEF HoldsClaim
    <3>1. executed
      OBVIOUS
    <3> QED BY <1>0, <1>2, <2>2, <2>4, <2>5, <3>1 DEF ReleaseOK
  <2>7. ReleaseOK(i)'
    <3>1. CASE executed
      BY <1>0, <2>1, <2>2, <2>4, <2>6, <3>1 DEF ReleaseOK, Begun
    <3>2. CASE ~executed
      BY <1>0, <1>2, <2>1, <2>3, <2>4, <2>6, <3>2 DEF ReleaseOK, Begun
    <3> QED BY <3>1, <3>2
  <2> QED BY <1>1, <2>7 DEF ReleaseInv
<1> QED BY <1>1, <1>2 DEF ReleaseInv

\* Every action keeps the claim exclusive and its record truthful.
LEMMA ReleaseInductive ==
    ASSUME TypeOK, LockInv, ReleaseInv, [Next]_vars
    PROVE  ReleaseInv'
<1>1. ASSUME NEW i \in Intents, NEW u \in Users, NEW caller \in Callers,
             CreateActionIntent(i, u, caller)
      PROVE ReleaseInv'
  <2>0. UNCHANGED <<executedAt, slot, taken, claimedBy, runs>>
    BY <1>1 DEF CreateActionIntent, releaseVars
  <2>1. /\ runs[i] = 0 /\ ~executedAt[i] /\ claimedBy[i] = None /\ i \notin taken
        /\ \A s \in Sessions : slot[s] # i
        /\ \A r \in Releasers : rel[i][r] \notin HoldsClaim
    BY <1>1, ReleaseUnclaimed DEF CreateActionIntent, Begun
  <2>2. ASSUME NEW j \in Intents, j # i PROVE ReleaseOK(j)'
    <3>1. status'[j] = status[j] /\ errorCode'[j] = errorCode[j] /\ rel'[j] = rel[j]
      BY <1>1, <2>2 DEF CreateActionIntent, StartWaiting, TypeOK
    <3> QED BY <2>0, <3>1, OtherIntent DEF ReleaseInv
  <2>3. \A r \in Releasers : rel'[i][r] \notin HoldsClaim
    BY <1>1, <2>1 DEF CreateActionIntent, StartWaiting, TypeOK, HoldsClaim
  <2>4. status'[i] \notin Begun
    BY <1>1 DEF CreateActionIntent, TypeOK, Begun
  <2>5. ReleaseOK(i)'
    BY <2>0, <2>1, <2>3, <2>4, UnclaimedOK
  <2> QED BY <2>2, <2>5 DEF ReleaseInv
<1>2. ASSUME NEW i \in Intents, NEW to \in Withdrawn \cup {"approved"},
             status[i] \in {"pending_approval", "approved"},
             status' = [status EXCEPT ![i] = to],
             UNCHANGED <<errorCode, executedAt, rel, releaseVars>>
      PROVE ReleaseInv'
  <2>0. UNCHANGED <<slot, taken, claimedBy, runs>>
    BY <1>2 DEF releaseVars
  <2>1. /\ runs[i] = 0 /\ ~executedAt[i] /\ claimedBy[i] = None /\ i \notin taken
        /\ \A s \in Sessions : slot[s] # i
        /\ \A r \in Releasers : rel[i][r] \notin HoldsClaim
    BY <1>2, ReleaseUnclaimed DEF Begun
  <2>2. status'[i] \notin Begun
    BY <1>2 DEF TypeOK, Begun, Withdrawn
  <2>3. ReleaseOK(i)'
    BY <1>2, <2>0, <2>1, <2>2, UnclaimedOK
  <2>4. ASSUME NEW j \in Intents, j # i PROVE ReleaseOK(j)'
    <3>1. status'[j] = status[j]
      BY <1>2, <2>4 DEF TypeOK
    <3> QED BY <1>2, <2>0, <3>1, OtherIntent DEF ReleaseInv
  <2> QED BY <2>3, <2>4 DEF ReleaseInv
<1>3. ASSUME NEW i \in Intents, CancelActionIntent(i) PROVE ReleaseInv'
  BY <1>3, <1>2 DEF CancelActionIntent, Withdrawn
<1>5. ASSUME NEW i \in Intents, NEW r \in Releasers, Claim(i, r) PROVE ReleaseInv'
  <2>0. UNCHANGED <<errorCode, executedAt, slot, taken, runs>>
    BY <1>5 DEF Claim
  <2>1. /\ runs[i] = 0 /\ ~executedAt[i] /\ i \notin taken
        /\ \A s \in Sessions : slot[s] # i
        /\ \A s \in Releasers : rel[i][s] \notin HoldsClaim
    BY <1>5, ReleaseUnclaimed DEF Claim, Claimable, Begun
  <2>2. \A s \in Releasers : rel'[i][s] = IF s = r THEN "won" ELSE rel[i][s]
    BY <1>5 DEF Claim, TypeOK
  <2>3. status'[i] = "executing" /\ claimedBy'[i] = r /\ r # None
    BY <1>5, ReleaserIsSome DEF Claim, TypeOK
  <2>4. ReleaseOK(i)'
    BY <2>0, <2>1, <2>2, <2>3 DEF ReleaseOK, Begun, HoldsClaim
  <2>5. ASSUME NEW j \in Intents, j # i PROVE ReleaseOK(j)'
    <3>1. status'[j] = status[j] /\ claimedBy'[j] = claimedBy[j] /\ rel'[j] = rel[j]
      BY <1>5, <2>5 DEF Claim, TypeOK
    <3> QED BY <2>0, <3>1, OtherIntent DEF ReleaseInv
  <2> QED BY <2>4, <2>5 DEF ReleaseInv
<1>6. ASSUME NEW i \in Intents, NEW r \in Releasers,
             rel[i][r] \in HoldsClaim \ {"running"},
             NEW to \in HoldsClaim \ {"running"}, rel' = [rel EXCEPT ![i][r] = to],
             UNCHANGED <<status, errorCode, executedAt, taken, claimedBy, runs>>,
             \A s \in Sessions : slot'[s] = slot[s] \/ (s = r /\ slot'[s] = i)
      PROVE ReleaseInv'
  <2>1. \A s \in Releasers : rel'[i][s] = IF s = r THEN to ELSE rel[i][s]
    BY <1>6 DEF TypeOK
  <2>2. claimedBy[i] = r /\ runs[i] = 0
    BY <1>6 DEF ReleaseInv, ReleaseOK
  <2>3. ReleaseOK(i)'
    <3>1. \A s \in Releasers :
        /\ rel'[i][s] \in HoldsClaim =>
              /\ claimedBy[i] = s
              /\ status[i] = "executing" \/ Lost(i) \/ (s \in Sessions /\ executedAt[i])
        /\ rel'[i][s] \in HoldsClaim \ {"running"} => runs[i] = 0
        /\ rel'[i][s] = "running" => runs[i] = 1
      BY <1>6, <2>1, <2>2 DEF ReleaseInv, ReleaseOK
    <3>2. \A s \in Sessions : slot'[s] = i => claimedBy[i] = s
      BY <1>6, <2>2 DEF ReleaseInv, ReleaseOK
    <3> QED BY <1>6, <3>1, <3>2 DEF ReleaseInv, ReleaseOK, Lost
  <2>4. ASSUME NEW j \in Intents, j # i PROVE ReleaseOK(j)'
    <3>1. rel'[j] = rel[j]
      BY <1>6, <2>4 DEF TypeOK
    <3> QED BY <1>6, <2>4, <3>1, OtherIntent DEF ReleaseInv
  <2> QED BY <2>3, <2>4 DEF ReleaseInv
<1>7. ASSUME NEW i \in Intents, NEW r \in Releasers, RunTool(i, r) PROVE ReleaseInv'
  <2>0. UNCHANGED <<status, errorCode, executedAt, slot, taken, claimedBy>>
    BY <1>7 DEF RunTool, intentVars
  <2>1. \A s \in Releasers : rel'[i][s] = IF s = r THEN "running" ELSE rel[i][s]
    BY <1>7 DEF RunTool, TypeOK
  <2>2. rel[i][r] \in HoldsClaim \ {"running"}
    BY <1>7 DEF RunTool, HoldsClaim
  <2>3. ReleaseOK(i) /\ claimedBy[i] = r /\ runs[i] = 0 /\ r # None
    BY <2>2, ReleaserIsSome DEF ReleaseInv, ReleaseOK
  <2>4. runs'[i] = 1
    BY <1>7, <2>3 DEF RunTool, TypeOK
  <2>5. ~(status[i] = "failed" /\ ~executedAt[i] /\ errorCode[i] # "execution_lost")
    BY <2>2, <2>3 DEF ReleaseOK, Lost
  <2>6. \A s \in Releasers :
        /\ rel'[i][s] \in HoldsClaim =>
              /\ claimedBy[i] = s
              /\ status[i] = "executing" \/ Lost(i) \/ (s \in Sessions /\ executedAt[i])
        /\ rel'[i][s] \notin HoldsClaim \ {"running"}
    BY <2>1, <2>2, <2>3 DEF ReleaseOK
  <2>7. ReleaseOK(i)'
    BY <2>0, <2>3, <2>4, <2>5, <2>6 DEF ReleaseOK, Lost
  <2>8. ASSUME NEW j \in Intents, j # i PROVE ReleaseOK(j)'
    <3>1. rel'[j] = rel[j] /\ runs'[j] = runs[j]
      BY <1>7, <2>8 DEF RunTool, TypeOK
    <3> QED BY <2>0, <3>1, OtherIntent DEF ReleaseInv
  <2> QED BY <2>7, <2>8 DEF ReleaseInv
<1>8. ASSUME NEW d \in Requests, FanInCommit(d) PROVE ReleaseInv'
  <2>1. req[d].intent \in Intents
    BY <1>8, RequestType DEF FanInCommit, ActiveRequest
  <2>2. status[req[d].intent] = "pending_approval"
    BY <1>8 DEF FanInCommit, LockInv
  <2>3. CASE req[d].verdict = "approved"
    BY <1>8, <2>1, <2>2, <2>3, <1>2 DEF FanInCommit, IntentTargetStatus
  <2>4. CASE req[d].verdict # "approved"
    BY <1>8, <2>1, <2>2, <2>4, <1>2 DEF FanInCommit, IntentTargetStatus, Withdrawn
  <2> QED BY <2>3, <2>4
<1>9. ASSUME NEW i \in Intents, NEW r \in Releasers, rel[i][r] \in HoldsClaim,
             NEW to \in {"completed", "failed"}, NEW code \in ErrorCodes \ {"execution_lost"},
             NEW executed \in BOOLEAN,
             executed => rel[i][r] = "running",
             ~executed => rel[i][r] # "running" /\ to = "failed",
             Finish(i, r, to, code, executed)
      PROVE ReleaseInv'
  <2>1. \A s \in Releasers : rel'[i][s] = IF s = r THEN "idle" ELSE rel[i][s]
    BY <1>9 DEF Finish, TypeOK
  <2>2. \A s \in Releasers : rel'[i][s] \notin HoldsClaim
    BY <1>9, <2>1 DEF ReleaseInv, ReleaseOK, HoldsClaim
  <2>3. runs[i] = IF executed THEN 1 ELSE 0
    BY <1>9 DEF ReleaseInv, ReleaseOK
  <2>4. \A j \in Intents, s \in Releasers : rel'[j][s] = rel[j][s] \/ rel'[j][s] = "idle"
    BY <1>9 DEF Finish, TypeOK
  <2>5. Transition(i, to, code, executed) /\ UNCHANGED <<slot, taken>>
    BY <1>9 DEF Finish
  <2> QED BY <1>9, <2>2, <2>3, <2>4, <2>5, TransitionKeeps
<1>10. ASSUME UNCHANGED <<status, errorCode, executedAt, claimedBy, runs>>,
              \A j \in Intents, r \in Releasers :
                  rel'[j][r] = rel[j][r] \/ rel'[j][r] \in {"idle", "waiting"},
              \A s \in Sessions : slot'[s] = slot[s] \/ slot'[s] = None,
              \A j \in taken' : j \in taken \/ \E s \in Sessions : slot[s] = j
       PROVE ReleaseInv'
  <2> SUFFICES ASSUME NEW j \in Intents PROVE ReleaseOK(j)'
    BY DEF ReleaseInv
  <2>1. j # None
    BY NoneAssumption
  <2> QED BY <1>10, <2>1, OtherIntent DEF ReleaseInv
<1>11. ASSUME CommitReap PROVE ReleaseInv'
  <2>0. UNCHANGED <<errorCode, executedAt, rel, slot, taken, claimedBy, runs>>
    BY <1>11 DEF CommitReap, releaseVars
  <2>1. ASSUME NEW i \in Intents PROVE ReleaseOK(i)'
    <3>1. CASE i \in reaping
      <4>1. status'[i] \notin Begun /\ status[i] \notin Begun
        BY <1>11, <3>1 DEF CommitReap, LockInv, Begun
      <4> QED BY <2>0, <4>1, ReleaseUnclaimed, UnclaimedOK
    <3>2. CASE i \notin reaping
      <4>1. status'[i] = status[i]
        BY <1>11, <3>2 DEF CommitReap
      <4> QED BY <2>0, <4>1, OtherIntent DEF ReleaseInv
    <3> QED BY <3>1, <3>2
  <2> QED BY <2>1 DEF ReleaseInv
<1>12. ASSUME NEW i \in Intents, ReapStaleExecuting(i) PROVE ReleaseInv'
  <2>1. /\ UNCHANGED <<executedAt, rel, slot, taken, claimedBy, runs>>
        /\ status[i] = "executing" /\ ~executedAt[i]
    BY <1>12 DEF ReapStaleExecuting, releaseVars
  <2>2. status'[i] = "failed" /\ errorCode'[i] = "execution_lost"
    BY <1>12 DEF ReapStaleExecuting, TypeOK
  <2>3. ReleaseOK(i)'
    BY <2>1, <2>2 DEF ReleaseInv, ReleaseOK, Lost, Begun
  <2>4. ASSUME NEW j \in Intents, j # i PROVE ReleaseOK(j)'
    <3>1. status'[j] = status[j] /\ errorCode'[j] = errorCode[j]
      BY <1>12, <2>4 DEF ReapStaleExecuting, TypeOK
    <3> QED BY <2>1, <3>1, OtherIntent DEF ReleaseInv
  <2> QED BY <2>3, <2>4 DEF ReleaseInv
<1>13. ASSUME NEW i \in Intents, Service(i) PROVE ReleaseInv'
  <2>1. CASE ResolveIntentApprovers(i)
    BY <2>1, ReleaseFrame DEF ResolveIntentApprovers, intentVars, claimState
  <2>2. ASSUME NEW caller \in Callers, ReplayActionIntent(i, caller) PROVE ReleaseInv'
    <3>1. PICK j \in Intents : rel' = StartWaiting(j, caller)
      BY <2>2 DEF ReplayActionIntent
    <3>2. \A k \in Intents, r \in Releasers :
              rel'[k][r] = rel[k][r] \/ rel'[k][r] \in {"idle", "waiting"}
      BY <3>1 DEF StartWaiting, TypeOK
    <3> QED BY <2>2, <3>2, <1>10 DEF ReplayActionIntent, intentVars, releaseVars
  <2> QED BY <1>13, <2>1, <2>2, <1>1, <1>3 DEF Service
<1>14. ASSUME NEW d \in Requests, Approvals(d) PROVE ReleaseInv'
  <2>1. CASE UNCHANGED <<intentVars, rel, releaseVars>>
    BY <2>1, ReleaseFrame DEF intentVars, claimState
  <2> QED BY <1>14, <2>1, <1>8
          DEF Approvals, ReadApproval, WriteOwnRow, FanInCas, FanInFail, CommitRequest,
              KillTransaction, AbortRequest
<1>15. ASSUME NEW i \in Intents, NEW r \in Releasers, Release(i, r) PROVE ReleaseInv'
  <2>1. CASE RefuseRelease(i, r)
    BY <2>1, <1>9 DEF RefuseRelease, HoldsClaim, ErrorCodes
  <2>2. CASE LoadApproval(i, r)
    <3>1. PICK to \in {"vouched", "unvouched"} : rel' = [rel EXCEPT ![i][r] = to]
      BY <2>2 DEF LoadApproval
    <3> QED BY <2>2, <3>1, <1>6 DEF LoadApproval, HoldsClaim, intentVars, releaseVars
  <2>3. CASE StopWaiting(i, r)
    BY <2>3, <1>10 DEF StopWaiting, intentVars, releaseVars, TypeOK
  <2> QED BY <1>15, <2>1, <2>2, <2>3, <1>5, <1>7 DEF Release
<1>16. ASSUME Sweeps PROVE ReleaseInv'
  <2>1. CASE UNCHANGED <<intentVars, rel, releaseVars>>
    BY <2>1, ReleaseFrame DEF intentVars, claimState
  <2> QED BY <1>16, <2>1, <1>11, <1>12
          DEF Sweeps, BeginReap, AbortReap, ReapExpiredApprovals
<1>17. ASSUME Environment PROVE ReleaseInv'
  <2>1. CASE UNCHANGED <<intentVars, rel, releaseVars>>
    BY <2>1, ReleaseFrame DEF intentVars, claimState
  <2> QED BY <1>17, <2>1 DEF Environment, PassDeadline, PassStaleTimeout, ChangeRole
<1>18. CASE UNCHANGED vars
  BY <1>18, ReleaseFrame DEF vars, intentVars, claimState
<1>19. ASSUME NEW i \in Intents, NEW r \in Deliveries, Deliver(i, r) PROVE ReleaseInv'
  <2>0. r \in Releasers
    BY DEF Releasers
  <2>1. CASE RecordOutcome(i, r)
    BY <2>0, <2>1, <1>9 DEF RecordOutcome, HoldsClaim, ErrorCodes
  <2>2. CASE CrashDelivery(i, r)
    BY <2>0, <2>2, <1>10 DEF CrashDelivery, intentVars, releaseVars, TypeOK
  <2> QED BY <1>19, <2>1, <2>2 DEF Deliver
<1>20. ASSUME NEW i \in Intents, NEW s \in Sessions, Call(i, s) PROVE ReleaseInv'
  <2>0. s \in Releasers
    BY DEF Releasers
  <2>1. CASE AuthorizeCall(i, s)
    <3>1. \A z \in Sessions : slot'[z] = slot[z] \/ (z = s /\ slot'[z] = i)
      BY <2>1 DEF AuthorizeCall, TypeOK
    <3> QED BY <2>0, <2>1, <3>1, <1>6 DEF AuthorizeCall, HoldsClaim, intentVars
  <2>2. CASE EndCall(i, s)
    BY <2>0, <2>2, <1>10 DEF EndCall, intentVars, releaseVars, TypeOK
  <2>3. CASE SealedHook(i, s)
    <3>1. claimedBy[i] = s /\ ReleaseOK(i)
      BY <2>0, <2>3 DEF SealedHook, ReleaseInv, ReleaseOK, HoldsClaim
    <3>2. UNCHANGED <<status, errorCode, executedAt, claimedBy, runs>>
      BY <2>3 DEF SealedHook, intentVars
    <3>3. \A z \in Sessions : slot'[z] = slot[z] \/ slot'[z] = None
      BY <2>3 DEF SealedHook, TypeOK
    <3>4. \A j \in Intents, r \in Releasers : rel'[j][r] = rel[j][r] \/ rel'[j][r] = "idle"
      BY <2>3 DEF SealedHook, TypeOK
    <3>5. taken' = taken \cup {i}
      BY <2>3 DEF SealedHook
    <3>6. ASSUME NEW j \in Intents, j # i PROVE ReleaseOK(j)'
      <4>1. j # None
        BY NoneAssumption
      <4> QED BY <3>2, <3>3, <3>4, <3>5, <3>6, <4>1, OtherIntent DEF ReleaseInv
    <3>7. ReleaseOK(i)'
      <4>1. i # None
        BY NoneAssumption
      <4>2. \A r \in Releasers : rel'[i][r] \in HoldsClaim => rel'[i][r] = rel[i][r]
        BY <3>4 DEF HoldsClaim
      <4>3. \A r \in Releasers : rel'[i][r] = "running" => rel[i][r] = "running"
        BY <3>4
      <4>4. \A z \in Sessions : slot'[z] = i => claimedBy[i] = z
        BY <3>1, <3>3, <4>1 DEF ReleaseOK
      <4>5. \A r \in Releasers :
            /\ rel'[i][r] \in HoldsClaim =>
                  /\ claimedBy[i] = r
                  /\ status[i] = "executing" \/ Lost(i) \/ (r \in Sessions /\ executedAt[i])
            /\ rel'[i][r] \in HoldsClaim \ {"running"} => runs[i] = 0
            /\ rel'[i][r] = "running" => runs[i] = 1
        BY <3>1, <4>2, <4>3 DEF ReleaseOK
      <4> QED BY <3>1, <3>2, <4>4, <4>5 DEF ReleaseOK, Lost
    <3> QED BY <3>6, <3>7 DEF ReleaseInv
  <2> QED BY <1>20, <2>1, <2>2, <2>3 DEF Call
<1>21. ASSUME Hooks PROVE ReleaseInv'
  <2>1. ASSUME NEW i \in Intents, SettleTaken(i) PROVE ReleaseInv'
    <3>1. claimedBy[i] \in Sessions
      BY <2>1 DEF SettleTaken, ReleaseInv, ReleaseOK
    <3>2. \A r \in Releasers : rel[i][r] \in HoldsClaim => r \in Sessions
      BY <3>1 DEF ReleaseInv, ReleaseOK
    <3>3. UNCHANGED <<rel, slot>> /\ taken' \subseteq taken
      BY <2>1 DEF SettleTaken
    <3> QED BY <2>1, <3>1, <3>2, <3>3, TransitionKeeps DEF SettleTaken, ErrorCodes
  <2>2. ASSUME NEW i \in Intents, SettleFails(i) PROVE ReleaseInv'
    BY <2>2, <1>10 DEF SettleFails, intentVars
  <2>3. ASSUME NEW s \in Sessions, PostToolHook(s) PROVE ReleaseInv'
    BY <2>3, <1>10 DEF PostToolHook, intentVars, TypeOK
  <2>4. ASSUME NEW s \in Sessions, CrashSession(s) PROVE ReleaseInv'
    <3>1. \A j \in Intents, r \in Releasers : rel'[j][r] = rel[j][r] \/ rel'[j][r] = "idle"
      BY <2>4 DEF CrashSession, TypeOK
    <3>2. \A z \in Sessions : slot'[z] = slot[z] \/ slot'[z] = None
      BY <2>4 DEF CrashSession, TypeOK
    <3> QED BY <2>4, <3>1, <3>2, <1>10 DEF CrashSession, intentVars
  <2> QED BY <1>21, <2>1, <2>2, <2>3, <2>4 DEF Hooks
<1>22. ASSUME NEW p \in Publishers, Publish(p) PROVE ReleaseInv'
  BY <1>22, ReleaseFrame DEF Publish, ClaimOutboxRows, EnqueueRow, EnqueueFails, MarkPublished,
     CrashPublisher, intentVars, claimState
<1> QED BY <1>13, <1>14, <1>15, <1>16, <1>17, <1>18, <1>19, <1>20, <1>21, <1>22 DEF Next

\* The locks and the release protocol, on every reachable state.
LEMMA ReleaseReachable == Spec => [](TypeOK /\ LockInv /\ ReleaseInv)
<1>1. Init => LockInv /\ ReleaseInv
  BY NoneAssumption DEF Init, LockInv, ReleaseInv, ReleaseOK, Begun, HoldsClaim, NoRequest
<1>2. LockInv /\ ReleaseInv /\ TypeOK /\ [Next]_vars => LockInv' /\ ReleaseInv'
  BY LockInductive, ReleaseInductive
<1> QED BY <1>1, <1>2, TypeCorrect, PTL DEF Spec

\* The tool of an intent is started at most once, whatever deliveries, sessions,
\* sweeps, crashes and roles do.
THEOREM StartedAtMostOnce == Spec => []AtMostOnce
<1>1. ReleaseInv => AtMostOnce
  BY DEF ReleaseInv, ReleaseOK, AtMostOnce
<1> QED BY <1>1, ReleaseReachable, PTL

\* What was rejected, cancelled, expired or not yet claimed has not run.
THEOREM WithdrawnNeverRuns == Spec => []OnlyReleasedRun
<1>1. ReleaseInv => OnlyReleasedRun
  BY DEF ReleaseInv, ReleaseOK, Begun, OnlyReleasedRun
<1> QED BY <1>1, ReleaseReachable, PTL

\* executed_at, the status and the error code tell the truth about a durable release,
\* and a refusal about both kinds: the hooks of a session never reach what a delivery
\* claimed, and whoever refuses has given its claim up.
THEOREM RecordsAreTruthful == Spec => []RecordIsTruthful
<1>1. ReleaseInv => RecordIsTruthful
  BY DEF ReleaseInv, ReleaseOK, RecordIsTruthful
<1> QED BY <1>1, ReleaseReachable, PTL

\* The approved -> executing claim is exclusive until its holder is done.
THEOREM ClaimIsExclusive == Spec => []SingleHolder
<1>1. ReleaseInv => SingleHolder
  BY DEF ReleaseInv, ReleaseOK, SingleHolder
<1> QED BY <1>1, ReleaseReachable, PTL

-----------------------------------------------------------------------------
(* No approval is lost between the fan-in, the outbox and the queue.        *)

\* A step that approves nothing and leaves outbox rows and passes alone.
LEMMA PublishFrame ==
    ASSUME PublishInv, UNCHANGED <<outbox, publishVars>>,
           \A i \in Intents : status'[i] = "approved" => status[i] = "approved"
    PROVE  PublishInv'
BY DEF PublishInv, publishVars

\* A pass marks only what it has enqueued, and approving writes the row.
LEMMA PublishInductive ==
    ASSUME TypeOK, PublishInv, [Next]_vars
    PROVE  PublishInv'
<1>1. ASSUME NEW d \in Requests, FanInCommit(d) PROVE PublishInv'
  <2>1. req[d].intent \in Intents
    BY <1>1, RequestType DEF FanInCommit, ActiveRequest
  <2>2. UNCHANGED <<sent, queued>>
    BY <1>1 DEF FanInCommit, publishVars
  <2>3. ASSUME NEW j \in Intents, j # req[d].intent
        PROVE status'[j] = status[j] /\ outbox'[j] = outbox[j]
    BY <1>1, <2>1, <2>3 DEF FanInCommit, TypeOK
  <2>4. /\ status'[req[d].intent] = "approved" => outbox'[req[d].intent] = "unpublished"
        /\ outbox'[req[d].intent] \in {"unpublished", outbox[req[d].intent]}
    BY <1>1, <2>1 DEF FanInCommit, IntentTargetStatus, TypeOK
  <2> QED BY <2>1, <2>2, <2>3, <2>4 DEF PublishInv
<1>2. ASSUME NEW p \in Publishers, Publish(p) PROVE PublishInv'
  <2>1. CASE ClaimOutboxRows(p)
    BY <2>1 DEF ClaimOutboxRows, intentVars, PublishInv
  <2>2. ASSUME NEW i \in Intents, EnqueueRow(p, i) PROVE PublishInv'
    BY <2>2 DEF EnqueueRow, intentVars, PublishInv, TypeOK
  <2>3. ASSUME NEW i \in Intents, EnqueueFails(p, i) PROVE PublishInv'
    BY <2>3 DEF EnqueueFails, intentVars, PublishInv
  <2>4. CASE MarkPublished(p)
    <3>1. UNCHANGED <<status, queued>> /\ \A q \in Publishers : sent'[q] \subseteq sent[q]
      BY <2>4 DEF MarkPublished, TypeOK
    <3>2. \A i \in Intents : outbox'[i] = IF i \in sent[p] THEN "published" ELSE outbox[i]
      BY <2>4 DEF MarkPublished
    <3> QED BY <3>1, <3>2 DEF PublishInv
  <2>5. CASE CrashPublisher(p)
    BY <2>5 DEF CrashPublisher, intentVars, PublishInv, TypeOK
  <2> QED BY <1>2, <2>1, <2>2, <2>3, <2>4, <2>5 DEF Publish
<1>3. ASSUME UNCHANGED <<outbox, publishVars>>, NEW i \in Intents, NEW to, to # "approved",
             status' = [status EXCEPT ![i] = to]
      PROVE PublishInv'
  BY <1>3, PublishFrame DEF TypeOK
<1>4. ASSUME UNCHANGED <<intentVars, publishVars>> PROVE PublishInv'
  BY <1>4, PublishFrame DEF intentVars
<1>5. ASSUME NEW i \in Intents, NEW to \in {"completed", "failed"}, NEW code, NEW executed,
             Transition(i, to, code, executed)
      PROVE PublishInv'
  BY <1>5, <1>3, PublishFrame DEF Transition
<1>6. ASSUME NEW i \in Intents, Service(i) PROVE PublishInv'
  <2>1. ASSUME NEW u \in Users, NEW caller \in Callers, CreateActionIntent(i, u, caller)
        PROVE PublishInv'
    <3>1. \A j \in Intents : status'[j] = "approved" => status[j] = "approved"
      BY <2>1 DEF CreateActionIntent, TypeOK
    <3> QED BY <2>1, <3>1, PublishFrame DEF CreateActionIntent
  <2>2. CASE CancelActionIntent(i)
    BY <2>2, <1>3 DEF CancelActionIntent
  <2> QED BY <1>6, <2>1, <2>2, <1>4 DEF Service, ResolveIntentApprovers, ReplayActionIntent
<1>7. ASSUME NEW d \in Requests, Approvals(d) PROVE PublishInv'
  BY <1>7, <1>1, <1>4
  DEF Approvals, ReadApproval, WriteOwnRow, FanInCas, FanInFail, CommitRequest,
      KillTransaction, AbortRequest
<1>8. ASSUME NEW i \in Intents, NEW r \in Releasers, Release(i, r) PROVE PublishInv'
  <2>1. CASE Claim(i, r)
    BY <2>1, <1>3 DEF Claim
  <2>2. CASE RefuseRelease(i, r)
    BY <2>2, <1>5 DEF RefuseRelease, Finish
  <2> QED BY <1>8, <2>1, <2>2, <1>4 DEF Release, StopWaiting, LoadApproval, RunTool
<1>9. ASSUME NEW i \in Intents, NEW r \in Deliveries, Deliver(i, r) PROVE PublishInv'
  BY <1>9, <1>4, <1>5 DEF Deliver, RecordOutcome, Finish, CrashDelivery
<1>10. ASSUME NEW i \in Intents, NEW s \in Sessions, Call(i, s) PROVE PublishInv'
  BY <1>10, <1>4 DEF Call, AuthorizeCall, EndCall, SealedHook
<1>11. ASSUME Hooks PROVE PublishInv'
  BY <1>11, <1>4, <1>5 DEF Hooks, SettleTaken, SettleFails, PostToolHook, CrashSession
<1>12. ASSUME Sweeps PROVE PublishInv'
  <2>1. ASSUME NEW i \in Intents, ReapStaleExecuting(i) PROVE PublishInv'
    BY <2>1, <1>3 DEF ReapStaleExecuting
  <2>2. CASE CommitReap
    BY <2>2, PublishFrame DEF CommitReap
  <2> QED BY <1>12, <2>1, <2>2, <1>4 DEF Sweeps, BeginReap, AbortReap, ReapExpiredApprovals
<1>13. ASSUME Environment PROVE PublishInv'
  BY <1>13, <1>4 DEF Environment, PassDeadline, PassStaleTimeout, ChangeRole
<1>14. CASE UNCHANGED vars
  BY <1>14, <1>4 DEF vars
<1> QED BY <1>2, <1>6, <1>7, <1>8, <1>9, <1>10, <1>11, <1>12, <1>13, <1>14 DEF Next

\* While an intent is approved its release job is queued, or its outbox row is still
\* unpublished, for any number of overlapping, failing and dying publisher passes.
THEOREM ApprovalKept == Spec => []ApprovalNotLost
<1>1. Init => PublishInv
  BY DEF Init, PublishInv
<1>2. TypeOK /\ PublishInv /\ [Next]_vars => PublishInv'
  BY PublishInductive
<1>3. TypeOK /\ PublishInv => ApprovalNotLost
  BY DEF TypeOK, PublishInv, ApprovalNotLost
<1> QED BY <1>1, <1>2, <1>3, TypeCorrect, PTL DEF Spec

-----------------------------------------------------------------------------
(* Four eyes.                                                              *)

\* FanOutInv only depends on which rows exist, who asked, who decided and what
\* the requests in flight are about.
LEMMA FanOutFrame ==
    ASSUME TypeOK, TypeOK', FanOutInv, UNCHANGED requester,
           \A i \in Intents : status'[i] = "absent" => status[i] = "absent",
           \A i \in Intents, u \in Users : approval'[i][u] = "none" <=> approval[i][u] = "none",
           \A i \in Intents :
               decidedBy'[i] = decidedBy[i] \/
               (/\ decidedBy'[i] \in Users /\ status'[i] # "absent"
                /\ approval[i][decidedBy'[i]] # "none"),
           \A d \in Requests : req'[d] # NoRequest =>
               /\ req'[d].intent \in Intents /\ req'[d].user \in Users
               /\ approval[req'[d].intent][req'[d].user] # "none"
    PROVE  FanOutInv'
BY DEF FanOutInv, TypeOK

\* What a request in flight is about, whatever step it is at.
LEMMA InFlight ==
    ASSUME TypeOK, FanOutInv, NEW d \in Requests, req[d] # NoRequest
    PROVE  /\ req[d].intent \in Intents /\ req[d].user \in Users
           /\ approval[req[d].intent][req[d].user] # "none"
BY DEF TypeOK, FanOutInv, ActiveRequest

\* Decisions only ever come from users the fan-out asked.
LEMMA FanOutInductive ==
    ASSUME TypeOK, TypeOK', FanOutInv, [Next]_vars
    PROVE  FanOutInv'
<1>1. ASSUME NEW i \in Intents, NEW u \in Users, NEW caller \in Callers,
             CreateActionIntent(i, u, caller)
      PROVE FanOutInv'
  <2> DEFINE asked == FanOut(u, resolved[i])
  <2>1. status[i] = "absent" /\ decidedBy[i] = NoUser
    BY <1>1 DEF CreateActionIntent, FanOutInv
  <2>2. status'[i] # "absent" /\ requester'[i] = u /\ UNCHANGED <<decidedBy, req>>
    BY <1>1 DEF CreateActionIntent, TypeOK
  <2>3. \A v \in Users : approval'[i][v] # "none" => v \in asked
    BY <1>1 DEF CreateActionIntent, TypeOK
  <2>4. u \in asked => asked = {u}
    BY DEF FanOut
  <2>5. \A j \in Intents \ {i} : /\ status'[j] = status[j] /\ requester'[j] = requester[j]
                                  /\ approval'[j] = approval[j]
    BY <1>1 DEF CreateActionIntent, TypeOK
  <2>6. \A d \in Requests : req[d] # NoRequest => req[d].intent \in Intents \ {i}
    BY <2>1, InFlight DEF FanOutInv
  <2> HIDE DEF asked
  <2>7. \A v, w \in Users :
            v # requester'[i] /\ w = requester'[i] /\ approval'[i][v] # "none"
                => approval'[i][w] = "none"
    BY <2>2, <2>3, <2>4
  <2> QED BY <2>1, <2>2, <2>5, <2>6, <2>7 DEF FanOutInv
<1>2. ASSUME NEW d \in Requests, FanInCommit(d) PROVE FanOutInv'
  <2> DEFINE i == req[d].intent
  <2>1. /\ i \in Intents /\ req[d].user \in Users /\ approval[i][req[d].user] # "none"
        /\ req[d] \in ActiveRequest
    BY <1>2, InFlight, RequestType DEF FanInCommit, NoRequest
  <2>2. UNCHANGED requester
    BY <1>2 DEF FanInCommit
  <2>3. \A j \in Intents : status'[j] = "absent" => status[j] = "absent"
    BY <1>2, <2>1 DEF FanInCommit, IntentTargetStatus, TypeOK
  <2>4. \A j \in Intents, u \in Users : approval'[j][u] = "none" <=> approval[j][u] = "none"
    BY <1>2, <2>1 DEF FanInCommit, TypeOK
  <2>5. status'[i] # "absent" /\ decidedBy'[i] = req[d].user
    BY <1>2, <2>1 DEF FanInCommit, IntentTargetStatus, TypeOK
  <2>6. \A j \in Intents \ {i} : decidedBy'[j] = decidedBy[j]
    BY <1>2, <2>1 DEF FanInCommit, TypeOK
  <2>7. \A e \in Requests \ {d} : req'[e] = req[e]
    BY <1>2 DEF FanInCommit, TypeOK
  <2>8. req'[d].intent = i /\ req'[d].user = req[d].user
    BY <1>2, <2>1 DEF FanInCommit, TypeOK, ActiveRequest
  <2>9. \A e \in Requests : req'[e] # NoRequest =>
            /\ req'[e].intent \in Intents /\ req'[e].user \in Users
            /\ approval[req'[e].intent][req'[e].user] # "none"
    BY <2>1, <2>7, <2>8, InFlight
  <2> QED BY <2>1, <2>2, <2>3, <2>4, <2>5, <2>6, <2>9, FanOutFrame
<1>3. ASSUME NEW d \in Requests, CommitRequest(d) PROVE FanOutInv'
  <2>1. /\ req[d].intent \in Intents /\ req[d].user \in Users
        /\ approval[req[d].intent][req[d].user] # "none"
        /\ req[d] \in ActiveRequest
    BY <1>3, InFlight, RequestType DEF CommitRequest, NoRequest
  <2>2. \A j \in Intents, u \in Users : approval'[j][u] = "none" <=> approval[j][u] = "none"
    BY <1>3, <2>1 DEF CommitRequest, TypeOK, ActiveRequest, Verdicts
  <2>3. \A e \in Requests : req'[e] = NoRequest \/ req'[e] = req[e]
    BY <1>3 DEF CommitRequest, TypeOK
  <2>4. UNCHANGED <<requester, status, decidedBy>>
    BY <1>3 DEF CommitRequest, intentVars
  <2> QED BY <2>2, <2>3, <2>4, InFlight, FanOutFrame
<1>4. ASSUME UNCHANGED <<requester, decidedBy>>,
             \A i \in Intents : status'[i] = "absent" => status[i] = "absent",
             \A i \in Intents, u \in Users :
                 approval'[i][u] = "none" <=> approval[i][u] = "none",
             \A d \in Requests : \/ req'[d] = NoRequest
                                 \/ req'[d].intent = req[d].intent /\ req'[d].user = req[d].user
                                    /\ req[d] # NoRequest
      PROVE FanOutInv'
  BY <1>4, InFlight, FanOutFrame
<1>5. ASSUME NEW d \in Requests, NEW i \in Intents, NEW u \in Users, NEW v \in Verdicts,
             ReadApproval(d, i, u, v)
      PROVE FanOutInv'
  <2>1. req'[d].intent = i /\ req'[d].user = u /\ approval[i][u] # "none"
    BY <1>5 DEF ReadApproval, TypeOK
  <2>2. \A e \in Requests \ {d} : req'[e] = req[e]
    BY <1>5 DEF ReadApproval, TypeOK
  <2>3. UNCHANGED <<requester, status, decidedBy, approval>>
    BY <1>5 DEF ReadApproval, intentVars
  <2> QED BY <2>1, <2>2, <2>3, InFlight, FanOutFrame
<1>6. ASSUME NEW d \in Requests,
             \/ WriteOwnRow(d) \/ FanInCas(d) \/ FanInFail(d)
             \/ KillTransaction(d) \/ AbortRequest(d)
      PROVE FanOutInv'
  <2>1. UNCHANGED <<requester, status, decidedBy, approval>>
    BY <1>6 DEF WriteOwnRow, FanInCas, FanInFail, KillTransaction, AbortRequest, intentVars
  <2>2. \A e \in Requests \ {d} : req'[e] = req[e]
    BY <1>6 DEF WriteOwnRow, FanInCas, FanInFail, KillTransaction, AbortRequest, TypeOK
  <2>3. req[d] # NoRequest /\ req[d] \in ActiveRequest
    <3>1. req[d] # NoRequest
      BY <1>6 DEF WriteOwnRow, FanInCas, FanInFail, KillTransaction, AbortRequest, NoRequest
    <3> QED BY <3>1 DEF TypeOK
  <2>4. \/ req'[d] = NoRequest
        \/ req'[d].intent = req[d].intent /\ req'[d].user = req[d].user
    <3>1. CASE WriteOwnRow(d)
      BY <3>1, <2>3 DEF WriteOwnRow, TypeOK, ActiveRequest
    <3>2. CASE FanInCas(d)
      BY <3>2, <2>3 DEF FanInCas, TypeOK, ActiveRequest
    <3>3. CASE FanInFail(d)
      BY <3>3, <2>3 DEF FanInFail, TypeOK, ActiveRequest
    <3>4. CASE KillTransaction(d)
      BY <3>4, <2>3 DEF KillTransaction, TypeOK, ActiveRequest
    <3>5. CASE AbortRequest(d)
      BY <3>5 DEF AbortRequest, TypeOK
    <3> QED BY <1>6, <3>1, <3>2, <3>3, <3>4, <3>5
  <2> QED BY <2>1, <2>2, <2>3, <2>4, <1>4
<1>7. ASSUME UNCHANGED <<requester, decidedBy, req>>,
             \A i \in Intents : status'[i] = "absent" => status[i] = "absent",
             \A i \in Intents, u \in Users :
                 approval'[i][u] = "none" <=> approval[i][u] = "none"
      PROVE FanOutInv'
  BY <1>7, InFlight, FanOutFrame
<1>8. ASSUME NEW i \in Intents, Service(i) PROVE FanOutInv'
  <2>1. CASE CancelActionIntent(i)
    BY <2>1, <1>7 DEF CancelActionIntent, TypeOK
  <2>2. CASE \/ ResolveIntentApprovers(i)
             \/ \E caller \in Callers : ReplayActionIntent(i, caller)
    BY <2>2, <1>7 DEF ResolveIntentApprovers, ReplayActionIntent, intentVars
  <2> QED BY <1>8, <2>1, <2>2, <1>1 DEF Service
<1>9. ASSUME NEW d \in Requests, Approvals(d) PROVE FanOutInv'
  BY <1>9, <1>2, <1>3, <1>5, <1>6 DEF Approvals
<1>14. ASSUME NEW i \in Intents, NEW to \in {"completed", "failed"}, NEW code, NEW executed,
              Transition(i, to, code, executed)
       PROVE FanOutInv'
  <2>1. UNCHANGED <<requester, decidedBy, req, approval>>
    BY <1>14 DEF Transition
  <2>2. \A j \in Intents : status'[j] = "absent" => status[j] = "absent"
    <3>1. CASE status[i] = "executing"
      <4>1. status' = [status EXCEPT ![i] = to]
        BY <1>14, <3>1 DEF Transition
      <4> QED BY <4>1 DEF TypeOK
    <3>2. CASE status[i] # "executing"
      BY <1>14, <3>2 DEF Transition
    <3> QED BY <3>1, <3>2
  <2> QED BY <2>1, <2>2, <1>7
<1>15. ASSUME UNCHANGED <<requester, decidedBy, status, approval, req>> PROVE FanOutInv'
  BY <1>15, <1>7
<1>10. ASSUME NEW i \in Intents, NEW r \in Releasers, Release(i, r) PROVE FanOutInv'
  <2>1. CASE Claim(i, r)
    BY <2>1, <1>7 DEF Claim, TypeOK
  <2>3. CASE RefuseRelease(i, r)
    BY <1>14, <2>3 DEF RefuseRelease, Finish
  <2>4. CASE StopWaiting(i, r) \/ LoadApproval(i, r) \/ RunTool(i, r)
    BY <2>4, <1>15 DEF StopWaiting, LoadApproval, RunTool, intentVars
  <2> QED BY <1>10, <2>1, <2>3, <2>4 DEF Release
<1>16. ASSUME NEW i \in Intents, NEW r \in Deliveries, Deliver(i, r) PROVE FanOutInv'
  BY <1>16, <1>14, <1>15 DEF Deliver, RecordOutcome, Finish, CrashDelivery, intentVars
<1>17. ASSUME NEW i \in Intents, NEW s \in Sessions, Call(i, s) PROVE FanOutInv'
  BY <1>17, <1>15 DEF Call, AuthorizeCall, EndCall, SealedHook, intentVars
<1>18. ASSUME Hooks PROVE FanOutInv'
  BY <1>18, <1>14, <1>15
  DEF Hooks, SettleTaken, SettleFails, PostToolHook, CrashSession, intentVars
<1>19. ASSUME NEW p \in Publishers, Publish(p) PROVE FanOutInv'
  BY <1>19, <1>15 DEF Publish, ClaimOutboxRows, EnqueueRow, EnqueueFails, MarkPublished,
     CrashPublisher, intentVars
<1>11. ASSUME Sweeps PROVE FanOutInv'
  <2>1. CASE CommitReap
    BY <2>1, <1>7 DEF CommitReap
  <2>2. ASSUME NEW i \in Intents, ReapStaleExecuting(i) PROVE FanOutInv'
    BY <2>2, <1>7 DEF ReapStaleExecuting, TypeOK
  <2>3. ASSUME NEW i \in Intents, ReapExpiredApprovals(i) PROVE FanOutInv'
    BY <2>3, <1>7 DEF ReapExpiredApprovals, intentVars, TypeOK
  <2>4. CASE BeginReap \/ AbortReap
    BY <2>4, <1>7 DEF BeginReap, AbortReap, intentVars
  <2> QED BY <1>11, <2>1, <2>2, <2>3, <2>4 DEF Sweeps
<1>12. ASSUME Environment PROVE FanOutInv'
  BY <1>12, <1>7
  DEF Environment, PassDeadline, PassStaleTimeout, ChangeRole, intentVars
<1>13. CASE UNCHANGED vars
  BY <1>13, <1>7 DEF vars, intentVars
<1> QED BY <1>8, <1>9, <1>10, <1>11, <1>12, <1>13, <1>16, <1>17, <1>18, <1>19 DEF Next

\* Nobody decides an intent of their own that somebody else was asked about.
THEOREM FourEyesHolds == Spec => []FourEyes
<1>1. Init => FanOutInv
  BY DEF Init, FanOutInv
<1>2. TypeOK /\ TypeOK' /\ FanOutInv /\ [Next]_vars => FanOutInv'
  BY FanOutInductive
<1>3. TypeOK /\ FanOutInv => FourEyes
  BY DEF TypeOK, FanOutInv, FourEyes
<1> QED BY <1>1, <1>2, <1>3, TypeCorrect, PTL DEF Spec

-----------------------------------------------------------------------------
(* The contract.  A step moves at most one intent to another phase, but for *)
(* the expiry sweep, and starts at most one tool.                           *)

\* The phase of every intent, as the contract sees it.
PhaseMap == [i \in Intents |-> Phase(i)]

\* What the row and the claim say fixes the phase.
LEMMA PhaseFacts ==
    ASSUME TypeOK, NEW i \in Intents
    PROVE  /\ status[i] = "absent" => Phase(i) = "none"
           /\ status[i] = "pending_approval" => Phase(i) = "pending"
           /\ status[i] = "approved" => Phase(i) = "approved"
           /\ status[i] = "executing" =>
                 Phase(i) = IF claimedBy[i] \in Sessions THEN "inline" ELSE "executing"
           /\ status[i] \in Withdrawn => Phase(i) = "withdrawn"
           /\ status[i] \in {"completed", "failed"} /\ executedAt[i] =>
                 Phase(i) = IF claimedBy[i] \in Sessions THEN "reported" ELSE "settled"
           /\ status[i] = "failed" /\ ~executedAt[i] =>
                 Phase(i) = IF errorCode[i] = "execution_lost" THEN "lost" ELSE "refused"
           /\ status[i] \notin Live => Phase(i) \notin Contract!Open
<1> USE DEF Phase, Withdrawn
<1>1. CASE status[i] \in {"absent", "pending_approval", "approved", "executing"}
  BY <1>1 DEF Live, Contract!Open, Contract!Begun
<1>2. CASE status[i] \in Withdrawn
  BY <1>2 DEF Live, Contract!Open, Contract!Begun
<1>3. CASE status[i] \in {"completed", "failed"}
  <2>1. executedAt[i] \in BOOLEAN
    BY DEF TypeOK
  <2>2. CASE executedAt[i]
    BY <1>3, <2>2 DEF Live, Contract!Open, Contract!Begun
  <2>3. CASE ~executedAt[i]
    BY <1>3, <2>3 DEF Live, Contract!Open, Contract!Begun
  <2> QED BY <2>1, <2>2, <2>3
<1> QED BY <1>1, <1>2, <1>3 DEF TypeOK, Statuses, Live, Terminal

\* The phase of an intent read off its row, in the next state.
LEMMA PhaseFactsNext ==
    ASSUME TypeOK', NEW i \in Intents
    PROVE  /\ status'[i] = "pending_approval" => Phase(i)' = "pending"
           /\ status'[i] = "approved" => Phase(i)' = "approved"
           /\ status'[i] = "executing" =>
                 Phase(i)' = IF claimedBy'[i] \in Sessions THEN "inline" ELSE "executing"
           /\ status'[i] \in Withdrawn => Phase(i)' = "withdrawn"
           /\ status'[i] \in {"completed", "failed"} /\ executedAt'[i] =>
                 Phase(i)' = IF claimedBy'[i] \in Sessions THEN "reported" ELSE "settled"
           /\ status'[i] = "failed" /\ ~executedAt'[i] =>
                 Phase(i)' = IF errorCode'[i] = "execution_lost" THEN "lost" ELSE "refused"
BY DEF Phase, Withdrawn

\* The part of the state that phases are read off.
PhaseStaysFor(j) ==
    /\ status'[j] = status[j] /\ errorCode'[j] = errorCode[j]
    /\ executedAt'[j] = executedAt[j] /\ claimedBy'[j] = claimedBy[j]

\* An intent whose row and claim a step leaves alone stays in its phase.
LEMMA PhaseStays ==
    ASSUME NEW i \in Intents, PhaseStaysFor(i)
    PROVE  Phase(i)' = Phase(i)
BY DEF Phase, PhaseStaysFor

\* One row changes: one intent changes phase.
OthersStay(i) == \A j \in Intents \ {i} : PhaseStaysFor(j)

\* A step that moves one row between phases, runs unchanged, moves the contract the same way.
LEMMA PhaseMoves ==
    ASSUME NEW i \in Intents, OthersStay(i), NEW p, Phase(i)' = p, runs' = runs,
           NEW S, Phase(i) \in S
    PROVE  Contract!Become(i, S, p)
<1>1. \A j \in Intents : Phase(j)' = IF j = i THEN p ELSE Phase(j)
  BY PhaseStays DEF OthersStay
<1>2. PhaseMap' = [PhaseMap EXCEPT ![i] = p]
  BY <1>1 DEF PhaseMap
<1> QED BY <1>2 DEF PhaseMap, Contract!Become

\* A withdrawal by one decision or one request.
LEMMA PhaseWithdrawn ==
    ASSUME NEW i \in Intents, OthersStay(i), Phase(i)' = "withdrawn", runs' = runs,
           Phase(i) \in {"pending", "approved"}
    PROVE  Contract!Withdraw({i})
<1>1. \A j \in Intents : Phase(j)' = IF j \in {i} THEN "withdrawn" ELSE Phase(j)
  BY PhaseStays DEF OthersStay
<1> QED BY <1>1 DEF Contract!Withdraw

ContractStutters == UNCHANGED <<PhaseMap, runs>>

\* A step that leaves the rows' outcomes, the claims and runs alone is a stutter of the contract.
LEMMA Stutters ==
    ASSUME UNCHANGED <<status, errorCode, executedAt, claimedBy, runs>>
    PROVE  ContractStutters
<1>1. \A i \in Intents : Phase(i)' = Phase(i)
  BY PhaseStays DEF PhaseStaysFor
<1> QED BY <1>1 DEF PhaseMap, ContractStutters

\* What each action is to the contract.
ContractStep == Contract!Next \/ ContractStutters

\* createActionIntent is a submission, at a time when no intent is open.
LEMMA CreateRefines ==
    ASSUME TypeOK, TypeOK', NEW i \in Intents, NEW u \in Users, NEW caller \in Callers,
           CreateActionIntent(i, u, caller)
    PROVE  ContractStep
<1>1. \A j \in Intents : Phase(j) \notin Contract!Open
  BY PhaseFacts DEF CreateActionIntent, LiveIntentExists
<1>2. OthersStay(i) /\ runs' = runs
  BY DEF CreateActionIntent, OthersStay, PhaseStaysFor, TypeOK, releaseVars
<1>3. Phase(i) \in {"none"}
  BY PhaseFacts DEF CreateActionIntent
<1>4. Phase(i)' = "pending" \/ Phase(i)' = "withdrawn"
  <2>1. status'[i] = "pending_approval" \/ status'[i] \in Withdrawn
    BY DEF CreateActionIntent, TypeOK, Withdrawn
  <2> QED BY <2>1, PhaseFactsNext
<1>5. Contract!Become(i, {"none"}, "pending") \/ Contract!Become(i, {"none"}, "withdrawn")
  BY <1>2, <1>3, <1>4, PhaseMoves
<1>6. Contract!Submit(i)
  BY <1>1, <1>5 DEF Contract!Submit
<1> QED BY <1>6 DEF ContractStep, Contract!Next

\* Cancelling withdraws the intent.
LEMMA CancelRefines ==
    ASSUME TypeOK, TypeOK', NEW i \in Intents, CancelActionIntent(i)
    PROVE  ContractStep
<1>1. OthersStay(i) /\ runs' = runs /\ status'[i] \in Withdrawn
  BY DEF CancelActionIntent, OthersStay, PhaseStaysFor, TypeOK, Withdrawn, releaseVars
<1>2. Phase(i) \in {"pending", "approved"} /\ Phase(i)' = "withdrawn"
  BY <1>1, PhaseFacts, PhaseFactsNext DEF CancelActionIntent
<1>3. Contract!Withdraw({i})
  BY <1>1, <1>2, PhaseWithdrawn
<1> QED BY <1>3 DEF ContractStep, Contract!Next

\* The fan-in of a decision approves or withdraws an intent that is still pending: it
\* has held the row's lock since its compare-and-swap.
LEMMA FanInRefines ==
    ASSUME TypeOK, TypeOK', LockInv, NEW d \in Requests, FanInCommit(d)
    PROVE  ContractStep
<1>0. PICK i \in Intents : i = req[d].intent
  BY RequestType DEF FanInCommit, ActiveRequest
<1>1. status[i] = "pending_approval"
  BY <1>0 DEF FanInCommit, LockInv
<1>2. OthersStay(i) /\ runs' = runs /\ status'[i] = IntentTargetStatus(req[d].verdict)
  BY <1>0 DEF FanInCommit, OthersStay, PhaseStaysFor, TypeOK, releaseVars
<1>3. Phase(i) = "pending"
  BY <1>1, PhaseFacts
<1>4. CASE req[d].verdict = "approved"
  <2>1. Phase(i)' = "approved"
    BY <1>1, <1>2, <1>4, PhaseFactsNext DEF IntentTargetStatus
  <2>2. Contract!Approve(i)
    BY <1>1, <1>2, <1>3, <2>1, PhaseMoves DEF Contract!Approve
  <2> QED BY <1>1, <2>2 DEF ContractStep, Contract!Next
<1>5. CASE req[d].verdict # "approved"
  <2>1. Phase(i)' = "withdrawn"
    BY <1>1, <1>2, <1>5, PhaseFactsNext DEF IntentTargetStatus, Withdrawn
  <2>2. Contract!Withdraw({i})
    BY <1>1, <1>2, <1>3, <2>1, PhaseWithdrawn
  <2> QED BY <1>1, <2>2 DEF ContractStep, Contract!Next
<1> QED BY <1>4, <1>5

\* Claiming releases the intent.
LEMMA ClaimRefines ==
    ASSUME TypeOK, TypeOK', NEW i \in Intents, NEW r \in Releasers, Claim(i, r)
    PROVE  ContractStep
<1>1. OthersStay(i) /\ runs' = runs /\ status'[i] = "executing" /\ status[i] = "approved"
  BY DEF Claim, Claimable, OthersStay, PhaseStaysFor, TypeOK
<1>2. Phase(i) \in {"approved"} /\ Phase(i)' \in Contract!Begun
  BY <1>1, PhaseFacts, PhaseFactsNext DEF Contract!Begun
<1>3. Contract!Begin(i)
  BY <1>1, <1>2, PhaseMoves DEF Contract!Begin
<1> QED BY <1>3 DEF ContractStep, Contract!Next

\* A releaser that started the tool still held the claim, on a row that says executing,
\* was given up as lost, or was settled by another hook of its own session.
LEMMA RunRefines ==
    ASSUME TypeOK, ReleaseInv, NEW i \in Intents, NEW r \in Releasers, RunTool(i, r)
    PROVE  ContractStep
<1>1. /\ runs[i] = 0 /\ claimedBy[i] = r
      /\ \/ status[i] = "executing" \/ Lost(i) \/ (r \in Sessions /\ executedAt[i])
      /\ status[i] \notin {"completed", "failed"} => ~executedAt[i]
  BY DEF RunTool, ReleaseInv, ReleaseOK, HoldsClaim
<1>2. Phase(i) \in Contract!Begun \cup {"reported", "lost"}
  BY <1>1, PhaseFacts DEF Lost, Contract!Begun
<1>3. runs' = [runs EXCEPT ![i] = 1] /\ UNCHANGED <<status, errorCode, executedAt, claimedBy>>
  BY <1>1 DEF RunTool, intentVars, TypeOK
<1>4. \A j \in Intents : Phase(j)' = Phase(j)
  BY <1>3, PhaseStays DEF PhaseStaysFor
<1>5. Contract!Perform(i)
  BY <1>1, <1>2, <1>3, <1>4 DEF Contract!Perform
<1> QED BY <1>5 DEF ContractStep, Contract!Next

\* An outcome is recorded on a row still executing, or nothing is written: an executed one
\* by the delivery that ran the tool or by a session's hook, a refusal before the tool.
LEMMA TransitionRefines ==
    ASSUME TypeOK, TypeOK', ReleaseInv, NEW i \in Intents,
           NEW to \in {"completed", "failed"}, NEW code \in ErrorCodes \ {"execution_lost"},
           NEW executed \in BOOLEAN, Transition(i, to, code, executed),
           executed => runs[i] = 1 \/ claimedBy[i] \in Sessions,
           ~executed => runs[i] = 0 /\ to = "failed"
    PROVE  ContractStep
<1>1. CASE status[i] = "executing"
  <2>1. OthersStay(i) /\ runs' = runs
    BY <1>1 DEF Transition, OthersStay, PhaseStaysFor, TypeOK
  <2>2. status'[i] = to /\ errorCode'[i] = code /\ claimedBy'[i] = claimedBy[i]
    BY <1>1 DEF Transition, TypeOK
  <2>3. ~executedAt[i]
    BY <1>1 DEF ReleaseInv, ReleaseOK
  <2>4. executed => executedAt'[i]
    BY <1>1 DEF Transition, TypeOK
  <2>5. ~executed => ~executedAt'[i]
    BY <1>1, <2>3 DEF Transition, TypeOK
  <2>6. Phase(i) = IF claimedBy[i] \in Sessions THEN "inline" ELSE "executing"
    BY <1>1, PhaseFacts
  <2>7. CASE executed /\ claimedBy[i] \in Sessions
    <3>1. Phase(i)' = "reported"
      BY <2>2, <2>4, <2>7, PhaseFactsNext
    <3>2. Contract!Report(i)
      BY <2>1, <2>6, <2>7, <3>1, PhaseMoves DEF Contract!Report
    <3> QED BY <3>2 DEF ContractStep, Contract!Next
  <2>8. CASE executed /\ claimedBy[i] \notin Sessions
    <3>1. Phase(i)' = "settled" /\ runs[i] = 1
      BY <2>2, <2>4, <2>8, PhaseFactsNext
    <3>2. Contract!Settle(i)
      BY <2>1, <2>6, <2>8, <3>1, PhaseMoves DEF Contract!Settle
    <3> QED BY <3>2 DEF ContractStep, Contract!Next
  <2>9. CASE ~executed
    <3>1. Phase(i)' = "refused" /\ runs[i] = 0
      BY <2>2, <2>5, <2>9, PhaseFactsNext
    <3>2. Phase(i) \in Contract!Begun
      BY <2>6 DEF Contract!Begun
    <3>3. Contract!Become(i, Contract!Begun, "refused")
      BY <2>1, <3>1, <3>2, PhaseMoves
    <3>4. Contract!Refuse(i)
      BY <3>1, <3>3 DEF Contract!Refuse
    <3> QED BY <3>4 DEF ContractStep, Contract!Next
  <2> QED BY <2>7, <2>8, <2>9
<1>2. CASE status[i] # "executing"
  BY <1>2, Stutters DEF Transition, ContractStep
<1> QED BY <1>1, <1>2

\* The expiry sweep withdraws what it has locked, which nobody has claimed since.
LEMMA ReapRefines ==
    ASSUME TypeOK, TypeOK', LockInv, CommitReap
    PROVE  ContractStep
<1>1. \A i \in reaping : i \in Intents /\ Phase(i) \in {"pending", "approved"}
  BY PhaseFacts DEF LockInv, TypeOK
<1>2. \A i \in Intents : Phase(i)' = IF i \in reaping THEN "withdrawn" ELSE Phase(i)
  <2> SUFFICES ASSUME NEW i \in Intents
               PROVE  Phase(i)' = IF i \in reaping THEN "withdrawn" ELSE Phase(i)
    OBVIOUS
  <2>1. CASE i \in reaping
    BY <2>1, PhaseFactsNext DEF CommitReap, Withdrawn
  <2>2. CASE i \notin reaping
    BY <2>2, PhaseStays DEF CommitReap, PhaseStaysFor, releaseVars
  <2> QED BY <2>1, <2>2
<1>3. Contract!Withdraw(reaping)
  BY <1>1, <1>2 DEF Contract!Withdraw, CommitReap, releaseVars
<1> QED BY <1>1, <1>3 DEF ContractStep, Contract!Next

\* The sweep of stale executing rows gives the outcome up.
LEMMA LoseRefines ==
    ASSUME TypeOK, TypeOK', ReleaseInv, NEW i \in Intents, ReapStaleExecuting(i)
    PROVE  ContractStep
<1>1. /\ OthersStay(i) /\ runs' = runs /\ status[i] = "executing"
      /\ status'[i] = "failed" /\ errorCode'[i] = "execution_lost" /\ ~executedAt'[i]
  BY DEF ReapStaleExecuting, OthersStay, PhaseStaysFor, TypeOK, releaseVars
<1>2. Phase(i) \in Contract!Begun /\ Phase(i)' = "lost"
  BY <1>1, PhaseFacts, PhaseFactsNext DEF Contract!Begun
<1>3. Contract!Lose(i)
  BY <1>1, <1>2, PhaseMoves DEF Contract!Lose
<1> QED BY <1>3 DEF ContractStep, Contract!Next

\* Every step is one of the contract's, or leaves it alone.
LEMMA StepRefines ==
    ASSUME TypeOK, TypeOK', LockInv, ReleaseInv, [Next]_vars
    PROVE  ContractStep
<1>1. CASE UNCHANGED <<status, errorCode, executedAt, claimedBy, runs>>
  BY <1>1, Stutters DEF ContractStep
<1> USE DEF intentVars, releaseVars
<1>2. ASSUME NEW i \in Intents, Service(i) PROVE ContractStep
  BY <1>1, <1>2, CreateRefines, CancelRefines DEF Service, ResolveIntentApprovers, ReplayActionIntent
<1>3. ASSUME NEW d \in Requests, Approvals(d) PROVE ContractStep
  BY <1>1, <1>3, FanInRefines DEF Approvals, ReadApproval, WriteOwnRow, FanInCas, FanInFail,
     CommitRequest, KillTransaction, AbortRequest
<1>4. ASSUME NEW i \in Intents, NEW r \in Releasers, Release(i, r) PROVE ContractStep
  <2>1. CASE RefuseRelease(i, r)
    <3>1. rel[i][r] \in HoldsClaim \ {"running"}
      BY <2>1 DEF RefuseRelease, HoldsClaim
    <3>2. runs[i] = 0
      BY <3>1 DEF ReleaseInv, ReleaseOK
    <3> QED BY <2>1, <3>2, TransitionRefines DEF RefuseRelease, Finish, ErrorCodes
  <2>2. CASE StopWaiting(i, r) \/ LoadApproval(i, r)
    BY <1>1, <2>2 DEF StopWaiting, LoadApproval
  <2> QED BY <1>4, <2>1, <2>2, ClaimRefines, RunRefines DEF Release
<1>5. CASE Sweeps
  BY <1>1, <1>5, ReapRefines, LoseRefines DEF Sweeps, BeginReap, AbortReap, ReapExpiredApprovals
<1>6. CASE Environment
  BY <1>1, <1>6 DEF Environment, PassDeadline, PassStaleTimeout, ChangeRole
<1>7. CASE UNCHANGED vars
  BY <1>1, <1>7 DEF vars
<1>8. ASSUME NEW i \in Intents, NEW r \in Deliveries, Deliver(i, r) PROVE ContractStep
  <2>1. CASE RecordOutcome(i, r)
    <3>1. runs[i] = 1
      BY <2>1 DEF RecordOutcome, ReleaseInv, ReleaseOK, Releasers
    <3> QED BY <2>1, <3>1, TransitionRefines DEF RecordOutcome, Finish, ErrorCodes
  <2>2. CASE CrashDelivery(i, r)
    BY <1>1, <2>2 DEF CrashDelivery
  <2> QED BY <1>8, <2>1, <2>2 DEF Deliver
<1>9. ASSUME NEW i \in Intents, NEW s \in Sessions, Call(i, s) PROVE ContractStep
  BY <1>1, <1>9 DEF Call, AuthorizeCall, EndCall, SealedHook
<1>10. CASE Hooks
  <2>1. ASSUME NEW i \in Intents, SettleTaken(i) PROVE ContractStep
    <3>1. claimedBy[i] \in Sessions
      BY <2>1 DEF SettleTaken, ReleaseInv, ReleaseOK
    <3> QED BY <2>1, <3>1, TransitionRefines DEF SettleTaken, ErrorCodes
  <2> QED BY <1>1, <1>10, <2>1 DEF Hooks, SettleFails, PostToolHook, CrashSession
<1>11. ASSUME NEW p \in Publishers, Publish(p) PROVE ContractStep
  BY <1>1, <1>11 DEF Publish, ClaimOutboxRows, EnqueueRow, EnqueueFails, MarkPublished,
     CrashPublisher
<1> QED BY <1>2, <1>3, <1>4, <1>5, <1>6, <1>7, <1>8, <1>9, <1>10, <1>11 DEF Next

\* The approval layer implements IntentContract: an action is performed at most once,
\* only after an approval and a claim, never once rejected, cancelled, expired or
\* refused; a delivery records as executed only what was performed before; what
\* transitionIntent wrote stays.  What may still be performed although its row is
\* closed is an execution given up as lost, and one a session's hook has reported.
THEOREM KeepsContract == Spec => ImplementsContract
<1>1. Init => Contract!Init
  <2>1. Init => \A i \in Intents : Phase(i) = "none"
    BY DEF Init, Phase, Withdrawn
  <2> QED BY <2>1 DEF Init, Contract!Init
<1>2. TypeOK /\ TypeOK' /\ LockInv /\ ReleaseInv /\ [Next]_vars
          => [Contract!Next]_(Contract!contractVars)
  BY StepRefines DEF ContractStep, ContractStutters, PhaseMap, Contract!contractVars
<1> QED BY <1>1, <1>2, ReleaseReachable, PTL DEF Spec, ImplementsContract, Contract!Spec
=============================================================================
