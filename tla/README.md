# A TLA+ verification of bl4ck

bl4ck is a remote monitoring and management (RMM) platform: a TypeScript API over
PostgreSQL and Redis/BullMQ, a Go agent on every managed endpoint, and several
front ends. An AI assistant may act on endpoints and tenants; destructive actions
go through a human-approval layer first. This project models the parts of the API and of
the agent whose correctness depends on concurrency, on crashes and on the order of events,
checks them with TLC and proves their main safety properties with TLAPS.

All paths below are relative to `src/apps/api/src/` unless they start with `agent/`.

## 1. Inventory

| Component | State | Operations | Interacts with | Hard behaviour | What makes it correct |
|---|---|---|---|---|---|
| Action-intent approval layer (`services/actionIntents/`, `routes/approvals.ts`, `jobs/intent*.ts`) | `action_intents`, `approval_requests`, `intent_outbox` rows | create, replay, cancel, decide, report, claim, release, expire | AI sessions, MCP, BullMQ, permissions | first-decision-wins across connections, two releasers, crashes mid-tool | a tool runs at most once, only after approval, never on the requester's own word |
| Device command queue (`services/command*.ts`, `routes/agents/commands.ts`, `routes/agentWs.ts`, `jobs/staleCommandReaper.ts`) | `device_commands` rows, WebSocket connections | queue, claim, send, release, result, time out, reap | agents, deployments, scripts | at-least-once delivery by three channels, late results, timeouts | a settled command is never revived; results are applied once |
| Agent WebSocket hub (`routes/agentWs.ts`) | connection map with epochs | connect, replace, disconnect | command queue, sessions | a new connection replacing a dying one | only the newest connection is used |
| Agent token rotation (`routes/agents/token.ts`, `services/agentTokenPromotion.ts`, `agent/internal/heartbeat`, `agent/internal/config`) | current, pending and previous hashes of a device; the agent's memory and `secrets.yaml` | rotate, stage, confirm, promote, revoke, reconcile, save | heartbeat, enrollment, certificate renewal | lost answers, restarts, disk failures, handlers that outlive their client | the server relies only on a token the agent's disk holds; what is revoked stays dead |
| mTLS, enrollment keys | certificates, usage counters | renew, revoke, consume | agents | retries, limits | a key is not overused |
| Refresh-token families | families, jti | rotate, detect reuse | sessions | parallel refresh | reuse revokes the family |
| PAM elevation | `elevation_requests` | request, decide, expire | approvals | same fan-in as intents | first decision wins |
| Desktop sessions and leases (`services/remoteWs*.ts`, `services/desktopSession*.ts`, `routes/desktopWs.ts`) | `remote_sessions` row; owner key, fence and payload in Redis; entries per replica; durable stops and queue jobs | admit, acquire, renew, bind, relay, close, finalize, recover, offer, answer | agents, viewers, BullMQ | lease expiry against slow replies and stalled timers, crashes between fence, stop and row | one connection relays; a lost session is stopped and closed |
| Restore jobs (`routes/backup/restore.ts`, `services/restoreResultPersistence.ts`) | `restore_jobs` row, its command id | create, dispatch, link, cancel, result, time out | command queue | the result may precede the link | every job ends |
| Deployments, patches, backups | job tables | schedule, dispatch, collect | command queue | partial failure | every job settles |
| AI sessions | in-memory session, plan, pending-intent slot | pre and post tool hooks | intents | slot shared by tool calls | the outcome goes to its own intent |
| Go agent (websocket, worker pool, outbox, watchdog, updater) | in memory and on disk | execute, buffer, restart | API | crash and reconnect | results are not lost |
| Billing, tickets, alerts, front ends | business rows | CRUD | - | mostly data | - |

PROJECT.json lists every component with its sources and its status, and the hazards
of the modelled ones at the line where they bite.

## 2. Modules

| Module | Role |
|---|---|
| `ActionIntents` | the approval layer: rows, HTTP handlers, releasers, sweeps |
| `IntentContract` | what the approval layer promises: the abstract specification `ActionIntents` implements |
| `MCActionIntents` | symmetry sets for TLC |
| `ActionIntentsProofs` | theorems about `ActionIntents` |
| `DeviceCommands` | the command queue of one device: callers, batches, results, withdrawal, timeouts |
| `MCDeviceCommands` | symmetry sets for TLC |
| `DeviceCommandsProofs` | theorems about `DeviceCommands` |
| `DesktopSessions` | one relayed desktop session across API replicas: lease, fence, finalization, recovery |
| `MCDesktopSessions` | which replica serves which connection, and their symmetry |
| `DesktopSessionsProofs` | theorems about `DesktopSessions` |
| `AgentTokens` | the rotation of one device's token: the row, the routes, the agent and its disk |
| `MCAgentTokens` | `AgentTokens` for TLC |
| `AgentTokensProofs` | theorems about `AgentTokens` |
| `SessionTools` | the tool calls of one AI session and the slot their hooks share |
| `MCSessionTools` | three calls: one whose handler names its intent, one with a screenshot, one plain |
| `RestoreJobs` | one restore job between its routes, the agent and the reaper |
| `MCRestoreJobs` | `RestoreJobs` for TLC |

### Conventions shared by the models

* **PostgreSQL at READ COMMITTED.** A variable holds the committed value of a column.
  A row written by an open transaction is locked; an `UPDATE` that would write it
  waits, which is a disabled action; `FOR UPDATE SKIP LOCKED` leaves the row out.
  Where a transaction's own uncommitted write matters it has a state of its own
  (`written`, `deciding`, `locked`, `reaped`, `committed = FALSE`).
* **One transaction per context.** `withDbAccessContext` (`db/index.ts:256`) opens a
  transaction unless one is already open, in which case it calls straight through;
  `runOutsideDbContext` leaves it. `authMiddleware` wraps a whole handler in one. The
  models split a handler exactly where one of its transactions commits, or where it
  waits for a lock while holding another.
* **Time** is a flag per row (`past`, `stale`, `createdOld`, `sentOld`) that a
  `Pass...` action sets; the code compares with `<` a timestamp that only grows older.
* **Faults** (crashes, rollbacks, database errors) are actions, bounded by `MaxFaults`.
* Data that no property tells apart is left out: payloads, digests (whether one
  matches is a nondeterministic choice), encryption (it succeeds or fails), command types
  (kinds of rows), wording, audit and notification.

### ActionIntents and the code

| State | Code |
|---|---|
| `status`, `requester`, `decidedBy`, `errorCode`, `executedAt` | columns of `action_intents` |
| `approval` | `approval_requests.status`, one row per approver and intent |
| `outbox`, `attempts` | the intent's `intent_approved` row of `intent_outbox`, `publish_attempts` |
| `batch`, `sent`, `queued` | what a pass of the publisher has claimed, what it has enqueued and not marked yet, the jobs in the queue |
| `resolved`, `eligible` | approvers resolved before the creating transaction; who is eligible now |
| `req` | a decision or a report in flight and how far its handler is |
| `rel` | where each job delivery or chat session stands with each intent |
| `slot`, `taken` | `pendingIntentBySession`; intents a post-tool hook has taken from it and will settle |
| `reaping` | rows locked by the expiry sweep's transaction |
| `claimedBy`, `runs` | history: which releaser won the claim, how often the tool was started |

| Actions | Code |
|---|---|
| `ResolveIntentApprovers`, `CreateActionIntent`, `ReplayActionIntent`, `CancelActionIntent` | `services/actionIntents/intentService.ts`, `intentApprovers.ts` |
| `ReadApproval`, `WriteOwnRow`, `FanInCas`, `FanInCommit`, `FanInFail`, `CommitRequest` | `decideHandler` and the report route, `routes/approvals.ts` |
| `KillTransaction`, `AbortRequest` | PostgreSQL ends an idle transaction; the API dies |
| `ClaimOutboxRows`, `EnqueueRow`, `EnqueueFails`, `MarkPublished`, `CrashPublisher` | `jobs/intentOutboxPublisher.ts` |
| `Claim`, `StopWaiting`, `LoadApproval`, `RefuseRelease`, `RunTool` | both releasers: `jobs/intentReleaseWorker.ts`, and the chat session's own release in `services/aiAgentSdk.ts` |
| `RecordOutcome`, `CrashDelivery` | the end of a job delivery |
| `AuthorizeCall`, `EndCall`, `SealedHook`, `PostToolHook`, `SettleTaken`, `SettleFails`, `CrashSession` | the pre- and post-tool hooks of a chat session, `services/aiAgentSdk.ts` |
| `BeginReap`, `CommitReap`, `AbortReap`, `ReapStaleExecuting`, `ReapExpiredApprovals` | `jobs/intentExpiryReaper.ts`, `jobs/approvalExpiryReaper.ts` |
| `PassDeadline`, `PassStaleTimeout`, `ChangeRole` | time; administration of roles |

Two intents meet in two places. All intents of an instance carry the same idempotency
key. And a chat session has one slot for the intent whose tool it runs: the hook
of a call settles the intent it finds there (`aiAgentSdk.ts:1222`), not its own. So `PostToolHook`
may take the intent at any time after `AuthorizeCall` left it in the slot, also before the tool
is started, and the hook's write is a later step (`SettleTaken`). Hooks are counted by what they take and not
one by one: an earlier call whose hook is still under way is always possible, so the model has at least
the code's behaviours. The exact order of calls and hooks is in `SessionTools`, whose finding 3 this is.

What this leaves of the record is what `RecordIsTruthful` and `IntentContract` say: for a durable release
"completed" and `executed_at` mean that the tool ran; for a session's they do not, and the contract
has a phase of its own for it (`reported`, from which the action may still be performed). "failed" without
`executed_at` means for both that the tool neither ran nor will, unless it says `execution_lost`.

Of the outbox, the `intent_approved` rows are modelled. `CommitReap` takes the approval
rows of all intents it expires at once; the sweep's cap and its `created_at` order are
left out. A throw inside the worker is `CrashDelivery`. `FourEyes` is about the fan-out: it
would hold without the live check of permissions at the decision (`MayApprove`), which guards
against somebody else's lost role.

### DeviceCommands and the code

| State | Code |
|---|---|
| `status`, `outcome`, `stamp` | `device_commands.status`, what `result` says, `executed_at` (claims are numbered) |
| `committed` | the inserting transaction has committed |
| `disp` | callers that insert a row and dispatch it over the WebSocket |
| `poll` | heartbeats and command polls, with the batch they claimed |
| `res` | results being processed, over either transport |
| `seen`, `reaped` | what the stale reaper read, and what its open transaction has updated |
| `job` | the `restore_jobs` row of the command, where it has one: whether it names the command, is open, locked by the reaper's transaction, or ended |
| `offered`, `ran`, `handled` | the claims under which the agent was handed the row, its answer, and how often the answer took effect |

| Actions | Code |
|---|---|
| `QueueCommand`, `ExecuteCommand`, `QueueCommandForExecution`, `QueueBackupStopCommand`, `WaitForCommandResult` | `services/commandQueue.ts` |
| `EnsureDesktopStreamStopped`, `RearmIdempotentCommand` | `services/desktopSessionStop.ts`, `commandQueue.ts:256` |
| `ClaimPendingCommand`, `SendCommandToAgent`, `SendFails`, `ReleaseClaimedCommand` | `services/commandDispatch.ts`, `routes/agentWs.ts:3105`, the retry loop of `executeCommand` (its attempts are one step) |
| `CommitDispatch`, `AbortDispatch` | the end of the caller's transaction |
| `HeartbeatClaim`, `HeartbeatCommit` | `routes/agents/heartbeat.ts` (the claim stays locked until the heartbeat's transaction commits) |
| `PollClaim`, `PollRelease`, `PollAnswer`, `AbortPoll` | `GET /:id/commands`, `services/commandDelivery.ts` |
| `AgentExecutes` | the agent: may answer late, over both transports, repeatedly, or never |
| `ReadResult`, `RecordResult`, `HandleResult`, `DropResult` | `processCommandResult` with `processOrphanedCommandResult`, and its HTTP twin |
| `LinkRestoreJob`, `CancelRestoreJob` | `routes/backup/restore.ts` |
| `CancelQueued`, `DeleteQueued`, `CancelForTenant`, `TimeOutVerification` | cancellation of scripts and deployments (`routes/scripts.ts:1081`, `routes/software.ts:1639`, `staleCommandReaper.ts:661`), `routes/backup/restore.ts:71`, `services/tenantOffboarding.ts:182` and `routes/admin/abuse.ts`, `routes/backup/verificationScheduled.ts:172` |
| `ReapScan`, `ReapOne`, `ReapCommit`, `ReapAbort` | `jobs/staleCommandReaper.ts:170` (one transaction for the scan and all updates) |
| `PassCreated`, `PassSent` | time, against the timeout of the type (`services/commandTimeouts.ts`) |

One device, and the rows of one target role: rows of other devices and roles never
meet in a query. A row of another transaction's cancellation is written in one step, at
its commit. Only `desktop_stream_stop` rows are re-armed, so the once-only properties
are about `Once`, the other rows. The rows the reaper spares (`EXCLUDED_COMMAND_TYPES`, and the
`self_uninstall` of a tenant being offboarded) are `Exempt`; its cap per run (`MAX_REAP_PER_RUN`) is left out.

A result whose row is closed, or not visible, is dropped by the HTTP route, but the WebSocket handler passes it on to
`processOrphanedCommandResult` (`agentWs.ts:1794`). A command id that names no row, or a closed one, can there still reach
the restore job that names it, and end it. `HandledOnce` therefore has two halves: whatever
the path, a result takes effect at most once, because a job takes a result only while it is open; and other than on
a restore job, only for a row the agent's own result closed. An answer is `completed`, `failed` or, for stops,
`confirmed` (it parses as a confirmation of this finalization).

### DesktopSessions and the code

| State | Code |
|---|---|
| `row`, `revoked`, `summary` | `remote_sessions.status`, the viewer-session-revoked key, the audit row of the close |
| `owner`, `ttl`, `fence` | the owner key with its time to live; the finalizing and payload keys, which scripts write and delete as a pair |
| `local`, `safe` | `activeDesktopSessions` of each replica; `safeForwardingUntilMonotonicMs` of each connection |
| `req`, `age` | a lease request in flight, from the moment it was sent |
| `stop`, `job`, `tries` | the durable `desktop_stream_stop` commands and the BullMQ jobs, by finalization id |
| `seen` | `firstAbsentObservation` of each replica |
| `pc`, `target` | the next awaited call of a connection, a replica's sweep or a job, and what it finalizes |

| Actions | Code |
|---|---|
| `Admit`, `AcquireReply`, `Bind`, `RejectOpen`, `Activate` | `services/remoteWsUpgrade.ts`, `onOpen` of `routes/desktopWs.ts` |
| `LeaseExec`, `Renew`, `RenewReply`, `PingTick`, `SocketCloses` | `services/remoteWsSharedLease.ts`, `remoteWsOwnership.ts`, the intervals of `desktopWs.ts` |
| `BeginClose`, `Persist`, `Halt`, `Release` | `closeDesktopSessionLifecycle` |
| `Ensure`, `Seal`, `Unfence`, `Enqueue`, `JobReads` | `services/desktopSessionFinalization.ts`, `desktopSessionStop.ts`, `jobs/desktopSessionFinalizationWorker.ts` |
| `Sweep`, `Load`, `Observe`, `Reload`, `Claim` | `services/desktopSessionOrphanRecovery.ts` |
| `AgentStops`, `Answer`, `StartFails`, `PeerDrops` | the agent's stream manager and its messages |
| `EndSession`, `ReapSession`, `OfferChecks`, `OfferWrites` | `routes/remote/sessions.ts`, `jobs/staleCommandReaper.ts`, `POST /viewer/offer` |
| `Tick`, `Throws`, `Crash`, `JobStalls` | time and faults |

Time is discrete here, because the property is about time: a tick takes one from the
key's life and from every deadline, and adds one to the age of a request. A deadline
counts from the moment the request was *sent* and is `Margin` shorter than the key's
life; that is what `AtMostOneForwarder` rests on. A reply older than `MaxRtt` is not believed either, which the
property would not miss, since such a reply only sets a deadline counted from before it was sent.
`Stalls` lets timers run late. A script runs in Redis whether or not anyone still waits
for it. `Seal` has the awaited revocation (`desktopSessionFinalization.ts:170`) and the transaction after it (180-219)
in one step; the state in between, revoked and not closed, is reached when the transaction fails. Frames and input are not states: `Forwards(c)` says that `c` would relay
one.

### AgentTokens and the code

| State | Code |
|---|---|
| `current`, `pending`, `staged`, `previous`, `grace`, `due` | token hashes of the `devices` row, and whether their windows are open |
| `req` | requests of the agent inside the server, split at the middleware's match, the handler's read and its update |
| `mem`, `disk`, `loaded`, `retry`, `worker` | `secureToken`; `secrets.yaml`; `config.PendingAuthToken`; `pendingRotationOnDisk`; the goroutine that holds `tokenRotating` |
| `saver` | the token a config save is about to write |
| `enroller` | the enroll command, a process beside the agent: the token it presents or was answered, the staged one it loaded |
| `operator`, `revoked` | history: the token an operator was handed; what a reset made invalid |
| `holes` | history: what happened that the protocol is not proof against |

`Authenticate`, `Stage`, `ReadConfirm`, `ReadHeartbeat`, `Promote` and `AdminRotate` are
the server; `Heartbeat`, `Rotate`, `StageOnDisk`, `Confirm`, `PromoteOnDisk`, `SwapMemory`, `Reconcile`
and what they make of the answers, `Restart`, `RevealForSave` and `SaveTo` the agent. The agent
gives up on a request while its handler runs on (`GiveUp`). Builds before two-phase rotation
(`"legacy"`) overwrite their token at once and live by the heartbeat's implicit promotion. A
token stands for the set of the agent's, watchdog's and helper's; the operator's rotation
replaces the agent's only.

Enrollment (`enrollDevice`, `agent/internal/agentapp/main.go:1251-1391`) is a process of its own that runs beside the
agent. `EnrollLoads` takes the token on *disk*, or the operator's; `EnrollChecked` is the route's check,
`EnrollResets` its transaction, `EnrollSaves` the command's `SaveTo`. At any point it may fail
(`EnrollFails`): the answer is lost, or "enrollment succeeded but could not save config". It does not stop the
running agent, whose rotation goes on and may write the file after it, until `Restart` lets the service take up what is
on disk. In the code an enrollment also gives the device another `agent_id`, so a running agent is refused
either way; in the model because all it holds is revoked.

`CurrentIsDurable` and `Recovers` hold except in cases the code does not handle, which the
model records in `holes` rather than forbids:

* `saved`: a config save wrote over the file (finding 5);
* `late`: the update of a confirmation landed after the staging window had closed;
* `restaged`: a second rotation staged over a token that the server had made current and the
  disk had not;
* `unsaved`: an enrollment committed and its answer, or its save, was lost;
* `overwritten`: the running agent finished a rotation over the file an enrollment had saved;
* for `Recovers` only, `unread`: a failed read at start left the retry unarmed.

### SessionTools and RestoreJobs

`SessionTools` has the calls of a session one after the other; `handler` is `makeHandler`'s step
(`services/aiAgentSdkTools.ts`), `hook` that of `createSessionPostToolUse`, `slot` the session's entry
of `pendingIntentBySession`. A handler returns when its hook ends or ten seconds have passed
(`HandlerReturns` has no guard on the hook).

`RestoreJobs` has one job and its command, and what becomes of the job for good, which the `job` of
`DeviceCommands` leaves out; every write of the routes is a transaction of its
own (`runInOrg`), and so a step. Delivery, result and timeout of the command are those of
`DeviceCommands`, reduced to one channel.

## 3. What TLC checks

| Run | Properties | Distinct states | Shows |
|---|---|---|---|
| `intents` | `TypeOK`, `AtMostOnce`, `OnlyReleasedRun`, `ApprovalNotLost`, `FourEyes`, `RecordIsTruthful`, `SingleHolder` | 3,435,414 | deciders, two publisher passes, a job delivery, a chat session with its slot and hooks, one role change and one fault around one intent: the tool starts at most once, only after approval, no approval is lost on its way to the queue, and the row does not lie about what a durable release did |
| `intents_contract` | `ImplementsContract`, `Settles` | 630,123 | two intents with the same key and one session slot implement `IntentContract`, and end if idle transactions are ended |
| `commands` | `TypeOK`, `DeliveredOnce`, `WithdrawnUndelivered`, `HandledOnce`, `SettledStays`, `Settles` | 1,153,053 | a caller, polls or heartbeats, results, a restore job, cancellation and the reaper race for one row; it is handed over and takes effect once, and is closed in the end |
| `desktop_stop` | `ReleaseSparesNewerClaim` | 1,874,500 | two finalization passes re-arm one stop under a heartbeat or poll and a result |
| `desktop_relay` | `TypeOK`, `AtMostOneForwarder`, `FenceMutesAll`, `AccountedWhenSilent` | 3,964,374 | two connections on two replicas, slow replies, late timers, an offer: one relays, none behind a fence |
| `desktop_recovery` | `FenceOutlivesRow`, `LostIsClosed`, `ClosingEnds` | 223,968 | one connection, its job, the sweep and a fault anywhere: the session is closed, and the fence lifted only then |
| `agent_tokens` | `TypeOK`, `RevokedStaysDead`, `CurrentIsDurable`, `Recovers` | 1,233,007 | a rotation with two requests inside the server, an operator's rotation, an enrollment or a save, and a fault anywhere |
| `decide_deadlock`, `send_before_commit`, `session_slot`, `restore_link`, `credential_save` | one each | violated | the findings of section 5 |

**Bounds.** One intent or command per run is enough for the races because different
rows meet only through the idempotency key and a session's slot (`intents_contract` has two intents) and in batches (which the
theorems cover; that one row of a batch fails and others do not is reached only there). In `intents` two users are a requester and another approver, two requests
are two deciders, or a decider and a reporter, a job delivery and a chat session compete for the claim, and
two publisher passes overlap, with two attempts for the row between them; the
theorems have any number of each. `intents_contract` has a session and no deliveries or publishers, to keep liveness
within reach: the durable half of the contract is `RecordIsTruthful` of `intents` and the theorem `KeepsContract`, and
was checked once with a delivery and a publisher as well (5,387,199 states). For commands, two polls and a caller are
three claimants, which a release and two further claims need (`MaxClaims = 3`); two
results are a WebSocket and an HTTP submission. In `desktop_stop` two passes, two
re-arms and three claims let a release arrive after a re-arm and a newer claim.
In the desktop runs a key lives two ticks (`Ttl`), a deadline is one shorter (`Margin`) and a
reply one tick old is still believed (`MaxRtt`): the smallest values for which a reply can be late,
believed and then outlived by its key. `desktop_relay` has two connections on two replicas
and an offer, without faults and sweeps; `desktop_recovery` has one connection, its replica's sweep, the
job with one attempt and a fault. A tick is always possible, so these runs check deadlock too.
`agent_tokens` has the enrolled token and one rotation's or reset's replacement for each build, two
requests (one the agent gave up on, one it waits for), a fault, and one of an operator's rotation, an enrollment
and a save (`MaxEvents = 1`). Their combinations are left to the theorems; the inductive invariant was
checked with two events (2,630,658 states under symmetry).
`MaxFaults` of one or two lets a crash happen at every point, and a second one
during recovery. `CHECK_DEADLOCK FALSE` in the others: a system whose rows are all closed may
stop. Symmetry is used in safety runs only.

**Fairness.** *ActionIntents*: the sweeps are BullMQ repeatable jobs (every 30 s), time
passes, and a handler whose next statement can run runs it. `CommitReap` is strongly
fair, because PostgreSQL queues a waiter while new requests lock and release the rows
it waits for. `KillTransaction` is possible only with `IdleTxTimeout`; the repository's
pool configures no such timeout (a comment in `middleware/agentAuth.ts` mentions the
server's), so `Settles` holds with that setting and `decide_deadlock` shows what happens
without it. *DeviceCommands*: time passes, the reaper (every two minutes) scans and
commits, a heartbeat holding locks ends, and `ReapOne` is strongly fair for the same
reason: heartbeats `SKIP LOCKED` and never overtake it in the lock queue. Nothing is assumed
of approvers, publishers, releasers, hooks, callers, agents or faults. *DesktopSessions*: an awaited call returns, timers
and the sweep's interval fire, time passes, and the agent answers a stop; nothing obliges a viewer to
connect, to stay or to leave. *AgentTokens*: a handler that started runs to its end, the rotation goroutine
and the heartbeat loop go on; nothing obliges the operator, the enroll command or a config save. *RestoreJobs*: the routes' handlers, the
application of a submitted result and the reaper; neither the agent nor whoever may cancel.

## 4. What is proved

TLAPS proves the following for every value of the constants: any number of rows,
users, requests, publishers, releasers, callers, polls, results, connections, replicas and tokens, any
lease times and any bounds.

| Theorem | Statement |
|---|---|
| `ActionIntentsProofs!TypeCorrect` | `Spec => []TypeOK` |
| `StartedAtMostOnce`, `WithdrawnNeverRuns`, `RecordsAreTruthful`, `ClaimIsExclusive` | `[]AtMostOnce`, `[]OnlyReleasedRun`, `[]RecordIsTruthful`, `[]SingleHolder` |
| `ApprovalKept` | `[]ApprovalNotLost` |
| `FourEyesHolds` | `[]FourEyes` |
| `KeepsContract` | `ImplementsContract`, which is `IntentContract!Spec` of the mapped state |
| `DeviceCommandsProofs!TypeCorrect` | `Spec => []TypeOK` |
| `DeliveryAtMostOnce`, `WithdrawalIsHonest` | `[]DeliveredOnce`, `[]WithdrawnUndelivered` |
| `ResultAppliedOnce` | `[]HandledOnce` |
| `ClosedRowsStay` | `SettledStays` |
| `StaleReleaseHarmless` | `ReleaseSparesNewerClaim` |
| `DesktopSessionsProofs!TypeCorrect` | `Spec => []TypeOK` |
| `OneForwarder`, `FenceMutes` | `[]AtMostOneForwarder`, `[]FenceMutesAll` |
| `FenceLasts`, `AccountedInSilence` | `FenceOutlivesRow`, `AccountedWhenSilent` |
| `AgentTokensProofs!TypeCorrect` | `Spec => []TypeOK` |
| `RevokedDead` | `[]RevokedStaysDead` |
| `CurrentDurable` | `[]CurrentIsDurable` |

**Assumptions**: the named `ASSUME`s of the four modules (sessions are not deliveries,
`NoUser` is not a user, `None` neither an intent nor a releaser, bounds are naturals, the kinds of commands are subsets of the
commands; connections, replicas and jobs are different actors and `NoOne` is neither one of them
nor a fence; the safety margin lies within the lease time; `NoToken` is not a token). TLC evaluates
them in every run.

**ActionIntents.** `AtMostOnce` alone is not inductive: nothing in it says that the
releaser about to start the tool is the only one, or that it has not started it before.
`ReleaseInv` adds that the holder of a claim is the releaser that won it (`claimedBy`) and what `runs`, `executed_at`
and `error_code` then are. A row written off as `execution_lost` may still have its one
holder, which is why the stale sweep must not make it claimable again; so may one settled by a hook, but only if
a session holds it, because what is in a slot, and what a hook took from one, was claimed by a session. That is
why no hook can touch a durable release. That a sweep or
a fan-in cannot overtake a claim needs `LockInv`: an intent locked by an open
transaction keeps the status that transaction read. `FourEyes` rests on
`FanOutInv`: rows exist only for the users the fan-out asked, and a request in flight is
about such a row, however roles change in between. `ApprovalNotLost` needs `PublishInv`: what a pass has
enqueued, and so what it will mark as published, is queued, whoever else claimed the same row. One lemma per invariant has one
step per action; frame lemmas dispose of the actions that do not touch it.

**DeviceCommands.** `IndInv` is the conjunction of `TypeOK`, `CallerInv` (an open
transaction is alone in seeing its row), `LockInv` (a row lock belongs to one transaction
and nobody writes under it), `HolderInv` (at most one caller or poll holds a claim it has
not handed over yet, none does once the agent has the row, and a row that is pending,
deleted or cancelled as undelivered has neither a holder nor been handed over) and `ResultInv` (one
handler per row, started by the write that closed it; handlers on the orphan path exist for commands with a restore job
only, and what took effect there has closed that job). `DeliveredOnce` is not inductive
without `HolderInv`: a release must know that no one else is about to deliver the row
it makes pending. The lemma `RowSteps` says what any step can do to one row; the
invariants and `ClosedRowsStay` follow from it.

`ReleaseSparesNewerClaim` also speaks of stop commands, which are re-armed and for which
`HolderInv` says nothing. It needs `ClaimInv`: every caller or poll that still holds a row, however
often the row was re-armed since, has a claim number of its own under which the command has not
been handed over. A release writes only where the row still has its own claim's stamp, so what it takes back was
never handed over.

**The refinement.** An intent's `Phase` is read off its status and error code. One lemma per
action shows which step of `IntentContract` it is; the others leave status, error code
and `runs` alone (`Stutters`). `ReleaseInv` gives what the contract's guards ask of a step that starts the tool or
records its end: the releaser holds the claim, has not run the tool, and the row is executing, written off, or reported by
a hook of the session that holds it. Which kind of execution an intent is in is read off `claimedBy`.
`LockInv` gives the same for a decision: the intent a request has locked is still the one it read.

**DesktopSessions.** `AtMostOneForwarder` compares deadlines kept in two processes, and nothing
in it ties a deadline to the shared key. The inductive invariant has three parts besides `TypeOK`.
`ControlInv`: each actor is at a step of its own program, a finalization has its target, and a
connection that serves or closes is installed. `LeaseInv`: a connection with a running deadline owns the key and the key
outlives the deadline; the same holds of the deadline that a reply still in flight would set (a request that succeeded,
is no older than `MaxRtt` and younger than `Ttl` left the key with at least `Ttl - age`); outside opening, binding
and relaying there is no deadline, and a connection that has not asked owns nothing. This is where the
order in the code matters: the deadline counts from before the request was sent. `FenceInv`: under a fence no connection that would
still use the key owns it, and whoever is about to lift a fence has closed the row. It is proved from what a step may do to an
actor, the owner, the row and the fence (`MayMove`, `OwnerMoves`, `RowMoves`, `FenceMoves`), so that
the argument is made once and not per action. TLC checked the invariant on the instances of both desktop runs.

**AgentTokens.** `ControlInv`: the rotation goroutine waits for at most one request, the one its step
says. `MintedInv`: tokens come in order, nobody holds a later one than the last, and a pending one is the last; so two
tokens in flight can be compared by age. `RevokedInv`: what was revoked is in no column
of the row. A step does one of four things to the row (`RowMoves`: lapse, stage, promote, reset), which is enough for
`RevokedStaysDead`: a promotion takes what the row still holds as pending, and a reset clears it. `CurrentIsDurable`
needs `DurableInv`, for a two-phase agent outside the cases the property names: a confirmation that can still promote the pending
token implies that this token is on the agent's disk; one that succeeded carries the current token unless an operator has replaced it since,
one refused a token that is neither current nor pending; the agent never
authenticates a heartbeat with a pending token; and the token about to be written over the staged one is newer than the
token of any confirmation in flight. The last part is what makes abandoned requests harmless: a
confirmation the agent gave up on may still be promoted, but only until a later rotation has staged over it. An enrollment's reset comes
without the agent's knowledge, so "on disk" becomes "on disk, or revoked like what is there", and `EnrollInv` says why nothing
goes wrong between its commit and its save: everything the agent, its requests and its file hold is revoked by then, hence nothing can be staged or
promoted until the enrolled token is saved. TLC checked the invariant with one and with two events.

**Only model-checked**: the liveness properties (`Settles` of both modules, `LostIsClosed`, `ClosingEnds`,
`Recovers`), because fairness and ENABLED are outside the prover; and of course the violated
properties. Every invariant, action property and refinement that a passing run checks is a theorem.

## 5. Findings

Each has a run that TLC must find violated.

1. `decide_deadlock` (`routes/approvals.ts:852`): the fan-in of a decision runs on a second
   connection while the request's own transaction keeps its approval row locked. It can
   wait for an intent row whose holder waits for that approval row; half of the cycle
   is inside the API process, so PostgreSQL does not detect it.
2. `send_before_commit` (`services/commandQueue.ts:663`): `queueCommandForExecution` sends the
   frame before the transaction of its row commits, against the comment at
   `routes/agents/commands.ts:424`; a fast answer is dropped.
3. `session_slot` (`services/aiAgentSdk.ts:1222`): a post-tool hook that outlives its handler's ten
   seconds takes the next call's intent from the session's slot and settles it with another
   tool's result, against the comment at line 51. No two handlers need to run at once. `ActionIntents` has this slot
   too, and its properties are those that hold in spite of it.
4. `restore_link` (`routes/backup/restore.ts:343`): the result of a restore command may be
   handled before the route links the job to the command; it finds no job, and the link then leaves
   it open for good, running or (in TLC's trace) pending, as the dispatch had reported.
   `apps/docs/src/content/docs/backup/monitoring.mdx:109` promises that a job does not stay so for ever; it speaks of
   commands that time out, and this is one that was answered.
5. `credential_save` (`agent/internal/heartbeat/heartbeat.go:4433`): a config save that took the token from memory
   before a rotation replaced it writes the demoted token over the promoted one, against `agent/internal/config/credentials.go:20`
   ("at every instant, secrets.yaml holds at least one credential set the server will accept"). A second route to the
   same file: `config.PendingAuthToken`, loaded at start, is never cleared, and `SaveTo` prefers it.

Other observations made while modelling, without a run of their own:

* `routes/approvals.ts:901`: "The approver's own approval row already committed above" is not
  so; a releaser in that window fails the intent.
* `routes/approvals.ts:381`: a failed fan-in of a suspicious report is swallowed, and another
  approver can still approve the reported action.
* `jobs/staleCommandReaper.ts:244`: a command that a heartbeat delivers between the reaper's
  `SELECT` and `UPDATE` is failed as "agent never received the command".
* `services/commandQueue.ts:303`: a stop confirmed between the read and the re-arm loses its
  confirmation, against the comment at line 291; the next pass stops the stream again.
* `agent/internal/agentapp/main.go:1385`: an enrollment whose save fails has already revoked the token on disk, and the new one is
  lost with the process; one that succeeds can be overwritten by the rotation of an agent that is still running.
* `routes/desktopWs.ts:961-974`: a ping tick that finds the forwarding deadline at zero clears its
  interval before it looks at the revocation, and a renewal that then succeeds does not start it again;
  the revocation check promised at lines 996-997 no longer runs for that socket.

## 6. Plan

Done: `ActionIntents` with `IntentContract`, `DeviceCommands`, `DesktopSessions` and `AgentTokens`, their
runs and theorems; `SessionTools` and `RestoreJobs`, each with its finding.
Next, in this order:

1. **AgentHub** (`routes/agentWs.ts`): socket epochs, replacement, disconnection; the other kinds of orphaned results.
2. **Script batches and software deployments** over command results: counters and completion.
3. **PAM elevation** fan-in (`routes/approvals.ts:738`) and the one-time reveal of sealed results.
4. **mTLS renewal** and **refresh-token families**.
5. **Go agent**: reconnecting client, worker pool, backup-result outbox, watchdog.

Theorems worth proving next: the part of `session_slot` and `restore_link` that does hold, once stated
as invariants of `SessionTools` and `RestoreJobs` (a settled intent was settled by a hook of its session, a
restore job is completed by a result of its own command).

## 7. Not modelled

Besides the plan: payload contents and encryption, wording, audit, metrics and notifications;
row-level security (device commands have none, and the intents of one organisation meet only
each other); the caps and the order of the sweeps; the per-type processing of results, which is
one step; the operator's `reconcileDesktopFinalizationFence` and terminal sessions; suspension and quarantine of
agent tokens; VM and bare-metal restores; tier-2 confirmations and action plans of AI sessions;
`markCommandsSent` and `submitCommandResult`, which nothing calls. The front ends,
billing, tickets and the executors for external services are listed in PROJECT.json with reasons.
