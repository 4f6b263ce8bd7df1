--------------------------- MODULE ActionIntents ---------------------------
(***************************************************************************)
(* The human-approval layer in front of destructive (tier 3) AI actions.   *)
(*                                                                         *)
(* An intent row (action_intents) is created with one approval row per     *)
(* eligible approver (approval_requests).  Approvers decide over HTTP; the *)
(* first decision wins.  An approved intent has two kinds of releasers,    *)
(* the durable worker (one job per delivery) and the chat sessions that    *)
(* asked for it, which race for the approved -> executing compare-and-swap *)
(* and then run the tool.  Three sweeps expire, fail or tidy what is left. *)
(*                                                                         *)
(* PostgreSQL is modelled at READ COMMITTED.  The variables hold committed *)
(* values.  authMiddleware runs a whole HTTP handler inside one            *)
(* transaction, so an approver's own row is written there and becomes      *)
(* visible only when the handler returns, while the decision on the intent *)
(* is committed earlier, on another connection (runOutsideDbContext).  A   *)
(* row written by an open transaction is locked; a statement that would    *)
(* write it waits (the action is disabled), FOR UPDATE SKIP LOCKED skips.  *)
(*                                                                         *)
(* Two intents meet in two places.  All intents of an instance carry the   *)
(* same (org, idempotency key).  And a chat session has one slot for the   *)
(* intent whose tool it runs (pendingIntentBySession): the post-tool hook  *)
(* of any of its calls settles the intent it finds there.                  *)
(*                                                                         *)
(* Of the outbox only the intent_approved rows are modelled: the worker    *)
(* acknowledges intent_created without doing anything.                     *)
(***************************************************************************)
EXTENDS Naturals, FiniteSets

CONSTANTS
    Intents,        \* ids of action_intents rows
    Users,          \* users who may hold approvals:decide for the org
    Requests,       \* slots for concurrent HTTP requests on /approvals
    Deliveries,     \* slots for concurrent deliveries of a release job
    Sessions,       \* chat sessions, as releasers
    Publishers,     \* passes of the outbox publisher that may overlap (replicas)
    NoUser,         \* "no user"
    None,           \* "no intent" in a slot, "no releaser" of an intent
    MaxPublishAttempts, \* MAX_PUBLISH_ATTEMPTS
    IdleTxTimeout,  \* PostgreSQL kills sessions that sit idle in a transaction
    MaxRoleChanges, \* bound: how often the set of eligible approvers changes
    MaxFaults       \* bound: crashes and database faults

ASSUME SessionsAssumption == Sessions \cap Deliveries = {}
ASSUME NoUserAssumption == NoUser \notin Users
ASSUME NoneAssumption == None \notin Intents \cup Deliveries \cup Sessions
ASSUME IdleTxTimeoutAssumption == IdleTxTimeout \in BOOLEAN
ASSUME BoundsAssumption == /\ MaxRoleChanges \in Nat /\ MaxFaults \in Nat
                           /\ MaxPublishAttempts \in Nat

Releasers == Deliveries \cup Sessions

Live == {"pending_approval", "approved", "executing"}
Withdrawn == {"rejected", "expired", "cancelled"}
Terminal == Withdrawn \cup {"completed", "failed"}
Statuses == {"absent"} \cup Live \cup Terminal

RowStatuses == {"none", "pending", "approved", "denied", "reported", "expired"}
Verdicts == {"approved", "denied", "reported"}

\* Where an HTTP handler stands: "checked" has passed its reads, "written" has
\* updated its own approval row (uncommitted), "deciding" also holds the intent
\* row inside the fan-in transaction, "closing" is past the fan-in.
RequestSteps == {"checked", "written", "deciding", "closing"}
HoldsOwnRow == {"written", "deciding", "closing"}

\* Where a releaser stands with one intent: "waiting" is a chat session polling
\* for a decision, "won" holds the claim, "vouched"/"unvouched" has read
\* the approval rows and did/did not find an approved one, "authorized" is a
\* session that has put the intent in its slot and not yet called the tool.
HoldsClaim == {"won", "vouched", "unvouched", "authorized", "running"}
ReleaseSteps == {"idle", "waiting"} \cup HoldsClaim

ErrorCodes == {"none", "no_eligible_approvers", "digest_mismatch", "not_run",
               "tool_failed", "execution_lost"}

VARIABLES
    status,      \* action_intents.status
    requester,   \* action_intents.requested_by_user_id
    decidedBy,   \* action_intents.decided_by_user_id
    errorCode,   \* action_intents.error_code
    executedAt,  \* action_intents.executed_at IS NOT NULL
    past,        \* the clock is past expires_at (intent and its approval rows)
    stale,       \* execution_started_at is more than 20 minutes ago
    approval,    \* approval_requests.status of each user's row
    outbox,      \* the intent's intent_approved row in intent_outbox
    attempts,    \* its publish_attempts
    batch,       \* rows a publisher's pass has claimed and not yet enqueued
    sent,        \* rows it has enqueued and not yet marked published
    queued,      \* intents whose release job has been handed to the queue
    resolved,    \* approvers resolved by a creator that has not inserted yet
    eligible,    \* users who now hold approvals:decide over the org
    roleChanges, \* how often eligible has changed
    faults,      \* how many crashes and faults there have been
    req,         \* the HTTP requests in flight
    rel,         \* the releasers of each intent
    slot,        \* pendingIntentBySession: the intent in a session's slot
    taken,       \* intents a post-tool hook has picked up and will settle
    reaping,     \* intents locked by the expiry sweep's open transaction
    claimedBy,   \* history: the releaser that won the intent's claim
    runs         \* history: how many times the intent's tool was started

intentVars == <<status, requester, decidedBy, errorCode, executedAt, outbox>>
clockVars == <<past, stale>>
envVars == <<eligible, roleChanges>>
releaseVars == <<slot, taken, claimedBy, runs>>
publishVars == <<attempts, batch, sent, queued>>
vars == <<intentVars, clockVars, envVars, faults, approval, resolved, req, rel,
          reaping, releaseVars, publishVars>>

NotResolved == {NoUser}
NoRequest == [step |-> "idle"]
ActiveRequest == [step: RequestSteps, intent: Intents, user: Users,
                  verdict: Verdicts, alive: BOOLEAN]

TypeOK ==
    /\ status \in [Intents -> Statuses]
    /\ requester \in [Intents -> Users \cup {NoUser}]
    /\ decidedBy \in [Intents -> Users \cup {NoUser}]
    /\ errorCode \in [Intents -> ErrorCodes]
    /\ executedAt \in [Intents -> BOOLEAN]
    /\ past \in [Intents -> BOOLEAN]
    /\ stale \in [Intents -> BOOLEAN]
    /\ approval \in [Intents -> [Users -> RowStatuses]]
    /\ outbox \in [Intents -> {"none", "unpublished", "published"}]
    /\ attempts \in [Intents -> 0 .. MaxPublishAttempts + 1]
    /\ batch \in [Publishers -> SUBSET Intents]
    /\ sent \in [Publishers -> SUBSET Intents]
    /\ queued \in SUBSET Intents
    /\ resolved \in [Intents -> (SUBSET Users) \cup {NotResolved}]
    /\ eligible \in SUBSET Users
    /\ roleChanges \in 0..MaxRoleChanges
    /\ faults \in 0..MaxFaults
    /\ req \in [Requests -> ActiveRequest \cup {NoRequest}]
    /\ rel \in [Intents -> [Releasers -> ReleaseSteps]]
    /\ slot \in [Sessions -> Intents \cup {None}]
    /\ taken \in SUBSET Intents
    /\ reaping \in SUBSET Intents
    /\ claimedBy \in [Intents -> Releasers \cup {None}]
    /\ runs \in [Intents -> Nat]

Init ==
    /\ status = [i \in Intents |-> "absent"]
    /\ requester = [i \in Intents |-> NoUser]
    /\ decidedBy = [i \in Intents |-> NoUser]
    /\ errorCode = [i \in Intents |-> "none"]
    /\ executedAt = [i \in Intents |-> FALSE]
    /\ past = [i \in Intents |-> FALSE]
    /\ stale = [i \in Intents |-> FALSE]
    /\ approval = [i \in Intents |-> [u \in Users |-> "none"]]
    /\ outbox = [i \in Intents |-> "none"]
    /\ attempts = [i \in Intents |-> 0]
    /\ batch = [p \in Publishers |-> {}]
    /\ sent = [p \in Publishers |-> {}]
    /\ queued = {}
    /\ resolved = [i \in Intents |-> NotResolved]
    /\ eligible \in SUBSET Users
    /\ roleChanges = 0
    /\ faults = 0
    /\ req = [d \in Requests |-> NoRequest]
    /\ rel = [i \in Intents |-> [r \in Releasers |-> "idle"]]
    /\ slot = [s \in Sessions |-> None]
    /\ taken = {}
    /\ reaping = {}
    /\ claimedBy = [i \in Intents |-> None]
    /\ runs = [i \in Intents |-> 0]

-----------------------------------------------------------------------------
(* Row locks held by open transactions.                                    *)

IntentLocked(i) ==
    \/ i \in reaping
    \/ \E d \in Requests : req[d].step = "deciding" /\ req[d].intent = i

RowLocked(i, u) ==
    \E d \in Requests :
        /\ req[d].step \in HoldsOwnRow /\ req[d].alive
        /\ req[d].intent = i /\ req[d].user = u

\* A crash or fault, of which there are finitely many.
Fault == faults < MaxFaults /\ faults' = faults + 1

-----------------------------------------------------------------------------
(* createActionIntent: the approvers are resolved before the transaction   *)
(* that inserts the intent, its approval rows and its outbox row.          *)

ResolveIntentApprovers(i) ==
    /\ status[i] = "absent" /\ resolved[i] = NotResolved
    /\ resolved' = [resolved EXCEPT ![i] = eligible]
    /\ UNCHANGED <<intentVars, clockVars, envVars, faults, approval, req, rel,
                   reaping, releaseVars, publishVars>>

\* Mutant of FanOut: the requester is not excluded.
FanOutToAll(u, approvers) == approvers

\* The users an approval row is inserted for: the other eligible approvers, or
\* the requester when it is the only one (the sole operator).
FanOut(u, approvers) ==
    IF approvers \ {u} # {} THEN approvers \ {u} ELSE approvers

\* Mutant of LiveIntentExists: the index covers undecided intents only.
UndecidedIntentExists == \E j \in Intents : status[j] = "pending_approval"

\* The partial unique index admits one live row per (org, idempotency key).
LiveIntentExists == \E j \in Intents : status[j] \in Live

\* The caller of createActionIntent: a chat session, which then waits for a
\* decision, or an MCP client, which does not.
Callers == {{}} \cup {{s} : s \in Sessions}

StartWaiting(i, caller) ==
    [rel EXCEPT ![i] = [r \in Releasers |->
        IF r \in caller /\ rel[i][r] = "idle" THEN "waiting" ELSE rel[i][r]]]

CreateActionIntent(i, u, caller) ==
    LET asked == FanOut(u, resolved[i])
    IN  /\ status[i] = "absent" /\ resolved[i] # NotResolved
        /\ ~LiveIntentExists
        /\ status' = [status EXCEPT ![i] =
                         IF asked = {} THEN "cancelled" ELSE "pending_approval"]
        /\ errorCode' = [errorCode EXCEPT ![i] =
                            IF asked = {} THEN "no_eligible_approvers" ELSE "none"]
        /\ requester' = [requester EXCEPT ![i] = u]
        /\ approval' = [approval EXCEPT ![i] =
                           [v \in Users |-> IF v \in asked THEN "pending" ELSE "none"]]
        /\ resolved' = [resolved EXCEPT ![i] = NotResolved]
        /\ rel' = StartWaiting(i, caller)
        /\ UNCHANGED <<clockVars, envVars, faults, decidedBy, executedAt, outbox, req,
                       reaping, releaseVars, publishVars>>

\* The insert conflicts with a live intent: the caller converges on that row.
ReplayActionIntent(i, caller) ==
    /\ status[i] = "absent" /\ resolved[i] # NotResolved
    /\ LiveIntentExists
    /\ resolved' = [resolved EXCEPT ![i] = NotResolved]
    /\ \E j \in Intents : status[j] \in Live /\ rel' = StartWaiting(j, caller)
    /\ UNCHANGED <<intentVars, clockVars, envVars, faults, approval, req, reaping,
                   releaseVars, publishVars>>

\* cancelActionIntent: no approval row is touched.
CancelActionIntent(i) ==
    /\ status[i] \in {"pending_approval", "approved"} /\ ~IntentLocked(i)
    /\ status' = [status EXCEPT ![i] = "cancelled"]
    /\ UNCHANGED <<clockVars, envVars, faults, requester, decidedBy, errorCode,
                   executedAt, outbox, approval, resolved, req, rel, reaping,
                   releaseVars, publishVars>>

-----------------------------------------------------------------------------
(* decideHandler and report-suspicious.                                    *)

\* An approve needs the decider's current permission; the requester may approve
\* only while it is the only eligible approver.
MayApprove(i, u) ==
    /\ u \in eligible
    /\ u = requester[i] => eligible = {u}

\* The handler's reads: its own row, the linked intent, the live permissions.
ReadApproval(d, i, u, verdict) ==
    /\ req[d] = NoRequest
    /\ approval[i][u] = "pending"
    /\ verdict # "reported" => ~past[i]
    /\ verdict = "approved" => MayApprove(i, u)
    /\ req' = [req EXCEPT ![d] =
                  [step |-> "checked", intent |-> i, user |-> u, verdict |-> verdict,
                   alive |-> TRUE]]
    /\ UNCHANGED <<intentVars, clockVars, envVars, faults, approval, resolved,
                   rel, reaping, releaseVars, publishVars>>

\* A decision is a compare-and-swap on the own row; a report updates it whatever
\* it has become since it was read.
OwnRowUpdatable(i, u, verdict) ==
    verdict = "reported" \/ (approval[i][u] = "pending" /\ ~past[i])

\* The own row is written inside the request transaction (not yet visible).
WriteOwnRow(d) ==
    LET q == req[d]
    IN  /\ q.step = "checked"
        /\ ~RowLocked(q.intent, q.user)
        /\ req' = [req EXCEPT ![d] =
                      IF OwnRowUpdatable(q.intent, q.user, q.verdict)
                      THEN [q EXCEPT !.step = "written"] ELSE NoRequest]
        /\ UNCHANGED <<intentVars, clockVars, envVars, faults, approval, resolved,
                       rel, reaping, releaseVars, publishVars>>

\* The fan-in transaction's first statement: first decision wins.
FanInCas(d) ==
    LET q == req[d]
    IN  /\ q.step = "written"
        /\ ~IntentLocked(q.intent)
        /\ req' = [req EXCEPT ![d].step =
                      IF status[q.intent] = "pending_approval" THEN "deciding" ELSE "closing"]
        /\ UNCHANGED <<intentVars, clockVars, envVars, faults, approval, resolved,
                       rel, reaping, releaseVars, publishVars>>

\* Mutant of IntentTargetStatus: the verdict is written as it is.
VerdictAsStatus(verdict) == verdict

\* A denial and a report both reject the intent.
IntentTargetStatus(verdict) == IF verdict = "approved" THEN "approved" ELSE "rejected"

\* Its other statements and its commit.  The sibling update waits for every
\* pending sibling row that another open request transaction has written.
FanInCommit(d) ==
    LET q == req[d]
        i == q.intent
    IN  /\ q.step = "deciding"
        /\ \A v \in Users \ {q.user} : approval[i][v] = "pending" => ~RowLocked(i, v)
        /\ status' = [status EXCEPT ![i] = IntentTargetStatus(q.verdict)]
        /\ decidedBy' = [decidedBy EXCEPT ![i] = q.user]
        /\ approval' = [approval EXCEPT ![i] =
                           [v \in Users |-> IF v # q.user /\ approval[i][v] = "pending"
                                            THEN "expired" ELSE approval[i][v]]]
        /\ outbox' = [outbox EXCEPT ![i] = IF q.verdict = "approved" THEN "unpublished" ELSE @]
        /\ req' = [req EXCEPT ![d].step = "closing"]
        /\ UNCHANGED <<clockVars, envVars, faults, requester, errorCode,
                       executedAt, resolved, rel, reaping, releaseVars, publishVars>>

\* A fault in the fan-in rolls it back and is swallowed by the handler.
FanInFail(d) ==
    /\ Fault
    /\ req[d].step \in {"written", "deciding"}
    /\ req' = [req EXCEPT ![d].step = "closing"]
    /\ UNCHANGED <<intentVars, clockVars, envVars, approval, resolved, rel,
                   reaping, releaseVars, publishVars>>

\* The handler returns and authMiddleware's transaction commits the own row.
CommitRequest(d) ==
    LET q == req[d]
    IN  /\ q.step = "closing"
        /\ approval' = [approval EXCEPT ![q.intent][q.user] =
                           IF q.alive THEN q.verdict ELSE @]
        /\ req' = [req EXCEPT ![d] = NoRequest]
        /\ UNCHANGED <<intentVars, clockVars, envVars, faults, resolved, rel,
                       reaping, releaseVars, publishVars>>

\* idle_in_transaction_session_timeout ends the request transaction while the
\* handler waits for the fan-in's connection: the own row is rolled back, the
\* fan-in goes on.
KillTransaction(d) ==
    /\ IdleTxTimeout
    /\ req[d].step \in {"written", "deciding"} /\ req[d].alive
    /\ req' = [req EXCEPT ![d].alive = FALSE]
    /\ UNCHANGED <<intentVars, clockVars, envVars, faults, approval, resolved,
                   rel, reaping, releaseVars, publishVars>>

\* The API process dies: its open transactions are rolled back, a fan-in already
\* committed stays.
AbortRequest(d) ==
    /\ Fault
    /\ req[d] # NoRequest
    /\ req' = [req EXCEPT ![d] = NoRequest]
    /\ UNCHANGED <<intentVars, clockVars, envVars, approval, resolved, rel,
                   reaping, releaseVars, publishVars>>

-----------------------------------------------------------------------------
(* publishOutboxRows: claim rows and count the attempt (one transaction),   *)
(* enqueue their jobs outside any transaction, mark those enqueued (another *)
(* transaction).  Nothing ties two passes on different replicas together.   *)

Unpublished(i) == outbox[i] = "unpublished" /\ attempts[i] <= MaxPublishAttempts

ClaimOutboxRows(p) ==
    /\ batch[p] = {} /\ sent[p] = {}
    /\ \E i \in Intents : Unpublished(i)
    /\ batch' = [batch EXCEPT ![p] = {i \in Intents : Unpublished(i)}]
    /\ attempts' = [i \in Intents |-> IF Unpublished(i) THEN attempts[i] + 1 ELSE attempts[i]]
    /\ UNCHANGED <<intentVars, clockVars, envVars, faults, approval, resolved, req, rel,
                   reaping, releaseVars, sent, queued>>

\* queue.add: the job's id is fixed, a second add of the same row adds nothing.
EnqueueRow(p, i) ==
    /\ i \in batch[p]
    /\ batch' = [batch EXCEPT ![p] = @ \ {i}]
    /\ sent' = [sent EXCEPT ![p] = @ \cup {i}]
    /\ queued' = queued \cup {i}
    /\ UNCHANGED <<intentVars, clockVars, envVars, faults, approval, resolved, req, rel,
                   reaping, releaseVars, attempts>>

\* Mutant of EnqueueFails: the row is marked with those that were enqueued.
EnqueueFailsUnnoticed(p, i) ==
    /\ Fault
    /\ i \in batch[p]
    /\ batch' = [batch EXCEPT ![p] = @ \ {i}]
    /\ sent' = [sent EXCEPT ![p] = @ \cup {i}]
    /\ UNCHANGED <<intentVars, clockVars, envVars, approval, resolved, req, rel, reaping,
                   releaseVars, attempts, queued>>

\* Redis refuses: the row stays unpublished, its attempt is used.
EnqueueFails(p, i) ==
    /\ Fault
    /\ i \in batch[p]
    /\ batch' = [batch EXCEPT ![p] = @ \ {i}]
    /\ UNCHANGED <<intentVars, clockVars, envVars, approval, resolved, req, rel, reaping,
                   releaseVars, attempts, sent, queued>>

MarkPublished(p) ==
    /\ batch[p] = {} /\ sent[p] # {}
    /\ outbox' = [i \in Intents |-> IF i \in sent[p] THEN "published" ELSE outbox[i]]
    /\ sent' = [sent EXCEPT ![p] = {}]
    /\ UNCHANGED <<clockVars, envVars, faults, status, requester, decidedBy, errorCode,
                   executedAt, approval, resolved, req, rel, reaping, releaseVars,
                   attempts, batch, queued>>

\* The pass dies: its process, or the transaction that marks the rows.
CrashPublisher(p) ==
    /\ Fault
    /\ batch[p] \cup sent[p] # {}
    /\ batch' = [batch EXCEPT ![p] = {}]
    /\ sent' = [sent EXCEPT ![p] = {}]
    /\ UNCHANGED <<intentVars, clockVars, envVars, approval, resolved, req, rel, reaping,
                   releaseVars, attempts, queued>>

-----------------------------------------------------------------------------
(* Release.  A queued job may be delivered any number of times (BullMQ runs *)
(* a stalled job again); the session polls the status.                      *)

Ready(i, r) ==
    IF r \in Sessions THEN rel[i][r] = "waiting" /\ status[i] # "pending_approval"
                      ELSE rel[i][r] = "idle" /\ i \in queued

\* Mutant of Claimable: a redelivered job may claim what is already executing.
Reclaimable(i) == status[i] \in {"approved", "executing"} /\ ~past[i]

\* transitionIntent(approved -> executing, requireNotExpired), the single
\* mutual-exclusion point between the releasers.
Claimable(i) == status[i] = "approved" /\ ~past[i]

Claim(i, r) ==
    /\ Ready(i, r) /\ Claimable(i) /\ ~IntentLocked(i)
    /\ status' = [status EXCEPT ![i] = "executing"]
    /\ rel' = [rel EXCEPT ![i][r] = "won"]
    /\ claimedBy' = [claimedBy EXCEPT ![i] = r]
    /\ UNCHANGED <<clockVars, envVars, faults, requester, decidedBy, errorCode,
                   executedAt, outbox, approval, resolved, req, reaping, slot, taken,
                   runs, publishVars>>

\* A session lost the race, saw a withdrawal, timed out or was aborted; it never
\* writes.  (A delivery that loses its claim just ends: no change.)
StopWaiting(i, r) ==
    /\ rel[i][r] = "waiting"
    /\ rel' = [rel EXCEPT ![i][r] = "idle"]
    /\ UNCHANGED <<intentVars, clockVars, envVars, faults, approval, resolved,
                   req, reaping, releaseVars, publishVars>>

\* The winner reads the committed approval rows.
LoadApproval(i, r) ==
    /\ rel[i][r] = "won"
    /\ rel' = [rel EXCEPT ![i][r] =
                  IF \E u \in Users : approval[i][u] = "approved"
                  THEN "vouched" ELSE "unvouched"]
    /\ UNCHANGED <<intentVars, clockVars, envVars, faults, approval, resolved,
                   req, reaping, releaseVars, publishVars>>

\* transitionIntent(executing -> to): zero rows when somebody else came first.
Transition(i, to, code, executed) ==
    /\ ~IntentLocked(i)
    /\ IF status[i] = "executing"
       THEN /\ status' = [status EXCEPT ![i] = to]
            /\ errorCode' = [errorCode EXCEPT ![i] = code]
            /\ executedAt' = [executedAt EXCEPT ![i] = IF executed THEN TRUE ELSE @]
       ELSE UNCHANGED <<status, errorCode, executedAt>>
    /\ UNCHANGED <<clockVars, envVars, faults, requester, decidedBy, outbox, approval,
                   resolved, req, reaping, claimedBy, runs, publishVars>>

Finish(i, r, to, code, executed) ==
    /\ Transition(i, to, code, executed)
    /\ rel' = [rel EXCEPT ![i][r] = "idle"]
    /\ UNCHANGED <<slot, taken>>

\* revalidateApprovedIntentForRelease refuses: without an approved row always
\* (digest_mismatch), with one when tier, actor, org or permission changed, the
\* tool needs a session, or its connection is unavailable (not_run).  A session
\* also gives its claim up when anything throws before the tool is started; what
\* it has put in its slot stays there.
RefuseRelease(i, r) ==
    \/ r \in Sessions /\ rel[i][r] \in {"won", "unvouched", "authorized"}
         /\ Finish(i, r, "failed", "not_run", FALSE)
    \/ rel[i][r] = "unvouched" /\ Finish(i, r, "failed", "digest_mismatch", FALSE)
    \/ rel[i][r] = "vouched" /\ Finish(i, r, "failed", "not_run", FALSE)

\* A session leaves the intent in its slot, then updates its execution record.
AuthorizeCall(i, s) ==
    /\ rel[i][s] = "vouched"
    /\ rel' = [rel EXCEPT ![i][s] = "authorized"]
    /\ slot' = [slot EXCEPT ![s] = i]
    /\ UNCHANGED <<intentVars, clockVars, envVars, faults, approval, resolved, req,
                   reaping, taken, claimedBy, runs, publishVars>>

RunTool(i, r) ==
    /\ rel[i][r] = IF r \in Sessions THEN "authorized" ELSE "vouched"
    /\ rel' = [rel EXCEPT ![i][r] = "running"]
    /\ runs' = [runs EXCEPT ![i] = @ + 1]
    /\ UNCHANGED <<intentVars, clockVars, envVars, faults, approval, resolved,
                   req, reaping, slot, taken, claimedBy, publishVars>>

\* Mutant of RecordOutcome: a failure of the tool does not set executed_at.
RecordOutcomeNoStamp(i, r) ==
    /\ rel[i][r] = "running"
    /\ \/ Finish(i, r, "completed", "none", TRUE)
       \/ Finish(i, r, "failed", "tool_failed", FALSE)

\* A delivery's tool returned, returned an error, threw or exceeded its timeout.
RecordOutcome(i, r) ==
    /\ rel[i][r] = "running"
    /\ \/ Finish(i, r, "completed", "none", TRUE)
       \/ Finish(i, r, "failed", "tool_failed", TRUE)

\* A delivery's process dies; the claim stays in the row.
CrashDelivery(i, r) ==
    /\ Fault
    /\ rel[i][r] \in HoldsClaim
    /\ rel' = [rel EXCEPT ![i][r] = "idle"]
    /\ UNCHANGED <<intentVars, clockVars, envVars, approval, resolved, req,
                   reaping, releaseVars, publishVars>>

-----------------------------------------------------------------------------
(* A session's calls.  Its tool's outcome is written by a post-tool hook,   *)
(* which every call of tier 2 or 3 runs, the refused ones too, and which    *)
(* may lag behind its call: the handler waits ten seconds for it.           *)

\* The tool has returned and the handler goes on (its hook is PostToolHook).
EndCall(i, s) ==
    /\ rel[i][s] = "running"
    /\ rel' = [rel EXCEPT ![i][s] = "idle"]
    /\ UNCHANGED <<intentVars, clockVars, envVars, faults, approval, resolved, req,
                   reaping, releaseVars, publishVars>>

\* The hook of a call whose tool handed it the intent's id with a sealed result.
SealedHook(i, s) ==
    /\ rel[i][s] = "running"
    /\ rel' = [rel EXCEPT ![i][s] = "idle"]
    /\ taken' = taken \cup {i}
    /\ slot' = [slot EXCEPT ![s] = None]
    /\ UNCHANGED <<intentVars, clockVars, envVars, faults, approval, resolved, req,
                   reaping, claimedBy, runs, publishVars>>

\* The hook of any other call, this or an earlier one, takes what the slot holds.
PostToolHook(s) ==
    /\ slot[s] # None
    /\ taken' = taken \cup {slot[s]}
    /\ slot' = [slot EXCEPT ![s] = None]
    /\ UNCHANGED <<intentVars, clockVars, envVars, faults, approval, resolved, req, rel,
                   reaping, claimedBy, runs, publishVars>>

\* The hook writes its own call's outcome on the intent it took.
SettleTaken(i) ==
    /\ i \in taken
    /\ \/ Transition(i, "completed", "none", TRUE)
       \/ Transition(i, "failed", "tool_failed", TRUE)
    /\ taken' = taken \ {i}
    /\ UNCHANGED <<rel, slot>>

\* The write fails, and the hook only logs it.
SettleFails(i) ==
    /\ Fault
    /\ i \in taken
    /\ taken' = taken \ {i}
    /\ UNCHANGED <<intentVars, clockVars, envVars, approval, resolved, req, rel, reaping,
                   slot, claimedBy, runs, publishVars>>

\* The session's process dies with its calls, its slot and its hooks.
CrashSession(s) ==
    /\ Fault
    /\ rel' = [i \in Intents |-> [rel[i] EXCEPT ![s] = "idle"]]
    /\ slot' = [slot EXCEPT ![s] = None]
    /\ taken' = {i \in taken : claimedBy[i] # s}
    /\ UNCHANGED <<intentVars, clockVars, envVars, approval, resolved, req, reaping,
                   claimedBy, runs, publishVars>>

-----------------------------------------------------------------------------
(* The sweeps, and the environment.                                        *)

\* Mutants of Due: the sweep takes executing intents too, or undecided ones only.
DueWhateverLive(i) == status[i] \in Live /\ past[i] /\ ~IntentLocked(i)
DueUndecided(i) == status[i] = "pending_approval" /\ past[i] /\ ~IntentLocked(i)

\* reapExpiredIntents: one transaction locks the due intents it can lock ...
Due(i) == status[i] \in {"pending_approval", "approved"} /\ past[i] /\ ~IntentLocked(i)

BeginReap ==
    /\ reaping = {}
    /\ \E i \in Intents : Due(i)
    /\ reaping' = {i \in Intents : Due(i)}
    /\ UNCHANGED <<intentVars, clockVars, envVars, faults, approval, resolved,
                   req, rel, releaseVars, publishVars>>

\* ... then expires their pending approval rows, waiting for the locked ones.
CommitReap ==
    /\ reaping # {}
    /\ \A i \in reaping, u \in Users : approval[i][u] = "pending" => ~RowLocked(i, u)
    /\ status' = [i \in Intents |-> IF i \in reaping THEN "expired" ELSE status[i]]
    /\ approval' = [i \in Intents |-> [u \in Users |->
                       IF i \in reaping /\ approval[i][u] = "pending"
                       THEN "expired" ELSE approval[i][u]]]
    /\ reaping' = {}
    /\ UNCHANGED <<clockVars, envVars, faults, requester, decidedBy, errorCode,
                   executedAt, outbox, resolved, req, rel, releaseVars, publishVars>>

AbortReap ==
    /\ Fault
    /\ reaping # {}
    /\ reaping' = {}
    /\ UNCHANGED <<intentVars, clockVars, envVars, approval, resolved, req, rel,
                   releaseVars, publishVars>>

\* Mutant of ReapStaleExecuting: a stale execution is given back for release.
RetryStaleExecuting(i) ==
    /\ status[i] = "executing" /\ ~executedAt[i] /\ stale[i] /\ ~IntentLocked(i)
    /\ status' = [status EXCEPT ![i] = "approved"]
    /\ UNCHANGED <<clockVars, envVars, faults, requester, decidedBy, errorCode,
                   executedAt, outbox, approval, resolved, req, rel, reaping,
                   releaseVars, publishVars>>

\* reapStaleExecutingIntents
ReapStaleExecuting(i) ==
    /\ status[i] = "executing" /\ ~executedAt[i] /\ stale[i] /\ ~IntentLocked(i)
    /\ status' = [status EXCEPT ![i] = "failed"]
    /\ errorCode' = [errorCode EXCEPT ![i] = "execution_lost"]
    /\ UNCHANGED <<clockVars, envVars, faults, requester, decidedBy, executedAt,
                   outbox, approval, resolved, req, rel, reaping, releaseVars, publishVars>>

\* reapExpiredApprovals (skips locked rows)
ReapExpiredApprovals(i) ==
    LET dueRows == {u \in Users : approval[i][u] = "pending" /\ ~RowLocked(i, u)}
    IN  /\ past[i] /\ dueRows # {}
        /\ approval' = [approval EXCEPT ![i] =
                           [u \in Users |-> IF u \in dueRows THEN "expired"
                                            ELSE approval[i][u]]]
        /\ UNCHANGED <<intentVars, clockVars, envVars, faults, resolved, req, rel,
                       reaping, releaseVars, publishVars>>

PassDeadline(i) ==
    /\ status[i] # "absent" /\ ~past[i]
    /\ past' = [past EXCEPT ![i] = TRUE]
    /\ UNCHANGED <<intentVars, envVars, faults, stale, approval, resolved, req,
                   rel, reaping, releaseVars, publishVars>>

\* Twenty minutes pass since the claim; nothing bounds how long a stalled
\* releaser (event loop, database) takes, so it may still hold the claim.
PassStaleTimeout(i) ==
    /\ status[i] = "executing" /\ ~stale[i]
    /\ stale' = [stale EXCEPT ![i] = TRUE]
    /\ UNCHANGED <<intentVars, envVars, faults, past, approval, resolved, req,
                   rel, reaping, releaseVars, publishVars>>

ChangeRole(u) ==
    /\ roleChanges < MaxRoleChanges
    /\ roleChanges' = roleChanges + 1
    /\ eligible' = IF u \in eligible THEN eligible \ {u} ELSE eligible \cup {u}
    /\ UNCHANGED <<intentVars, clockVars, faults, approval, resolved, req, rel,
                   reaping, releaseVars, publishVars>>

-----------------------------------------------------------------------------

Service(i) ==
    \/ ResolveIntentApprovers(i)
    \/ \E u \in Users, caller \in Callers : CreateActionIntent(i, u, caller)
    \/ \E caller \in Callers : ReplayActionIntent(i, caller)
    \/ CancelActionIntent(i)

Approvals(d) ==
    \/ \E i \in Intents, u \in Users, v \in Verdicts : ReadApproval(d, i, u, v)
    \/ WriteOwnRow(d) \/ FanInCas(d) \/ FanInCommit(d) \/ FanInFail(d)
    \/ CommitRequest(d) \/ KillTransaction(d) \/ AbortRequest(d)

Publish(p) ==
    \/ ClaimOutboxRows(p) \/ MarkPublished(p) \/ CrashPublisher(p)
    \/ \E i \in Intents : EnqueueRow(p, i) \/ EnqueueFails(p, i)

Release(i, r) ==
    \/ Claim(i, r) \/ StopWaiting(i, r) \/ LoadApproval(i, r) \/ RefuseRelease(i, r)
    \/ RunTool(i, r)

Deliver(i, r) == RecordOutcome(i, r) \/ CrashDelivery(i, r)

Call(i, s) == AuthorizeCall(i, s) \/ EndCall(i, s) \/ SealedHook(i, s)

Hooks ==
    \/ \E i \in Intents : SettleTaken(i) \/ SettleFails(i)
    \/ \E s \in Sessions : PostToolHook(s) \/ CrashSession(s)

Sweeps ==
    \/ BeginReap \/ CommitReap \/ AbortReap
    \/ \E i \in Intents : ReapStaleExecuting(i) \/ ReapExpiredApprovals(i)

Environment ==
    \/ \E i \in Intents : PassDeadline(i) \/ PassStaleTimeout(i)
    \/ \E u \in Users : ChangeRole(u)

Next ==
    \/ \E i \in Intents : Service(i)
    \/ \E d \in Requests : Approvals(d)
    \/ \E p \in Publishers : Publish(p)
    \/ \E i \in Intents, r \in Releasers : Release(i, r)
    \/ \E i \in Intents, r \in Deliveries : Deliver(i, r)
    \/ \E i \in Intents, s \in Sessions : Call(i, s)
    \/ Hooks
    \/ Sweeps
    \/ Environment

Spec == Init /\ [][Next]_vars

-----------------------------------------------------------------------------
(* Fairness.  The sweeps are BullMQ repeatable jobs (every 30 s) and time   *)
(* passes.  A handler whose next statement can run does run it.  Nothing is *)
(* assumed of approvers, the publisher, releasers, hooks or faults.         *)
(* CommitReap is strongly fair: the rows it waits for may be locked and     *)
(* released again by new requests.                                          *)

HandlerStep(d) == WriteOwnRow(d) \/ FanInCas(d) \/ FanInCommit(d) \/ CommitRequest(d)

Fairness ==
    /\ WF_vars(BeginReap) /\ SF_vars(CommitReap)
    /\ \A i \in Intents : /\ WF_vars(PassDeadline(i))
                          /\ WF_vars(PassStaleTimeout(i))
                          /\ WF_vars(ReapStaleExecuting(i))
    /\ \A d \in Requests : WF_vars(HandlerStep(d)) /\ WF_vars(KillTransaction(d))

FairSpec == Spec /\ Fairness

-----------------------------------------------------------------------------
(* Properties.                                                             *)

\* The tool of an intent is started at most once, however many job deliveries,
\* crashes, redeliveries and chat sessions compete to release it (the
\* "coordination invariant" of the approved -> executing claim).
AtMostOnce == \A i \in Intents : runs[i] <= 1

\* An intent that is rejected, cancelled or expired, or still waits for its
\* claim, has never run its tool, in whatever order decisions, sweeps and
\* releases interleaved.
OnlyReleasedRun ==
    \A i \in Intents : status[i] \notin {"executing", "completed", "failed"} => runs[i] = 0

\* The publisher loses no approval: while an intent is approved, its release job
\* has been queued or its outbox row is still there for the next pass, whatever
\* passes overlap, fail half-way or die between the claim, the enqueue and the mark.
ApprovalNotLost ==
    \A i \in Intents : status[i] = "approved" => i \in queued \/ outbox[i] = "unpublished"

\* Four eyes: an intent that somebody other than its requester was asked to
\* approve is never decided by its requester, even when roles change between
\* the fan-out and the decision.
FourEyes ==
    \A i \in Intents :
        (\E u \in Users : u # requester[i] /\ approval[i][u] # "none")
            => (decidedBy[i] # requester[i] \/ decidedBy[i] = NoUser)

\* What the row says about execution is true.  For a durable release executed_at
\* and "completed" mean that the tool ran.  (A session's intent may be settled by
\* the hook of another call while its own tool is yet to start.)  "failed" without
\* executed_at means, for both, that the tool neither ran nor ever will, unless the
\* reaper wrote execution_lost (nobody knows).
RecordIsTruthful ==
    \A i \in Intents :
        /\ executedAt[i] \/ status[i] = "completed"
              => runs[i] = 1 \/ claimedBy[i] \in Sessions
        /\ (status[i] = "failed" /\ ~executedAt[i] /\ errorCode[i] # "execution_lost")
              => runs[i] = 0

\* No two releasers (deliveries or the chat session) are past the claim of the
\* same intent at once, even after crashes and redeliveries.
SingleHolder ==
    \A i \in Intents : \A r, s \in Releasers :
        rel[i][r] \in HoldsClaim /\ rel[i][s] \in HoldsClaim => r = s

\* The inductive core of the release properties.  A claim has one holder, the
\* releaser that won it; the holder's row says executing, or was written off as
\* lost, or was settled by a hook of the session that holds it.  Hooks only know
\* intents a session claimed: none touches a durable release.
Lost(i) == status[i] = "failed" /\ errorCode[i] = "execution_lost" /\ ~executedAt[i]
Begun == {"executing", "completed", "failed"}

ReleaseOK(i) ==
    /\ runs[i] <= 1
    /\ claimedBy[i] = None <=> status[i] \notin Begun
    /\ claimedBy[i] = None => runs[i] = 0
    /\ \A r \in Releasers :
          /\ rel[i][r] \in HoldsClaim =>
                /\ claimedBy[i] = r
                /\ status[i] = "executing" \/ Lost(i) \/ (r \in Sessions /\ executedAt[i])
          /\ rel[i][r] \in HoldsClaim \ {"running"} => runs[i] = 0
          /\ rel[i][r] = "running" => runs[i] = 1
    /\ \A s \in Sessions : slot[s] = i => claimedBy[i] = s
    /\ i \in taken => claimedBy[i] \in Sessions
    /\ status[i] \notin {"completed", "failed"} => ~executedAt[i]
    /\ status[i] = "completed" => executedAt[i]
    /\ executedAt[i] => runs[i] = 1 \/ claimedBy[i] \in Sessions
    /\ (status[i] = "failed" /\ ~executedAt[i] /\ errorCode[i] # "execution_lost")
          => runs[i] = 0

ReleaseInv == \A i \in Intents : ReleaseOK(i)

\* The row lock on an intent: an intent a fan-in transaction has locked is still
\* pending, one the expiry sweep has locked is not yet claimed, and no two open
\* transactions hold the same intent.
LockInv ==
    /\ \A i \in reaping : status[i] \in {"pending_approval", "approved"}
    /\ \A d \in Requests :
          req[d].step = "deciding" =>
              /\ status[req[d].intent] = "pending_approval"
              /\ req[d].intent \notin reaping
              /\ \A e \in Requests :
                    req[e].step = "deciding" /\ req[e].intent = req[d].intent => e = d

\* The inductive core of FourEyes: rows exist only for users the fan-out asked,
\* requests and decisions only for rows that exist.
FanOutInv ==
    /\ \A i \in Intents :
          /\ status[i] = "absent" =>
                decidedBy[i] = NoUser /\ \A u \in Users : approval[i][u] = "none"
          /\ \A u, v \in Users :
                u # requester[i] /\ v = requester[i] /\ approval[i][u] # "none"
                    => approval[i][v] = "none"
          /\ decidedBy[i] # NoUser => approval[i][decidedBy[i]] # "none"
    /\ \A d \in Requests :
          req[d] # NoRequest => approval[req[d].intent][req[d].user] # "none"

\* What a publisher's pass has enqueued is queued, and so is what is published.
PublishInv ==
    /\ \A p \in Publishers : sent[p] \subseteq queued
    /\ \A i \in Intents : /\ outbox[i] = "published" => i \in queued
                          /\ status[i] = "approved" => outbox[i] # "none"

\* The phase an intent is in, in the terms of IntentContract.
Phase(i) ==
    CASE status[i] = "absent" -> "none"
      [] status[i] = "pending_approval" -> "pending"
      [] status[i] = "approved" -> "approved"
      [] status[i] = "executing" -> IF claimedBy[i] \in Sessions THEN "inline" ELSE "executing"
      [] status[i] \in Withdrawn -> "withdrawn"
      [] OTHER -> IF executedAt[i]
                  THEN IF claimedBy[i] \in Sessions THEN "reported" ELSE "settled"
                  ELSE IF errorCode[i] = "execution_lost" THEN "lost" ELSE "refused"

Contract ==
    INSTANCE IntentContract WITH phase <- [i \in Intents |-> Phase(i)], performed <- runs

\* The approval layer keeps its contract: performed at most once, only after an
\* approval and a claim, never once withdrawn or refused; what a durable release
\* records as executed was performed before; what is recorded stays.
ImplementsContract == Contract!Spec

\* Every intent that was created reaches a terminal status: the deadline stops
\* what nobody decides or releases, the stale sweep what a releaser lost.
Settles == \A i \in Intents : status[i] \in Live ~> status[i] \in Terminal

\* Every request on /approvals comes to an end.
RequestsEnd == \A d \in Requests : req[d] # NoRequest ~> req[d] = NoRequest
=============================================================================
