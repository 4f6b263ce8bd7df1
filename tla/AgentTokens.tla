---------------------------- MODULE AgentTokens ----------------------------
(***************************************************************************)
(* Rotation of the bearer token of one device: the devices row and the     *)
(* routes that write it (rotate-token, rotate-token/confirm, heartbeat,    *)
(* the operator's rotation, enrollment), the agent that stages the new     *)
(* token on disk before the server may rely on it, and the enroll command, *)
(* a process of its own that writes the same file.                         *)
(*                                                                         *)
(* The agent, watchdog and helper tokens are minted, staged and promoted   *)
(* together: a token stands for the set.  A handler is split where it      *)
(* awaits: the middleware's match, the handler's read, its update.  The    *)
(* agent gives up waiting while the handler runs on, so several requests   *)
(* of one agent can be inside the server.                                  *)
(***************************************************************************)
EXTENDS Naturals, FiniteSets

CONSTANTS
    Requests,   \* slots for requests inside the server or answered
    Kinds,      \* agents considered: "two_phase", "legacy" (builds before #2621)
    NoToken,    \* NULL
    MaxTokens,  \* bound: tokens minted
    MaxEvents,  \* bound: operator rotations, enrollments and certificate renewals
    MaxFaults   \* bound: lost answers, restarts, disk and database failures

ASSUME KindsAssumption == Kinds \subseteq {"two_phase", "legacy"}
ASSUME TokenAssumption ==
    NoToken \notin Nat /\ {MaxTokens, MaxEvents, MaxFaults} \subseteq Nat

VARIABLES
    \* the devices row
    current,    \* agent_token_hash
    pending,    \* pending_token_hash
    staged,     \* pending_token_expires_at is in the future
    previous,   \* previous_token_hash
    grace,      \* previous_token_expires_at is in the future
    due,        \* token_issued_at is older than the maximal age, or the row
                \* has no watchdog token; every rotation mints one
    minted,     \* the last token minted
    req,        \* the requests inside the server
    \* the agent
    kind,       \* which build it runs
    mem,        \* secureToken
    disk,       \* auth_token and pending_auth_token in secrets.yaml
    loaded,     \* config.PendingAuthToken, as loaded when the process started
    retry,      \* pendingRotationOnDisk
    worker,     \* the goroutine that holds tokenRotating: its step and its token
    saver,      \* the token a config save is about to write
    enroller,   \* the enroll command: its step, token and loaded PendingAuthToken
    \* history and bounds
    operator,   \* the token last returned to an operator
    revoked,    \* tokens an operator's rotation or a re-enrollment revoked
    holes,      \* what happened that the protocol is not proof against
    events, faults

rowVars == <<current, pending, staged, previous, grace, due, minted>>
agentVars == <<kind, mem, disk, loaded, retry, worker, saver>>
historyVars == <<operator, revoked, holes, events>>
vars == <<rowVars, req, agentVars, enroller, historyVars, faults>>

Token == Nat \cup {NoToken}
Free == [op |-> "none"]
Request ==
    [op: {"rotate", "confirm", "heartbeat"}, from: {"worker", "loop", "nobody"},
     step: {"auth", "update", "read", "promote", "answered"}, token: Nat,
     match: {"none", "current", "pending", "previous"},
     expected: Token,   \* the current token the handler read
     target: Token,     \* the token it promotes, or the one it returns
     wasDue: BOOLEAN,   \* token_issued_at as the handler read it
     answer: {"none", "ok", "rotate", "confirm", "refused", "conflict"}]

Idle == [step |-> "idle", token |-> NoToken]
WorkerSteps == {"idle", "reconcile", "rotate", "rotating", "stage", "confirm",
                "confirming", "promote", "swap"}
NoEnroll == [step |-> "none", token |-> NoToken, pend |-> NoToken]
Holes == {"saved", "late", "restaged", "unread", "unsaved", "overwritten"}

TypeOK ==
    /\ {current, minted} \subseteq Nat
    /\ {pending, previous, loaded, saver, operator} \subseteq Token
    /\ {staged, grace, due, retry} \subseteq BOOLEAN
    /\ req \in [Requests -> Request \cup {Free}]
    /\ kind \in Kinds
    /\ mem \in Nat
    /\ disk \in [auth: Nat, pend: Token]
    /\ worker \in [step: WorkerSteps, token: Token]
    /\ enroller \in [step: {"none", "sent", "checked", "answered"}, token: Token, pend: Token]
    /\ revoked \subseteq Nat
    /\ holes \subseteq Holes
    /\ events \in Nat /\ faults \in Nat

\* An enrolled device, its token old enough to be rotated.
Init ==
    /\ current = 0 /\ minted = 0
    /\ pending = NoToken /\ previous = NoToken
    /\ staged = FALSE /\ grace = FALSE /\ due = TRUE
    /\ req = [r \in Requests |-> Free]
    /\ kind \in Kinds
    /\ mem = 0 /\ disk = [auth |-> 0, pend |-> NoToken] /\ loaded = NoToken
    /\ retry = FALSE /\ worker = Idle /\ saver = NoToken /\ enroller = NoEnroll
    /\ operator = NoToken /\ revoked = {} /\ holes = {}
    /\ events = 0 /\ faults = 0

Fault == faults < MaxFaults /\ faults' = faults + 1
Event == events < MaxEvents /\ events' = events + 1

-----------------------------------------------------------------------------
(* The server. *)

\* matchAgentTokenHash
Match(t) ==
    CASE t = current -> "current"
      [] t # current /\ t = pending /\ staged -> "pending"
      [] t # current /\ ~(t = pending /\ staged) /\ t = previous /\ grace -> "previous"
      [] OTHER -> "none"

At(r, op, step) == req[r].op = op /\ req[r].step = step

\* A handler answers; nobody listens to a request the agent gave up on.
Answer(r, a, t) ==
    req' = [req EXCEPT ![r] =
        IF @.from = "nobody" THEN Free
        ELSE [@ EXCEPT !.step = "answered", !.answer = a, !.target = t]]

\* agentAuthMiddleware, and the guards on its verdict at the head of rotate-token.
Authenticate(r) ==
    LET m == Match(req[r].token) IN
    /\ req[r].op # "none" /\ req[r].step = "auth"
    /\ \/ m = "none" /\ Answer(r, "refused", NoToken)
       \/ /\ m # "none" /\ req[r].op = "rotate"
          /\ \/ m = "previous" /\ Answer(r, "refused", NoToken)
             \/ m = "pending" /\ Answer(r, "conflict", NoToken)
             \/ m = "current" /\ req' = [req EXCEPT ![r].step = "update"]
       \/ /\ m # "none" /\ req[r].op # "rotate"
          /\ req' = [req EXCEPT ![r].step = "read", ![r].match = m]
    /\ UNCHANGED <<rowVars, agentVars, enroller, historyVars, faults>>

\* rotate-token stages a new token if the one it authenticated is still current.
Stage(r) ==
    /\ At(r, "rotate", "update")
    /\ \/ /\ current = req[r].token /\ minted < MaxTokens
          /\ minted' = minted + 1 /\ pending' = minted + 1 /\ staged' = TRUE
          /\ Answer(r, "ok", minted + 1)
       \/ /\ current # req[r].token
          /\ Answer(r, "conflict", NoToken)
          /\ UNCHANGED <<minted, pending, staged>>
    /\ UNCHANGED <<current, previous, grace, due, agentVars, enroller, historyVars, faults>>

\* Going on to promote what the handler read as pending, over what it read as current.
GoPromote(r) ==
    req' = [req EXCEPT ![r].step = "promote", ![r].expected = current,
                       ![r].target = pending, ![r].wasDue = due]

\* Mutant of ReadConfirm: the confirming token need not be the staged one.
ReadConfirmAnyToken(r) ==
    /\ At(r, "confirm", "read")
    /\ IF pending = NoToken /\ current = req[r].token THEN Answer(r, "ok", NoToken)
       ELSE IF pending = NoToken THEN Answer(r, "conflict", NoToken)
       ELSE IF ~staged THEN Answer(r, "refused", NoToken)
       ELSE GoPromote(r)
    /\ UNCHANGED <<rowVars, agentVars, enroller, historyVars, faults>>

\* rotate-token/confirm up to its update; pending_rotation_expired is an answer the
\* agent treats like a refusal.
ReadConfirm(r) ==
    /\ At(r, "confirm", "read")
    /\ \/ /\ pending = NoToken /\ current = req[r].token
          /\ Answer(r, "ok", NoToken)
       \/ /\ ~(pending = NoToken /\ current = req[r].token) /\ pending # req[r].token
          /\ Answer(r, "conflict", NoToken)
       \/ pending = req[r].token /\ ~staged /\ Answer(r, "refused", NoToken)
       \/ pending = req[r].token /\ staged /\ GoPromote(r)
    /\ UNCHANGED <<rowVars, agentVars, enroller, historyVars, faults>>

\* The heartbeat up to its promotion of a staged token presented to it; otherwise it
\* answers, asking for a rotation when one is due and none is outstanding.
ReadHeartbeat(r) ==
    LET live == pending # NoToken /\ staged
        ask == due /\ ~live /\ req[r].match # "previous"
    IN
    /\ At(r, "heartbeat", "read")
    /\ \/ live /\ req[r].match = "pending" /\ GoPromote(r)
       \/ /\ ~(live /\ req[r].match = "pending")
          /\ Answer(r, IF ask THEN "rotate" ELSE "ok", NoToken)
    /\ UNCHANGED <<rowVars, agentVars, enroller, historyVars, faults>>

\* promotePendingAgentCredentials: a compare-and-swap on the pending and the current
\* token.  A heartbeat that promoted still goes by the token_issued_at it read; one that
\* did not asks the agent to confirm (confirmTokenRotation).
Promote(r) ==
    /\ req[r].op # "none" /\ req[r].step = "promote"
    /\ \/ /\ pending = req[r].target /\ current = req[r].expected
          /\ previous' = current /\ grace' = TRUE
          /\ current' = pending /\ due' = FALSE
          /\ pending' = NoToken /\ staged' = FALSE
          /\ Answer(r, IF req[r].op = "heartbeat" /\ req[r].wasDue THEN "rotate" ELSE "ok",
                    NoToken)
          /\ holes' = IF staged THEN holes ELSE holes \cup {"late"}
       \/ /\ pending # req[r].target \/ current # req[r].expected
          /\ Answer(r, IF req[r].op = "heartbeat" THEN "confirm" ELSE "conflict", NoToken)
          /\ UNCHANGED <<current, pending, staged, previous, grace, due, holes>>
    /\ UNCHANGED <<minted, agentVars, enroller, operator, revoked, events, faults>>

\* A handler fails, or its transaction is rolled back: nothing is written.
HandlerFails(r) ==
    /\ Fault
    /\ req[r].op # "none" /\ req[r].step # "answered"
    /\ Answer(r, "conflict", NoToken)
    /\ UNCHANGED <<rowVars, agentVars, enroller, historyVars>>

\* A new token replaces every token the row holds.
Reset ==
    /\ minted < MaxTokens
    /\ minted' = minted + 1 /\ current' = minted + 1
    /\ pending' = NoToken /\ staged' = FALSE
    /\ previous' = NoToken /\ grace' = FALSE
    /\ due' = FALSE
    /\ revoked' = 0..minted

\* Mutant of AdminRotate: the staged token survives the revocation.
AdminRotateKeepsPending ==
    /\ Event /\ minted < MaxTokens
    /\ minted' = minted + 1 /\ current' = minted + 1
    /\ previous' = NoToken /\ grace' = FALSE /\ due' = FALSE
    /\ revoked' = 0..minted
    /\ operator' = minted + 1
    /\ UNCHANGED <<pending, staged, req, agentVars, enroller, holes, faults>>

\* The operator rotates the token; the new one is returned to the operator only.
AdminRotate ==
    /\ Event
    /\ Reset
    /\ operator' = minted + 1
    /\ UNCHANGED <<req, agentVars, enroller, holes, faults>>

\* The staging window of an hour closes.
LapsePending ==
    /\ pending # NoToken /\ staged
    /\ staged' = FALSE
    /\ UNCHANGED <<current, pending, previous, grace, due, minted, req, agentVars, enroller,
                   historyVars, faults>>

\* The grace period of five minutes ends.
LapseGrace ==
    /\ grace
    /\ grace' = FALSE
    /\ UNCHANGED <<current, pending, staged, previous, due, minted, req, agentVars,
                   enroller, historyVars, faults>>

\* The current token reaches the age at which it is rotated.
FallDue ==
    /\ ~due
    /\ due' = TRUE
    /\ UNCHANGED <<current, pending, staged, previous, grace, minted, req, agentVars,
                   enroller, historyVars, faults>>

-----------------------------------------------------------------------------
(* The agent. *)

\* The token the enroll command was answered and has not saved.
Enrolled == IF enroller.step = "answered" THEN enroller.token ELSE NoToken

Work(step, t) == worker' = [step |-> step, token |-> t]

\* The agent sends a request and waits for the answer.
Send(op, from, t) ==
    \E r \in Requests :
        /\ req[r] = Free
        /\ req' = [req EXCEPT ![r] =
              [op |-> op, from |-> from, step |-> "auth", token |-> t, match |-> "none",
               expected |-> NoToken, target |-> NoToken, wasDue |-> FALSE,
               answer |-> "none"]]

\* The agent takes the answer to a request of its own.
Receive(r, op) ==
    /\ At(r, op, "answered")
    /\ req' = [req EXCEPT ![r] = Free]

\* The heartbeat loop, one heartbeat at a time.
Heartbeat ==
    /\ \A r \in Requests : req[r].op = "heartbeat" => req[r].from # "loop"
    /\ Send("heartbeat", "loop", mem)
    /\ UNCHANGED <<rowVars, agentVars, enroller, historyVars, faults>>

\* processHeartbeatResponse starts a rotation, or a reconciliation, unless one is
\* running; a legacy build knows nothing of the second.
HeartbeatAnswered(r) ==
    LET starts == CASE req[r].answer = "rotate" -> "rotate"
                    [] req[r].answer = "confirm" /\ kind = "two_phase" -> "reconcile"
                    [] OTHER -> "idle"
    IN
    /\ Receive(r, "heartbeat")
    /\ IF worker.step = "idle" THEN Work(starts, NoToken) ELSE UNCHANGED worker
    /\ UNCHANGED <<rowVars, enroller, kind, mem, disk, loaded, retry, saver, historyVars,
                   faults>>

\* handleTokenRotation asks for a new token, with the token in memory.
Rotate ==
    /\ worker.step = "rotate"
    /\ Send("rotate", "worker", mem)
    /\ Work("rotating", NoToken)
    /\ UNCHANGED <<rowVars, enroller, kind, mem, disk, loaded, retry, saver, historyVars,
                   faults>>

\* Mutant of RotateAnswered: the token is used without checking there is one.
RotateAnsweredUnchecked(r) ==
    /\ Receive(r, "rotate")
    /\ \/ kind = "two_phase" /\ Work("stage", req[r].target) /\ UNCHANGED <<mem, disk>>
       \/ /\ kind = "legacy"
          /\ mem' = req[r].target /\ disk' = [disk EXCEPT !.auth = req[r].target]
          /\ Work("idle", NoToken)
    /\ UNCHANGED <<rowVars, enroller, kind, loaded, retry, saver, historyVars, faults>>

\* The new token; a legacy agent replaces its own token by it at once.
RotateAnswered(r) ==
    /\ Receive(r, "rotate")
    /\ \/ /\ req[r].answer = "ok" /\ kind = "two_phase"
          /\ Work("stage", req[r].target)
          /\ UNCHANGED <<mem, disk>>
       \/ /\ req[r].answer = "ok" /\ kind = "legacy"
          /\ mem' = req[r].target /\ disk' = [disk EXCEPT !.auth = req[r].target]
          /\ Work("idle", NoToken)
       \/ req[r].answer # "ok" /\ Work("idle", NoToken) /\ UNCHANGED <<mem, disk>>
    /\ UNCHANGED <<rowVars, enroller, kind, loaded, retry, saver, historyVars, faults>>

\* StagePendingCredentials writes the token beside the current one and reads it back;
\* when that fails, whether or not it was written, the rotation is given up.
StageOnDisk ==
    /\ worker.step = "stage"
    /\ \/ /\ disk' = [disk EXCEPT !.pend = worker.token]
          /\ retry' = TRUE /\ Work("confirm", worker.token)
          /\ UNCHANGED faults
       \/ /\ Fault
          /\ disk' \in {disk, [disk EXCEPT !.pend = worker.token]}
          /\ Work("idle", NoToken)
          /\ UNCHANGED retry
    /\ holes' = IF disk'.pend # disk.pend /\ disk.pend = current THEN holes \cup {"restaged"}
                ELSE holes
    /\ UNCHANGED <<rowVars, req, enroller, kind, mem, loaded, saver, operator, revoked,
                   events>>

\* confirmTokenRotation, with the staged token.
Confirm ==
    /\ worker.step = "confirm"
    /\ Send("confirm", "worker", worker.token)
    /\ Work("confirming", worker.token)
    /\ UNCHANGED <<rowVars, enroller, kind, mem, disk, loaded, retry, saver, historyVars,
                   faults>>

\* A refused token is discarded (ClearPendingCredentials, which may fail); any other
\* failure is retried.
ConfirmAnswered(r) ==
    /\ Receive(r, "confirm")
    /\ \/ /\ req[r].answer = "ok"
          /\ Work("promote", worker.token)
          /\ UNCHANGED <<disk, retry, faults>>
       \/ /\ req[r].answer = "refused"
          /\ disk' = [disk EXCEPT !.pend = NoToken] /\ retry' = FALSE
          /\ Work("idle", NoToken)
          /\ UNCHANGED faults
       \/ /\ req[r].answer = "refused" /\ Fault
          /\ Work("idle", NoToken)
          /\ UNCHANGED <<disk, retry>>
       \/ /\ req[r].answer = "conflict"
          /\ Work("idle", NoToken)
          /\ UNCHANGED <<disk, retry, faults>>
    /\ UNCHANGED <<rowVars, enroller, kind, mem, loaded, saver, historyVars>>

\* applyRotatedCredentials: PromotePendingCredentials; when it fails, whether or not it
\* was written, the retry stays armed.
PromoteOnDisk ==
    /\ worker.step = "promote"
    /\ \/ /\ disk' = [auth |-> worker.token, pend |-> NoToken]
          /\ retry' = FALSE
          /\ UNCHANGED faults
       \/ /\ Fault
          /\ disk' \in {disk, [auth |-> worker.token, pend |-> NoToken]}
          /\ UNCHANGED retry
    /\ Work("swap", worker.token)
    /\ holes' = IF disk' # disk /\ disk.auth = current /\ worker.token \in revoked
                THEN holes \cup {"overwritten"} ELSE holes
    /\ UNCHANGED <<rowVars, req, enroller, kind, mem, loaded, saver, operator, revoked,
                   events>>

\* ... and then secureToken.Replace.
SwapMemory ==
    /\ worker.step = "swap"
    /\ mem' = worker.token
    /\ Work("idle", NoToken)
    /\ UNCHANGED <<rowVars, req, enroller, kind, disk, loaded, retry, saver, historyVars,
                   faults>>

\* Mutant of Reconcile: an interrupted rotation is only looked for at start.
ReconcileAtStart ==
    /\ worker.step = "reconcile"
    /\ \/ disk.pend = NoToken /\ Work("idle", NoToken)
       \/ disk.pend # NoToken /\ Work("confirm", disk.pend)
    /\ retry' = (disk.pend # NoToken)
    /\ UNCHANGED <<rowVars, req, enroller, kind, mem, disk, loaded, saver, historyVars,
                   faults>>

\* reconcilePendingRotation, when the process starts or on a tick while a retry is armed.
Reconcile ==
    /\ worker.step = "reconcile" \/ (worker.step = "idle" /\ retry)
    /\ \/ /\ disk.pend = NoToken
          /\ retry' = FALSE /\ Work("idle", NoToken)
          /\ UNCHANGED <<holes, faults>>
       \/ /\ disk.pend # NoToken
          /\ retry' = TRUE /\ Work("confirm", disk.pend)
          /\ UNCHANGED <<holes, faults>>
       \/ /\ Fault
          /\ Work("idle", NoToken)
          /\ holes' = IF retry THEN holes ELSE holes \cup {"unread"}
          /\ UNCHANGED retry
    /\ UNCHANGED <<rowVars, req, enroller, kind, mem, disk, loaded, saver, operator,
                   revoked, events>>

\* The requests the agent no longer waits for.
Abandoned(r) ==
    IF req[r].op = "none" \/ req[r].step = "answered" THEN Free
    ELSE [req[r] EXCEPT !.from = "nobody"]

\* A request times out at the agent, or its answer is lost.
GiveUp(r) ==
    /\ Fault
    /\ req[r].op # "none" /\ req[r].from # "nobody"
    /\ req' = [req EXCEPT ![r] = Abandoned(r)]
    /\ IF req[r].from = "worker" THEN Work("idle", NoToken) ELSE UNCHANGED worker
    /\ UNCHANGED <<rowVars, enroller, kind, mem, disk, loaded, retry, saver, historyVars>>

\* The agent's process ends and starts again with what is on disk; besides a failure,
\* the service is restarted to take up the token of an enrollment.
Restart ==
    /\ Fault \/ (mem \in revoked /\ mem # disk.auth /\ UNCHANGED faults)
    /\ mem' = disk.auth /\ loaded' = disk.pend
    /\ retry' = FALSE /\ saver' = NoToken
    /\ Work(IF kind = "two_phase" THEN "reconcile" ELSE "idle", NoToken)
    /\ req' = [r \in Requests |-> Abandoned(r)]
    /\ UNCHANGED <<rowVars, enroller, kind, disk, historyVars>>

\* The file SaveTo writes: a token in the configuration comes before one on disk.
Saved(auth, pend) == [auth |-> auth, pend |-> IF pend # NoToken THEN pend ELSE disk.pend]

\* The certificate renewal saves the configuration: it takes the token in memory ...
RevealForSave ==
    /\ Event
    /\ kind = "two_phase" /\ saver = NoToken
    /\ saver' = mem
    /\ UNCHANGED <<rowVars, req, enroller, kind, mem, disk, loaded, retry, worker, operator,
                   revoked, holes, faults>>

\* ... and rewrites secrets.yaml.
SaveTo ==
    /\ saver # NoToken
    /\ disk' = Saved(saver, loaded)
    /\ holes' = IF disk' = disk THEN holes ELSE holes \cup {"saved"}
    /\ saver' = NoToken
    /\ UNCHANGED <<rowVars, req, enroller, kind, mem, loaded, retry, worker, operator,
                   revoked, events, faults>>

-----------------------------------------------------------------------------
(* The enroll command.  It neither stops a running agent nor takes part in its locks. *)

\* enrollDevice loads the configuration and vouches for the device with the token it
\* finds there, or with the one the operator was given.
EnrollLoads ==
    /\ Event
    /\ enroller.step = "none"
    /\ \E t \in {disk.auth, operator} \ {NoToken} :
          enroller' = [step |-> "sent", token |-> t, pend |-> disk.pend]
    /\ UNCHANGED <<rowVars, req, agentVars, operator, revoked, holes, faults>>

\* The enrollment route checks the token against the row it reads without a lock.
EnrollChecked ==
    /\ enroller.step = "sent"
    /\ \/ /\ Match(enroller.token) \in {"current", "previous"}
          /\ enroller' = [enroller EXCEPT !.step = "checked", !.token = NoToken]
       \/ /\ Match(enroller.token) \notin {"current", "previous"}
          /\ enroller' = NoEnroll
    /\ UNCHANGED <<rowVars, req, agentVars, historyVars, faults>>

\* Its transaction resets the row, whatever the row holds by then.
EnrollResets ==
    /\ enroller.step = "checked"
    /\ Reset
    /\ enroller' = [enroller EXCEPT !.step = "answered", !.token = minted + 1]
    /\ UNCHANGED <<req, agentVars, operator, holes, events, faults>>

\* The command saves the token it was answered (SaveTo).
EnrollSaves ==
    /\ enroller.step = "answered"
    /\ disk' = Saved(enroller.token, enroller.pend)
    /\ enroller' = NoEnroll
    /\ UNCHANGED <<rowVars, req, kind, mem, loaded, retry, worker, saver, historyVars,
                   faults>>

\* The route fails and rolls back, or, once it has committed, its answer is lost or the
\* save fails: "enrollment succeeded but could not save config".
EnrollFails ==
    /\ Fault
    /\ enroller.step # "none"
    /\ enroller' = NoEnroll
    /\ holes' = IF current = Enrolled THEN holes \cup {"unsaved"} ELSE holes
    /\ UNCHANGED <<rowVars, req, agentVars, operator, revoked, events>>

-----------------------------------------------------------------------------
Server(r) ==
    Authenticate(r) \/ Stage(r) \/ ReadConfirm(r) \/ ReadHeartbeat(r) \/ Promote(r)

Worker ==
    \/ Rotate \/ StageOnDisk \/ Confirm \/ PromoteOnDisk \/ SwapMemory \/ Reconcile
    \/ \E r \in Requests : RotateAnswered(r) \/ ConfirmAnswered(r)

Loop == Heartbeat \/ \E r \in Requests : HeartbeatAnswered(r)

Next ==
    \/ \E r \in Requests : Server(r) \/ HandlerFails(r) \/ GiveUp(r)
    \/ Worker \/ Loop
    \/ Restart \/ RevealForSave \/ SaveTo
    \/ EnrollLoads \/ EnrollChecked \/ EnrollResets \/ EnrollSaves \/ EnrollFails
    \/ AdminRotate
    \/ LapsePending \/ LapseGrace \/ FallDue

Spec == Init /\ [][Next]_vars

\* Handlers run to their end; the rotation goroutine and the heartbeat loop go on.
Fairness == WF_vars(Worker) /\ WF_vars(Loop) /\ \A r \in Requests : WF_vars(Server(r))
FairSpec == Spec /\ Fairness

-----------------------------------------------------------------------------
\* No token revoked by an operator's rotation or a re-enrollment authenticates again,
\* whatever rotation, confirmation or heartbeat was in flight when it was revoked
\* (agentTokenPromotion.ts: it "could promote itself over the replacement").
RevokedStaysDead == \A t \in revoked : Match(t) = "none"

\* A two-phase agent's file holds the server's current token, wherever the agent crashed
\* and whichever answer was lost ("no crash point can strand the endpoint", token.ts), or
\* else an operator or a running enroll command holds it; unless
\*  - a config save wrote over the file ("saved"),
\*  - the staging window closed under a confirmation already checked ("late"),
\*  - a second rotation staged over a token whose promotion on disk failed ("restaged"),
\*  - an enrollment committed and its answer or its save was lost ("unsaved"), or
\*  - the agent finished a rotation over the file an enrollment had saved ("overwritten").
CurrentIsDurable ==
    kind = "two_phase" /\ holes \subseteq {"unread"}
        => current \in {disk.auth, disk.pend, operator, Enrolled}

\* An agent whose token stopped authenticating gets one that does, without an operator,
\* unless it was revoked or something happened the protocol is not proof against.
Recovers ==
    kind = "two_phase" /\ Match(mem) = "none"
        ~> Match(mem) # "none" \/ mem \in revoked \/ holes # {}

\* A save of the configuration never costs the agent the token the server relies on
\* ("It must not drop a staged credential set", credentials_test.go).
SavedConfigKeepsCurrent ==
    kind = "two_phase" => current \in {disk.auth, disk.pend, operator, Enrolled}
=============================================================================
