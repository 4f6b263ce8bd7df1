-------------------------- MODULE DesktopSessions --------------------------
(***************************************************************************)
(* One remote desktop session relayed over WebSockets, across API replicas.*)
(*                                                                         *)
(* A viewer's connection is admitted by a replica only if it takes the     *)
(* session's lease in Redis (an owner key with a time to live), and relays *)
(* frames and input only while its own, more cautious deadline runs.  A    *)
(* connection that closes makes itself inert, writes a finalization fence  *)
(* while it still owns the lease, has the agent's stream stopped by a      *)
(* durable command, closes the database row and only then lifts the fence. *)
(* What it could not finish is left to a queue job and to a sweep that     *)
(* adopts sessions nobody owns.  The same row is also driven by the WebRTC *)
(* offer and answer routes, which take no lease.                           *)
(*                                                                         *)
(* Time is discrete: Tick counts the lease and the deadlines down and the  *)
(* ages of requests up.  Connections in admission, replicas (the sweep)    *)
(* and queue jobs are actors; pc[x] is the next awaited call of x.         *)
(***************************************************************************)
EXTENDS Integers, FiniteSets

CONSTANTS
    Conns,          \* viewer connections (each has its own identity and lease token)
    Instances,      \* API replicas
    Sweepers,       \* bound: the replicas whose periodic sweep is followed
    Home,           \* the replica that serves a connection
    NoOne,          \* no owner, no local entry, no fence
    Recovered,      \* the finalization id that orphan recovery mints
    Ttl,            \* time to live of the owner key (30 s)
    Margin,         \* forwarding stops this much before the key expires (10 s)
    MaxRtt,         \* the slowest Redis reply that is believed (2 s)
    Stalls,         \* a replica may run its renewal timers too late
    JobIds,         \* bound: the finalizations whose queue job is run
    MaxAttempts,    \* attempts of a finalization job (5)
    MaxOffers,      \* bound: WebRTC offers written
    MaxFaults       \* bound: crashes, errors and lost replies

ASSUME ConnAssumption ==
    /\ Home \in [Conns -> Instances]
    /\ Sweepers \subseteq Instances /\ Conns \cap Instances = {}
    /\ NoOne \notin Conns \cup {Recovered} /\ Recovered \notin Conns
    /\ JobIds \subseteq Conns \cup {Recovered}
ASSUME TimeAssumption ==
    /\ Ttl \in Nat /\ Margin \in Nat /\ MaxRtt \in Nat
    /\ 0 < Margin /\ Margin < Ttl
ASSUME BoundAssumption ==
    /\ MaxAttempts \in Nat \ {0} /\ MaxOffers \in Nat /\ MaxFaults \in Nat
    /\ Stalls \in BOOLEAN

\* Finalization ids: a closing connection's own, or the recovered one.  The id is
\* also that of the durable stop command and of the queue job.
Ids == Conns \cup {Recovered}
Job(f) == <<"job", f>>
Jobs == {Job(f) : f \in Ids}
ASSUME JobsAssumption == Jobs \cap (Conns \cup Instances) = {}
Actors == Conns \cup Instances \cup Jobs

\* The value of the fence and payload keys: what is being finalized, and whether the
\* payload was synthesised by orphan recovery.
Fences == [id: Ids, orphan: BOOLEAN]
ASSUME FenceAssumption == NoOne \notin Fences
OwnFence(c) == [id |-> c, orphan |-> FALSE]

RecoverySteps == {"load", "observe", "reload", "claim"}
FinalizeSteps == {"ensure", "seal", "unfence", "enqueue"}
CloseSteps == {"begin", "halt", "persist"}
ConnSteps == {"new", "acquire", "opening", "bound", "live", "release", "gone"}
Steps == RecoverySteps \cup FinalizeSteps \cup CloseSteps \cup ConnSteps \cup {"idle", "read"}

VARIABLES
    row,        \* remote_sessions.status: "fresh" is pending within its grace of 90 s,
                \* "ended" any terminal status
    revoked,    \* viewer-session-revoked key
    endings,    \* history: how often the row was closed
    summary,    \* the desktop.session.summary audit row exists
    owner,      \* owner key: the connection whose token it holds
    ttl,        \* what is left of its time to live
    fence,      \* finalizing and finalization-payload keys, written as a pair
    local,      \* per replica, the entry of activeDesktopSessions
    seen,       \* per replica, firstAbsentObservation: 0 none, else age + 1
    pc,         \* the next awaited call of each actor
    target,     \* the finalization an actor works on
    req,        \* the lease request a connection has in flight
    age,        \* how long ago it was sent
    safe,       \* what is left of safeForwardingUntilMonotonicMs
    activating, \* the connection's activation of the row is in flight
    pinging,    \* the connection's ping interval is set
    stop,       \* the durable stop commands
    job,        \* the queue's finalization jobs
    tries,      \* attempts made of each job
    offer,      \* a viewer's offer request: "idle", or "checked" the row's status
    offers,     \* how many offers were written
    peer,       \* a WebRTC peer connection is streaming
    faults      \* how many faults there have been

rowVars == <<row, revoked, endings, summary>>
redisVars == <<owner, ttl, fence>>
sockVars == <<local, req, age, safe, activating, pinging>>
stopVars == <<stop, job, tries>>
rtcVars == <<offer, offers, peer>>
vars == <<rowVars, redisVars, sockVars, stopVars, rtcVars, seen, pc, target, faults>>

RowOpen == row # "ended"
Activatable == {"fresh", "pending", "connecting"}

Init ==
    /\ row = "fresh" /\ revoked = FALSE
    /\ endings = 0 /\ summary = FALSE
    /\ owner = NoOne /\ ttl = 0 /\ fence = NoOne
    /\ local = [i \in Instances |-> NoOne]
    /\ seen = [i \in Instances |-> 0]
    /\ pc = [x \in Actors |-> IF x \in Conns THEN "new" ELSE "idle"]
    /\ target = [x \in Actors |-> NoOne]
    /\ req = [c \in Conns |-> "none"] /\ age = [c \in Conns |-> 0]
    /\ safe = [c \in Conns |-> 0]
    /\ activating = [c \in Conns |-> FALSE] /\ pinging = [c \in Conns |-> FALSE]
    /\ stop = [f \in Ids |-> "none"]
    /\ job = [f \in Ids |-> "none"] /\ tries = [f \in Ids |-> 0]
    /\ offer = "idle" /\ offers = 0 /\ peer = FALSE
    /\ faults = 0

-----------------------------------------------------------------------------
(* Helpers.                                                                *)

At(x, step) == pc[x] = step
GoTo(x, step) == pc' = [pc EXCEPT ![x] = step]

\* A step that may go wrong in a way the code only sees as an error.
Fault(b) ==
    /\ b => faults < MaxFaults
    /\ faults' = IF b THEN faults + 1 ELSE faults

\* c has an entry of activeDesktopSessions, whatever its state.
Installed(c) == local[Home[c]] = c
RemoveLocal(c) ==
    local' = IF Installed(c) THEN [local EXCEPT ![Home[c]] = NoOne] ELSE local

\* ownsSafeRemoteConnection: a bound entry, before its own deadline.
Forwards(c) == Installed(c) /\ pc[c] \in {"bound", "live"} /\ safe[c] > 0

\* The replica whose orphan-recovery service x runs in.
Replica(x) == IF x \in Instances THEN x ELSE Home[x]

\* An actor inside recover(): the sweep, or a connection not yet admitted.
Recovering(x) == x \in Instances \/ (x \in Conns /\ ~Installed(x))

\* recover() returns: the sweep goes on, an admission continues unless "retained".
AfterRecovery(x, retained) ==
    IF x \in Instances THEN "idle" ELSE IF retained THEN "new" ELSE "acquire"
Return(x, retained) ==
    /\ GoTo(x, AfterRecovery(x, retained))
    /\ target' = [target EXCEPT ![x] = NoOne]
    /\ IF AfterRecovery(x, retained) = "acquire"
       THEN /\ req' = [req EXCEPT ![x] = "acquire"]
            /\ age' = [age EXCEPT ![x] = 0]
       ELSE UNCHANGED <<req, age>>
    /\ UNCHANGED <<local, safe, activating, pinging>>

\* A job's attempt throws: it is retried until its attempts are used up.
JobThrows(f) ==
    /\ GoTo(Job(f), "idle")
    /\ target' = [target EXCEPT ![Job(f)] = NoOne]
    /\ tries' = [tries EXCEPT ![f] = @ + 1]
    /\ job' = [job EXCEPT ![f] = IF tries[f] + 1 < MaxAttempts THEN "waiting" ELSE "failed"]

\* closeDesktopSessionLifecycle up to its first await: the entry turns inert.
StartClose(c) ==
    /\ GoTo(c, "begin")
    /\ target' = [target EXCEPT ![c] = OwnFence(c)]
    /\ safe' = [safe EXCEPT ![c] = 0]
    /\ pinging' = [pinging EXCEPT ![c] = FALSE]

-----------------------------------------------------------------------------
(* Orphan recovery, run by the periodic sweep and before every admission.  *)

\* A request reaches the upgrade middleware; its ticket is authorised.
Admit(c) ==
    /\ At(c, "new") /\ RowOpen /\ ~revoked
    /\ GoTo(c, "load")
    /\ UNCHANGED <<rowVars, redisVars, sockVars, stopVars, rtcVars, seen, target, faults>>

Sweep(i) ==
    /\ i \in Sweepers /\ At(i, "idle") /\ RowOpen
    /\ GoTo(i, "load")
    /\ UNCHANGED <<rowVars, redisVars, sockVars, stopVars, rtcVars, seen, target, faults>>

Load(x) ==
    /\ x \in Conns \cup Instances /\ At(x, "load")
    /\ \/ /\ ~RowOpen \/ row = "fresh"
          /\ seen' = [seen EXCEPT ![Replica(x)] = 0]
          /\ Return(x, FALSE)
       \/ /\ RowOpen /\ row # "fresh"
          /\ GoTo(x, "observe")
          /\ UNCHANGED <<seen, target, sockVars>>
    /\ UNCHANGED <<rowVars, redisVars, stopVars, rtcVars, faults>>

\* Mutant of Observe: a fenced session without an owner is left to its job.
ObserveLeavesFence(x) ==
    /\ At(x, "observe")
    /\ \/ /\ owner # NoOne \/ fence # NoOne
          /\ seen' = [seen EXCEPT ![Replica(x)] = 0]
          /\ Return(x, TRUE)
       \/ /\ owner = NoOne /\ fence = NoOne /\ seen[Replica(x)] <= Ttl
          /\ seen' = [seen EXCEPT ![Replica(x)] = IF @ = 0 THEN 1 ELSE @]
          /\ Return(x, TRUE)
       \/ /\ owner = NoOne /\ fence = NoOne /\ seen[Replica(x)] > Ttl
          /\ GoTo(x, "reload")
          /\ UNCHANGED <<seen, target, sockVars>>
    /\ UNCHANGED <<rowVars, redisVars, stopVars, rtcVars, faults>>

\* Two absent observations, a full time to live apart, make a session an orphan.
Observe(x) ==
    /\ At(x, "observe")
    /\ \/ /\ owner # NoOne
          /\ seen' = [seen EXCEPT ![Replica(x)] = 0]
          /\ Return(x, TRUE)
       \/ /\ owner = NoOne /\ fence # NoOne
          /\ seen' = [seen EXCEPT ![Replica(x)] = 0]
          /\ target' = [target EXCEPT ![x] = fence]
          /\ GoTo(x, "ensure")
          /\ UNCHANGED sockVars
       \/ /\ owner = NoOne /\ fence = NoOne /\ seen[Replica(x)] <= Ttl
          /\ seen' = [seen EXCEPT ![Replica(x)] = IF @ = 0 THEN 1 ELSE @]
          /\ Return(x, TRUE)
       \/ /\ owner = NoOne /\ fence = NoOne /\ seen[Replica(x)] > Ttl
          /\ GoTo(x, "reload")
          /\ UNCHANGED <<seen, target, sockVars>>
    /\ UNCHANGED <<rowVars, redisVars, stopVars, rtcVars, faults>>

\* The stop commands a crashed connection may have left: one is adopted, two are
\* a conflict that is never resolved here.
Stops == {f \in Ids : stop[f] # "none"}
OrphanIds == IF Stops = {} THEN {Recovered} ELSE Stops

Reload(x) ==
    /\ At(x, "reload")
    /\ \/ /\ ~RowOpen
          /\ seen' = [seen EXCEPT ![Replica(x)] = 0]
          /\ Return(x, FALSE)
       \/ /\ RowOpen /\ Cardinality(Stops) > 1
          /\ UNCHANGED seen
          /\ Return(x, TRUE)
       \/ /\ RowOpen /\ Cardinality(Stops) <= 1
          /\ \E f \in OrphanIds :
                target' = [target EXCEPT ![x] = [id |-> f, orphan |-> TRUE]]
          /\ GoTo(x, "claim")
          /\ UNCHANGED <<seen, sockVars>>
    /\ UNCHANGED <<rowVars, redisVars, stopVars, rtcVars, faults>>

\* Mutant of Claim: the script looks at the fence only.
ClaimOverOwner(x) ==
    /\ At(x, "claim")
    /\ fence = NoOne
    /\ fence' = target[x]
    /\ seen' = [seen EXCEPT ![Replica(x)] = 0]
    /\ GoTo(x, "ensure")
    /\ UNCHANGED <<rowVars, owner, ttl, sockVars, stopVars, rtcVars, target, faults>>

\* claimDesktopOrphan; the reply of a claim that took effect may be lost.
Claim(x) ==
    /\ At(x, "claim")
    /\ \/ /\ owner = NoOne /\ fence = NoOne
          /\ fence' = target[x]
          /\ \/ /\ Fault(FALSE)
                /\ seen' = [seen EXCEPT ![Replica(x)] = 0]
                /\ GoTo(x, "ensure")
                /\ UNCHANGED <<target, sockVars>>
             \/ /\ Fault(TRUE)
                /\ UNCHANGED seen
                /\ Return(x, TRUE)
       \/ /\ owner # NoOne \/ fence # NoOne
          /\ Return(x, TRUE)
          /\ UNCHANGED <<fence, seen, faults>>
    /\ UNCHANGED <<rowVars, owner, ttl, stopVars, rtcVars>>

-----------------------------------------------------------------------------
(* finalizeDesktopSessionOnce and what follows it: shared by a closing     *)
(* connection, by recovery and by a queue job.                             *)

\* A finalization that could not be completed: a job's attempt throws, a closing
\* connection and recovery leave it to a job.
Unfinished(x) ==
    IF x \in Jobs THEN JobThrows(target[x].id) /\ UNCHANGED sockVars
    ELSE GoTo(x, "enqueue") /\ UNCHANGED <<job, tries, target, sockVars>>

\* ensureDesktopStreamStopped: insert the command unless it exists and read it; a
\* command without a confirmed result is armed again, in a second transaction.  A
\* result recorded between the two is erased: a fault, so that a run has finitely many.
EnsureStopped(f, proved) ==
    \/ proved /\ stop[f] = "confirmed" /\ Fault(FALSE) /\ UNCHANGED stop
    \/ /\ ~proved /\ Fault(stop[f] = "confirmed")
       /\ stop' = [stop EXCEPT ![f] = "armed"]

Ensure(x) ==
    /\ At(x, "ensure")
    /\ \/ /\ EnsureStopped(target[x].id, TRUE)
          /\ GoTo(x, "seal")
          /\ UNCHANGED <<target, job, tries, sockVars>>
       \/ EnsureStopped(target[x].id, FALSE) /\ Unfinished(x)
    /\ UNCHANGED <<rowVars, redisVars, rtcVars, seen>>

\* Mutant of Seal: a failed transaction goes unnoticed.
SealUnchecked(x) ==
    /\ At(x, "seal")
    /\ revoked' = TRUE
    /\ GoTo(x, "unfence")
    /\ \/ /\ Fault(FALSE)
          /\ row' = "ended"
          /\ summary' = (summary \/ RowOpen)
          /\ endings' = IF RowOpen THEN endings + 1 ELSE endings
       \/ Fault(TRUE) /\ UNCHANGED <<row, summary, endings>>
    /\ UNCHANGED <<redisVars, sockVars, stopVars, rtcVars, seen, target>>

\* The viewer's token is revoked, then one transaction closes a row that is still open
\* and writes the summary; it may fail, and then closes nothing.  The error ends a
\* recovery, which leaves no job behind.
Seal(x) ==
    /\ At(x, "seal")
    /\ revoked' = TRUE
    /\ \/ /\ Fault(FALSE)
          /\ row' = "ended"
          /\ summary' = (summary \/ RowOpen)
          /\ endings' = IF RowOpen THEN endings + 1 ELSE endings
          /\ GoTo(x, "unfence")
          /\ UNCHANGED <<target, job, tries, sockVars>>
       \/ /\ Fault(TRUE)
          /\ IF Recovering(x) THEN Return(x, TRUE) /\ UNCHANGED <<job, tries>>
                             ELSE Unfinished(x)
          /\ UNCHANGED <<row, summary, endings>>
    /\ UNCHANGED <<redisVars, stop, rtcVars, seen>>

\* What follows the release of the intent, and of the local entry.
Finished(x) ==
    \/ /\ x \in Jobs
       /\ GoTo(x, "idle")
       /\ target' = [target EXCEPT ![x] = NoOne]
       /\ job' = [job EXCEPT ![target[x].id] = "done"]
       /\ UNCHANGED <<tries, sockVars>>
    \/ /\ x \in Conns /\ Installed(x)
       /\ GoTo(x, "release") /\ RemoveLocal(x)
       /\ UNCHANGED <<target, job, tries, req, age, safe, activating, pinging>>
    \/ /\ Recovering(x) /\ Return(x, FALSE)
       /\ UNCHANGED <<job, tries>>

\* releaseDesktopFinalizationIntent: compare-and-delete of the pair.  A reply that
\* is lost reads as a failed release.
Unfence(x) ==
    /\ At(x, "unfence")
    /\ fence' = IF fence = target[x] THEN NoOne ELSE fence
    /\ \/ fence = target[x] /\ Fault(FALSE) /\ Finished(x)
       \/ Fault(fence = target[x]) /\ Unfinished(x)
    /\ UNCHANGED <<rowVars, owner, ttl, stop, rtcVars, seen>>

\* The queue keeps one job per finalization, finished and failed ones included.
Enqueue(x) ==
    /\ At(x, "enqueue")
    /\ job' = [job EXCEPT ![target[x].id] = IF @ = "none" THEN "waiting" ELSE @]
    /\ \/ /\ x \in Conns /\ Installed(x)
          /\ GoTo(x, "release") /\ RemoveLocal(x)
          /\ UNCHANGED <<target, req, age, safe, activating, pinging>>
       \/ Recovering(x) /\ Return(x, TRUE)
    /\ UNCHANGED <<rowVars, redisVars, stop, tries, rtcVars, seen, faults>>

\* processDesktopSessionFinalizationJob: read the intent, which must be the job's.
JobReads(f) ==
    /\ f \in JobIds /\ job[f] = "waiting" /\ At(Job(f), "idle")
    /\ IF fence # NoOne /\ fence.id = f
       THEN /\ target' = [target EXCEPT ![Job(f)] = fence]
            /\ GoTo(Job(f), "ensure")
            /\ UNCHANGED <<job, tries>>
       ELSE JobThrows(f)
    /\ UNCHANGED <<rowVars, redisVars, sockVars, stop, rtcVars, seen, faults>>

-----------------------------------------------------------------------------
(* The lease of one connection.                                            *)

\* Mutant of LeaseExec: a renewal extends the key whoever holds it.
LeaseExecAnyOwner(c) ==
    /\ \/ /\ req[c] = "acquire"
          /\ IF owner = NoOne /\ fence = NoOne
             THEN owner' = c /\ ttl' = Ttl /\ req' = [req EXCEPT ![c] = "ok"]
             ELSE req' = [req EXCEPT ![c] = "refused"] /\ UNCHANGED <<owner, ttl>>
       \/ /\ req[c] = "renew"
          /\ ttl' = IF owner = NoOne THEN 0 ELSE Ttl
          /\ req' = [req EXCEPT ![c] = IF owner = NoOne THEN "refused" ELSE "ok"]
          /\ UNCHANGED owner
    /\ UNCHANGED <<rowVars, fence, local, age, safe, activating, pinging, stopVars, rtcVars,
                   seen, pc, target, faults>>

\* The acquire and renew scripts run in Redis, whether or not anyone still waits.
LeaseExec(c) ==
    /\ \/ /\ req[c] = "acquire"
          /\ IF owner = NoOne /\ fence = NoOne
             THEN owner' = c /\ ttl' = Ttl /\ req' = [req EXCEPT ![c] = "ok"]
             ELSE req' = [req EXCEPT ![c] = "refused"] /\ UNCHANGED <<owner, ttl>>
       \/ /\ req[c] = "renew"
          /\ IF owner = c
             THEN ttl' = Ttl /\ req' = [req EXCEPT ![c] = "ok"] /\ UNCHANGED owner
             ELSE req' = [req EXCEPT ![c] = "refused"] /\ UNCHANGED <<owner, ttl>>
    /\ UNCHANGED <<rowVars, fence, local, age, safe, activating, pinging, stopVars, rtcVars,
                   seen, pc, target, faults>>

\* Mutant of Deadline: the margin is added.
DeadlinePlusMargin(c) == Ttl + Margin - age[c]

\* The deadline counts from the moment the request was sent.
Deadline(c) == IF age[c] + Margin < Ttl THEN Ttl - Margin - age[c] ELSE 0
Believed(c) == req[c] = "ok" /\ age[c] <= MaxRtt

AcquireReply(c) ==
    /\ At(c, "acquire") /\ req[c] \in {"ok", "refused"}
    /\ req' = [req EXCEPT ![c] = "none"] /\ age' = [age EXCEPT ![c] = 0]
    /\ \/ /\ Believed(c) /\ local[Home[c]] = NoOne
          /\ local' = [local EXCEPT ![Home[c]] = c]
          /\ safe' = [safe EXCEPT ![c] = Deadline(c)]
          /\ GoTo(c, "opening")
       \/ /\ Believed(c) /\ local[Home[c]] # NoOne
          /\ GoTo(c, "release")
          /\ UNCHANGED <<local, safe>>
       \/ /\ req[c] = "refused"
          /\ GoTo(c, "new")
          /\ UNCHANGED <<local, safe>>
       \/ /\ req[c] = "ok" /\ ~Believed(c)
          /\ GoTo(c, "gone")
          /\ UNCHANGED <<local, safe>>
    /\ UNCHANGED <<rowVars, redisVars, activating, pinging, stopVars, rtcVars, seen, target,
                   faults>>

\* onOpen: the socket is bound and, if the deadline still runs, the activation of the
\* row is issued.
Bind(c) ==
    /\ At(c, "opening")
    /\ IF safe[c] > 0
       THEN /\ GoTo(c, "bound")
            /\ activating' = [activating EXCEPT ![c] = TRUE]
            /\ UNCHANGED <<target, safe, pinging>>
       ELSE StartClose(c) /\ UNCHANGED activating
    /\ UNCHANGED <<rowVars, redisVars, local, req, age, stopVars, rtcVars, seen, faults>>

\* onOpen rejects the connection (no longer authorised, agent offline).
RejectOpen(c) ==
    /\ At(c, "opening")
    /\ RemoveLocal(c)
    /\ safe' = [safe EXCEPT ![c] = 0]
    /\ GoTo(c, "release")
    /\ UNCHANGED <<rowVars, redisVars, req, age, activating, pinging, stopVars, rtcVars,
                   seen, target, faults>>

\* The activation commits.  The connection that issued it may be closing by now.
Activate(c) ==
    /\ activating[c]
    /\ activating' = [activating EXCEPT ![c] = FALSE]
    /\ row' = IF row \in Activatable THEN "active" ELSE row
    /\ \/ /\ At(c, "bound") /\ row \in Activatable /\ safe[c] > 0
          /\ GoTo(c, "live")
          /\ pinging' = [pinging EXCEPT ![c] = TRUE]
          /\ UNCHANGED <<target, safe>>
       \/ /\ At(c, "bound") /\ ~(row \in Activatable /\ safe[c] > 0)
          /\ StartClose(c)
       \/ /\ ~At(c, "bound")
          /\ UNCHANGED <<pc, target, safe, pinging>>
    /\ UNCHANGED <<revoked, endings, summary, redisVars, local, req, age, stopVars,
                   rtcVars, seen, faults>>

\* The renewal timer: forwarding is suspended until the reply is in.
Renew(c) ==
    /\ pc[c] \in {"bound", "live"} /\ req[c] = "none"
    /\ req' = [req EXCEPT ![c] = "renew"]
    /\ age' = [age EXCEPT ![c] = 0]
    /\ safe' = [safe EXCEPT ![c] = 0]
    /\ UNCHANGED <<rowVars, redisVars, local, activating, pinging, stopVars, rtcVars, seen,
                   pc, target, faults>>

RenewReply(c) ==
    /\ ~At(c, "acquire") /\ req[c] \in {"ok", "refused"}
    /\ req' = [req EXCEPT ![c] = "none"] /\ age' = [age EXCEPT ![c] = 0]
    /\ \/ /\ pc[c] \in {"bound", "live"} /\ Believed(c)
          /\ safe' = [safe EXCEPT ![c] = Deadline(c)]
          /\ UNCHANGED <<pc, target, pinging>>
       \/ /\ pc[c] \in {"bound", "live"} /\ ~Believed(c)
          /\ StartClose(c)
       \/ /\ pc[c] \notin {"bound", "live"}
          /\ UNCHANGED <<pc, target, safe, pinging>>
    /\ UNCHANGED <<rowVars, redisVars, local, activating, stopVars, rtcVars, seen, faults>>

\* The ping interval: it is cleared for good when the deadline is not running, and
\* closes a revoked session otherwise.
PingTick(c) ==
    /\ At(c, "live") /\ pinging[c]
    /\ \/ /\ safe[c] = 0
          /\ pinging' = [pinging EXCEPT ![c] = FALSE]
          /\ UNCHANGED <<pc, target, safe>>
       \/ /\ safe[c] > 0 /\ revoked
          /\ StartClose(c)
    /\ UNCHANGED <<rowVars, redisVars, local, req, age, activating, stopVars, rtcVars, seen,
                   faults>>

\* The viewer's socket closes or fails, or its pongs time out.
SocketCloses(c) ==
    /\ pc[c] \in {"bound", "live"}
    /\ StartClose(c)
    /\ UNCHANGED <<rowVars, redisVars, local, req, age, activating, stopVars, rtcVars, seen,
                   faults>>

-----------------------------------------------------------------------------
(* closeDesktopSessionLifecycle after its first await.                     *)

\* Mutant of BeginClose: a connection that lost the lease keeps trying.
BeginCloseRetries(c) ==
    /\ At(c, "begin") /\ owner = c
    /\ ttl' = Ttl
    /\ GoTo(c, "persist")
    /\ UNCHANGED <<rowVars, owner, fence, sockVars, stopVars, rtcVars, seen, target, faults>>

\* Mutant of BeginClose: the proof of ownership is not looked at.
BeginCloseUnproved(c) ==
    /\ At(c, "begin")
    /\ ttl' = IF owner = c THEN Ttl ELSE ttl
    /\ GoTo(c, IF owner = c THEN "persist" ELSE "ensure")
    /\ UNCHANGED <<rowVars, owner, fence, sockVars, stopVars, rtcVars, seen, target, faults>>

\* beginClose: still the owner, no longer the owner, or no answer.
BeginClose(c) ==
    /\ At(c, "begin")
    /\ ttl' = IF owner = c THEN Ttl ELSE ttl
    /\ \/ /\ owner = c
          /\ GoTo(c, "persist")
          /\ UNCHANGED local
       \/ /\ owner # c
          /\ RemoveLocal(c)
          /\ GoTo(c, "gone")
    /\ UNCHANGED <<rowVars, owner, fence, req, age, safe, activating, pinging, stopVars,
                   rtcVars, seen, target, faults>>

\* writeDesktopFinalizationIntent, only by the owner and never over another intent.
Persist(c) ==
    /\ At(c, "persist")
    /\ LET written == owner = c /\ fence \in {NoOne, OwnFence(c)} IN
       /\ fence' = IF written THEN OwnFence(c) ELSE fence
       /\ \/ written /\ Fault(FALSE) /\ GoTo(c, "ensure")
          \/ written /\ Fault(TRUE) /\ GoTo(c, "halt")
          \/ ~written /\ Fault(FALSE) /\ GoTo(c, "halt")
    /\ UNCHANGED <<rowVars, owner, ttl, sockVars, stopVars, rtcVars, seen, target>>

\* The safety stop of a connection that cannot prove or persist, then a retry of the
\* whole close.
Halt(c) ==
    /\ At(c, "halt")
    /\ \E proved \in BOOLEAN : EnsureStopped(c, proved)
    /\ GoTo(c, "begin")
    /\ UNCHANGED <<rowVars, redisVars, sockVars, job, tries, rtcVars, seen, target>>

\* release: compare-and-delete of the owner key.
Release(c) ==
    /\ At(c, "release")
    /\ owner' = IF owner = c THEN NoOne ELSE owner
    /\ ttl' = IF owner = c THEN 0 ELSE ttl
    /\ GoTo(c, "gone")
    /\ UNCHANGED <<rowVars, fence, sockVars, stopVars, rtcVars, seen, target, faults>>

-----------------------------------------------------------------------------
(* The agent, the other routes, time and faults.                           *)

\* The agent's stream manager executes the stop and its result is recorded.
AgentStops(f) ==
    /\ stop[f] = "armed"
    /\ stop' = [stop EXCEPT ![f] = "confirmed"]
    /\ UNCHANGED <<rowVars, redisVars, sockVars, job, tries, rtcVars, seen, pc, target, faults>>

\* The row is closed by another writer, which then revokes the viewer's token.
CloseRow ==
    /\ row' = "ended" /\ endings' = endings + 1 /\ revoked' = TRUE
    /\ UNCHANGED <<summary, redisVars, sockVars, stopVars, offer, offers, seen, pc, target,
                   faults>>

\* The revocation fails: the row stays closed, with a token that is still good.
CloseRowOnly ==
    /\ row' = "ended" /\ endings' = endings + 1 /\ Fault(TRUE)
    /\ UNCHANGED <<revoked, summary, redisVars, sockVars, stopVars, offer, offers, seen, pc,
                   target>>

\* POST /remote/sessions/:id/end; the agent is told to stop the WebRTC stream, if it
\* is connected.
EndSession ==
    /\ RowOpen /\ (CloseRow \/ CloseRowOnly)
    /\ peer' \in {FALSE, peer}

\* reapStaleRemoteSessions.
ReapSession ==
    /\ RowOpen /\ row # "fresh" /\ (CloseRow \/ CloseRowOnly)
    /\ UNCHANGED peer

\* The agent reports that the WebRTC peer is gone.  A revocation that fails here rolls
\* the close back; the row is then left to the reaper.
PeerDrops ==
    /\ peer /\ peer' = FALSE
    /\ IF row = "active" THEN CloseRow
       ELSE UNCHANGED <<rowVars, redisVars, sockVars, stopVars, offer, offers, seen, pc,
                        target, faults>>

\* The agent could not start, or was denied consent, after an offer.  A rolled-back
\* close leaves the row to the reaper.
StartFails ==
    /\ row = "connecting" /\ offers > 0 /\ ~peer /\ CloseRow
    /\ UNCHANGED peer

\* POST /viewer/offer: the status is read, and later overwritten.
OfferChecks ==
    /\ offer = "idle" /\ offers < MaxOffers /\ RowOpen /\ ~revoked
    /\ offer' = "checked"
    /\ UNCHANGED <<rowVars, redisVars, sockVars, stopVars, offers, peer, seen, pc, target,
                   faults>>

OfferWrites ==
    /\ offer = "checked"
    /\ offer' = "idle" /\ offers' = offers + 1
    /\ row' = "connecting"
    /\ UNCHANGED <<revoked, endings, summary, redisVars, sockVars, stopVars, peer,
                   seen, pc, target, faults>>

\* The agent's answer to start_desktop.
Answer ==
    /\ row = "connecting" /\ offers > 0 /\ ~peer
    /\ row' = "active" /\ peer' = TRUE
    /\ UNCHANGED <<revoked, endings, summary, redisVars, sockVars, stopVars, offer,
                   offers, seen, pc, target, faults>>

GrowOld ==
    /\ row = "fresh"
    /\ row' = "pending"
    /\ UNCHANGED <<revoked, endings, summary, redisVars, sockVars, stopVars, rtcVars, seen,
                   pc, target, faults>>

Down(n) == IF n > 0 THEN n - 1 ELSE 0

\* Renewals are sent every 5 s, well before a deadline 20 s away.
RenewalDue(c) == pc[c] \in {"bound", "live"} /\ req[c] = "none" /\ safe[c] <= 1

Tick ==
    /\ Stalls \/ \A c \in Conns : ~RenewalDue(c)
    /\ ttl' = Down(ttl)
    /\ owner' = IF ttl <= 1 THEN NoOne ELSE owner
    /\ safe' = [c \in Conns |-> Down(safe[c])]
    /\ age' = [c \in Conns |-> IF req[c] # "none" /\ age[c] <= MaxRtt THEN age[c] + 1
                               ELSE age[c]]
    /\ seen' = [i \in Instances |-> IF seen[i] \in 1..Ttl THEN seen[i] + 1 ELSE seen[i]]
    /\ UNCHANGED <<rowVars, fence, local, req, activating, pinging, stopVars, rtcVars, pc,
                   target, faults>>

\* An awaited call of x fails without effect.
Throws(x) ==
    /\ Fault(TRUE)
    /\ \/ /\ x \in Jobs /\ pc[x] \in FinalizeSteps
          /\ JobThrows(target[x].id)
          /\ UNCHANGED sockVars
       \/ /\ Recovering(x) /\ pc[x] \in RecoverySteps \cup FinalizeSteps
          /\ Return(x, TRUE)
          /\ UNCHANGED <<job, tries>>
       \/ /\ x \in Conns /\ Installed(x) /\ pc[x] \in FinalizeSteps \cup CloseSteps
          /\ GoTo(x, CASE pc[x] \in {"begin", "persist"} -> "halt"
                       [] pc[x] \in {"halt", "enqueue"} -> "begin"
                       [] OTHER -> "enqueue")
          /\ UNCHANGED <<target, job, tries, sockVars>>
       \/ /\ x \in Conns /\ At(x, "acquire")
          /\ GoTo(x, "gone")
          /\ UNCHANGED <<target, job, tries, sockVars>>
       \/ /\ x \in Conns /\ At(x, "release")
          /\ GoTo(x, "gone")
          /\ UNCHANGED <<target, job, tries, sockVars>>
    /\ UNCHANGED <<rowVars, redisVars, stop, rtcVars, seen>>

\* A replica dies with everything it kept in memory.
Crash(i) ==
    /\ Fault(TRUE)
    /\ LET lost == {i} \cup {c \in Conns : Home[c] = i /\ pc[c] # "new"} IN
       /\ pc' = [x \in Actors |-> IF x = i THEN "idle" ELSE IF x \in lost THEN "gone"
                                  ELSE pc[x]]
       /\ target' = [x \in Actors |-> IF x \in lost THEN NoOne ELSE target[x]]
       /\ safe' = [c \in Conns |-> IF c \in lost THEN 0 ELSE safe[c]]
       /\ pinging' = [c \in Conns |-> pinging[c] /\ c \notin lost]
       /\ activating' = [c \in Conns |-> activating[c] /\ c \notin lost]
    /\ local' = [local EXCEPT ![i] = NoOne]
    /\ seen' = [seen EXCEPT ![i] = 0]
    /\ UNCHANGED <<rowVars, redisVars, req, age, stopVars, rtcVars>>

\* The replica that runs a job dies: the stalled job is handed out again.
JobStalls(f) ==
    /\ ~At(Job(f), "idle") /\ Fault(TRUE)
    /\ GoTo(Job(f), "idle")
    /\ target' = [target EXCEPT ![Job(f)] = NoOne]
    /\ UNCHANGED <<rowVars, redisVars, sockVars, stopVars, rtcVars, seen>>

-----------------------------------------------------------------------------
Finalize(x) == Ensure(x) \/ Seal(x) \/ Unfence(x) \/ Enqueue(x)
Recover(x) == Load(x) \/ Observe(x) \/ Reload(x) \/ Claim(x)
Close(c) == BeginClose(c) \/ Persist(c) \/ Halt(c) \/ Release(c)
Lease(c) == LeaseExec(c) \/ AcquireReply(c) \/ RenewReply(c)

ConnStep(c) == Recover(c) \/ Finalize(c) \/ Close(c)
InstanceStep(i) == Sweep(i) \/ Recover(i) \/ Finalize(i)
JobStep(f) == JobReads(f) \/ Finalize(Job(f))

Next ==
    \/ \E x \in Actors : Throws(x)
    \/ \E c \in Conns : \/ Admit(c) \/ ConnStep(c) \/ Lease(c) \/ Bind(c) \/ RejectOpen(c)
                        \/ Activate(c) \/ Renew(c) \/ PingTick(c) \/ SocketCloses(c)
    \/ \E i \in Instances : InstanceStep(i) \/ Crash(i)
    \/ \E f \in Ids : JobStep(f) \/ JobStalls(f) \/ AgentStops(f)
    \/ EndSession \/ ReapSession \/ OfferChecks \/ OfferWrites \/ Answer \/ StartFails
    \/ PeerDrops \/ GrowOld \/ Tick

Spec == Init /\ [][Next]_vars

\* Awaited calls return, timers fire and the agent answers.  Nothing obliges a viewer
\* to connect, to finish the handshake, to close or to offer, or a fault to happen.
Fairness ==
    /\ WF_vars(Tick) /\ WF_vars(GrowOld)
    /\ \A c \in Conns : /\ WF_vars(ConnStep(c)) /\ WF_vars(Lease(c)) /\ WF_vars(Activate(c))
                        /\ WF_vars(Renew(c)) /\ WF_vars(PingTick(c))
    /\ \A i \in Instances : WF_vars(InstanceStep(i))
    /\ \A f \in Ids : WF_vars(JobStep(f)) /\ WF_vars(AgentStops(f))

FairSpec == Spec /\ Fairness

-----------------------------------------------------------------------------
TypeOK ==
    /\ row \in {"fresh", "pending", "connecting", "active", "ended"}
    /\ revoked \in BOOLEAN /\ summary \in BOOLEAN
    /\ endings \in Nat
    /\ owner \in Conns \cup {NoOne} /\ ttl \in 0..Ttl /\ fence \in Fences \cup {NoOne}
    /\ local \in [Instances -> Conns \cup {NoOne}]
    /\ seen \in [Instances -> 0..(Ttl + 1)]
    /\ pc \in [Actors -> Steps]
    /\ target \in [Actors -> Fences \cup {NoOne}]
    /\ req \in [Conns -> {"none", "acquire", "renew", "ok", "refused"}]
    /\ age \in [Conns -> 0..(MaxRtt + 1)]
    /\ safe \in [Conns -> 0..Ttl]
    /\ activating \in [Conns -> BOOLEAN] /\ pinging \in [Conns -> BOOLEAN]
    /\ stop \in [Ids -> {"none", "armed", "confirmed"}]
    /\ job \in [Ids -> {"none", "waiting", "failed", "done"}]
    /\ tries \in [Ids -> 0..MaxAttempts]
    /\ offer \in {"idle", "checked"} /\ offers \in 0..MaxOffers /\ peer \in BOOLEAN
    /\ faults \in 0..MaxFaults

\* Two connections never relay at once, in whatever replicas they are: a frame or an
\* input event passes through one of them.
AtMostOneForwarder ==
    \A c, d \in Conns : Forwards(c) /\ Forwards(d) => c = d

\* Once a finalization is fenced, no connection relays until the fence is lifted.
FenceMutesAll == fence # NoOne => \A c \in Conns : ~Forwards(c)

\* The fence is lifted only after the row was closed.
FenceOutlivesRow == [][fence # NoOne /\ fence' # fence => fence' = NoOne /\ endings > 0]_vars

\* The first close of a session that accounts for it finds nobody relaying.
AccountedWhenSilent ==
    [][summary' /\ ~summary /\ endings = 0 => \A c \in Conns : ~Forwards(c)]_vars

\* A session whose serving connection is lost, wherever in its life, is closed.
Lost == row = "active" /\ endings = 0 /\ \A c \in Conns : pc[c] # "live"
LostIsClosed == Lost ~> (endings > 0 \/ \E c \in Conns : pc[c] = "live")

\* A connection that starts to close does not stay installed for ever.
ClosingEnds == \A c \in Conns : (Installed(c) /\ pc[c] \in CloseSteps) ~> ~Installed(c)
=============================================================================
