----------------------- MODULE DesktopSessionsProofs -----------------------
(***************************************************************************)
(* Proofs about DesktopSessions, for every set of connections, replicas    *)
(* and sweepers, every lease time, margin and longest round trip, and      *)
(* every bound on attempts, offers and faults.                             *)
(***************************************************************************)
EXTENDS DesktopSessions, TLAPS

-----------------------------------------------------------------------------
(* The inductive invariant.                                                *)

Serving == {"opening", "bound", "live"}

\* The steps of an actor that has chosen what to finalize.
Committed == FinalizeSteps \cup CloseSteps \cup {"claim"}

\* Which steps an actor can be at, and what it then holds: a finalization has a
\* target, a job its own, and a connection that serves or closes is installed.
ControlInv ==
    /\ \A i \in Instances : pc[i] \in {"idle"} \cup RecoverySteps \cup FinalizeSteps
    /\ \A x \in Actors : pc[x] \in Committed => target[x] \in Fences
    /\ \A f \in Ids : pc[Job(f)] \in {"idle", "ensure", "seal", "unfence"}
    /\ \A f \in Ids : pc[Job(f)] # "idle" => job[f] = "waiting" /\ target[Job(f)].id = f
    /\ \A f \in Ids : job[f] \in {"none", "waiting"} => tries[f] < MaxAttempts
    /\ \A c \in Conns : Installed(c) => pc[c] \in Serving \cup CloseSteps \cup FinalizeSteps
    /\ \A c \in Conns : pc[c] \in Serving \cup CloseSteps => Installed(c)
    /\ offer = "checked" => offers < MaxOffers

\* A connection that has not asked for the lease yet, its recovery included.
Unadmitted(c) ==
    \/ pc[c] \in {"new"} \cup RecoverySteps
    \/ pc[c] \in FinalizeSteps /\ ~Installed(c)

\* A running deadline is covered by the key, and so is one that a reply not yet
\* taken would set.
LeaseOf(c) ==
    /\ pc[c] \notin Serving => safe[c] = 0
    /\ safe[c] > 0 => owner = c /\ safe[c] <= ttl
    /\ Unadmitted(c) => owner # c /\ req[c] = "none"
    /\ pc[c] = "acquire" => req[c] \in {"acquire", "ok", "refused"}
    /\ pc[c] = "acquire" /\ req[c] # "ok" => owner # c
    /\ pc[c] = "opening" => req[c] = "none"
    /\ pc[c] \in {"bound", "live"} => req[c] # "acquire"
    /\ pc[c] \in {"acquire", "bound", "live"} /\ req[c] = "ok"
          /\ age[c] <= MaxRtt /\ age[c] < Ttl => owner = c /\ ttl >= Ttl - age[c]

LeaseInv == \A c \in Conns : LeaseOf(c)

\* Under a fence the key is not that of a connection which could use it; a fence
\* lasts until the row has been closed.
FenceInv ==
    /\ fence # NoOne => \A c \in Conns : pc[c] \in Serving \cup {"acquire"} => owner # c
    /\ row = "ended" => endings > 0
    /\ \A x \in Actors : pc[x] = "unfence" => endings > 0
    /\ \A x \in Actors : pc[x] \in FinalizeSteps /\ endings = 0 => fence # NoOne

IndInv == TypeOK /\ ControlInv /\ LeaseInv /\ FenceInv

-----------------------------------------------------------------------------
(* Actors and fences.                                                      *)

\* Connections, replicas and jobs are different actors, one job per finalization.
LEMMA ActorFacts ==
    /\ Conns \subseteq Actors /\ Instances \subseteq Actors /\ Jobs \subseteq Actors
    /\ Conns \subseteq Ids
    /\ \A f \in Ids : Job(f) \in Jobs /\ Job(f) \notin Conns /\ Job(f) \notin Instances
    /\ \A f, g \in Ids : Job(f) = Job(g) => f = g
    /\ \A x \in Jobs : \E f \in Ids : x = Job(f)
    /\ \A c \in Conns : c \notin Instances /\ c \notin Jobs /\ Home[c] \in Instances
    /\ \A i \in Instances : i \notin Conns /\ i \notin Jobs
    /\ \A x \in Actors : x \in Conns \/ x \in Instances \/ x \in Jobs
    /\ NoOne \notin Conns
BY ConnAssumption, JobsAssumption DEF Actors, Jobs, Job, Ids

\* A fence names a finalization and is not the absence of one.
LEMMA FenceFacts ==
    /\ \A g \in Fences : g.id \in Ids /\ g # NoOne
    /\ \A c \in Conns : OwnFence(c) \in Fences
BY FenceAssumption DEF Fences, OwnFence, Ids

-----------------------------------------------------------------------------
(* Type correctness.                                                       *)

\* Moving one actor to a step keeps the program counters typed.
LEMMA GoToType ==
    ASSUME TypeOK, NEW x \in Actors, NEW s \in Steps, GoTo(x, s)
    PROVE  pc' \in [Actors -> Steps]
BY DEF TypeOK, GoTo

\* A fault spends one unit of a bound that has one left.
LEMMA FaultType ==
    ASSUME TypeOK, NEW b \in BOOLEAN, Fault(b)
    PROVE  faults' \in 0..MaxFaults
BY BoundAssumption DEF TypeOK, Fault

\* Clearing the in-memory session entry keeps the map typed.
LEMMA RemoveLocalType ==
    ASSUME TypeOK, NEW c \in Conns, RemoveLocal(c)
    PROVE  local' \in [Instances -> Conns \cup {NoOne}]
BY ActorFacts DEF TypeOK, RemoveLocal

\* The end of a recovery keeps the control state and the sockets typed.
SockType ==
    /\ local \in [Instances -> Conns \cup {NoOne}]
    /\ req \in [Conns -> {"none", "acquire", "renew", "ok", "refused"}]
    /\ age \in [Conns -> 0..(MaxRtt + 1)]
    /\ safe \in [Conns -> 0..Ttl]
    /\ activating \in [Conns -> BOOLEAN] /\ pinging \in [Conns -> BOOLEAN]
CtlType == pc \in [Actors -> Steps] /\ target \in [Actors -> Fences \cup {NoOne}]
QueueType ==
    /\ job \in [Ids -> {"none", "waiting", "failed", "done"}]
    /\ tries \in [Ids -> 0..MaxAttempts]

\* Leaving recovery, handled or not, keeps the control state and the sockets typed.
LEMMA ReturnType ==
    ASSUME TypeOK, NEW x \in Conns \cup Instances, NEW b \in BOOLEAN, Return(x, b)
    PROVE  CtlType' /\ SockType'
<1>1. AfterRecovery(x, b) \in {"idle", "new", "acquire"}
  BY DEF AfterRecovery
<1>2. x \in Actors
  BY ActorFacts
<1>3. pc' \in [Actors -> Steps]
  BY <1>1, <1>2, GoToType DEF Return, Steps, ConnSteps
<1>4. AfterRecovery(x, b) = "acquire" => x \in Conns
  BY DEF AfterRecovery
<1>5. target' \in [Actors -> Fences \cup {NoOne}]
  BY <1>2 DEF Return, TypeOK
<1>6. req' \in [Conns -> {"none", "acquire", "renew", "ok", "refused"}]
  BY <1>4 DEF Return, TypeOK
<1>7. age' \in [Conns -> 0..(MaxRtt + 1)]
  BY <1>4, TimeAssumption DEF Return, TypeOK
<1> QED BY <1>3, <1>5, <1>6, <1>7 DEF CtlType, SockType, Return, TypeOK

\* Starting a close keeps the control state, the deadline and the ping timer typed.
LEMMA StartCloseType ==
    ASSUME TypeOK, NEW c \in Conns, StartClose(c)
    PROVE  /\ CtlType' /\ safe' \in [Conns -> 0..Ttl] /\ pinging' \in [Conns -> BOOLEAN]
<1>1. pc' \in [Actors -> Steps]
  BY GoToType, ActorFacts DEF StartClose, Steps, CloseSteps
<1>2. target' \in [Actors -> Fences \cup {NoOne}]
  BY ActorFacts, FenceFacts DEF StartClose, TypeOK
<1> QED BY <1>1, <1>2, TimeAssumption DEF StartClose, TypeOK, CtlType

\* An attempt that throws has not used up the attempts before.
LEMMA JobThrowsType ==
    ASSUME TypeOK, NEW f \in Ids, tries[f] < MaxAttempts, JobThrows(f)
    PROVE  CtlType' /\ QueueType'
<1>1. pc' \in [Actors -> Steps]
  BY GoToType, ActorFacts DEF JobThrows, Steps
<1>2. target' \in [Actors -> Fences \cup {NoOne}]
  BY ActorFacts DEF JobThrows, TypeOK
<1>3. QueueType'
  BY BoundAssumption DEF JobThrows, TypeOK, QueueType
<1> QED BY <1>1, <1>2, <1>3 DEF CtlType

\* The finalization an actor works on; a job works on its own.
LEMMA FinalizeTarget ==
    ASSUME ControlInv, NEW x \in Actors, pc[x] \in FinalizeSteps
    PROVE  /\ target[x] \in Fences /\ target[x].id \in Ids
           /\ x \in Jobs => /\ x = Job(target[x].id) /\ tries[target[x].id] < MaxAttempts
                            /\ job[target[x].id] = "waiting"
<1>1. target[x] \in Fences /\ target[x].id \in Ids
  BY FenceFacts DEF ControlInv, Committed
<1>2. ASSUME x \in Jobs
      PROVE  /\ x = Job(target[x].id) /\ tries[target[x].id] < MaxAttempts
             /\ job[target[x].id] = "waiting"
  <2>1. PICK f \in Ids : x = Job(f)
    BY <1>2, ActorFacts
  <2>2. pc[Job(f)] # "idle"
    BY <2>1 DEF FinalizeSteps
  <2> QED BY <2>1, <2>2 DEF ControlInv
<1> QED BY <1>1, <1>2

\* A finalizer that hands the fence to the queue keeps the types.
LEMMA UnfinishedType ==
    ASSUME TypeOK, ControlInv, NEW x \in Actors, pc[x] \in FinalizeSteps, Unfinished(x)
    PROVE  CtlType' /\ QueueType' /\ SockType'
<1>1. CASE x \in Jobs
  <2>1. JobThrows(target[x].id) /\ UNCHANGED sockVars
    BY <1>1 DEF Unfinished
  <2> QED BY <1>1, <2>1, FinalizeTarget, JobThrowsType DEF SockType, sockVars, TypeOK
<1>2. CASE x \notin Jobs
  BY <1>2, GoToType
     DEF Unfinished, Steps, FinalizeSteps, TypeOK, CtlType, QueueType, SockType, sockVars
<1> QED BY <1>1, <1>2

\* A finalizer that ends the fence keeps the types.
LEMMA FinishedType ==
    ASSUME TypeOK, ControlInv, NEW x \in Actors, pc[x] \in FinalizeSteps, Finished(x)
    PROVE  CtlType' /\ QueueType' /\ SockType'
<1>1. CASE x \in Jobs
  <2>1. /\ GoTo(x, "idle") /\ target' = [target EXCEPT ![x] = NoOne]
        /\ job' = [job EXCEPT ![target[x].id] = "done"] /\ UNCHANGED <<tries, sockVars>>
    BY <1>1, ActorFacts DEF Finished, Recovering
  <2>2. CtlType'
    BY <2>1, GoToType DEF CtlType, TypeOK, Steps
  <2>3. QueueType' /\ SockType'
    BY <2>1 DEF QueueType, SockType, sockVars, TypeOK
  <2> QED BY <2>2, <2>3
<1>2. CASE x \in Conns /\ Installed(x)
  BY <1>2, GoToType, RemoveLocalType, ActorFacts
     DEF Finished, Recovering, CtlType, QueueType, SockType, TypeOK, Steps, ConnSteps
<1>3. CASE Recovering(x)
  BY <1>3, ReturnType, ActorFacts DEF Finished, Recovering, QueueType, TypeOK
<1> QED BY <1>1, <1>2, <1>3 DEF Finished

\* The rest of the type invariant.
EnvType ==
    /\ row \in {"fresh", "pending", "connecting", "active", "ended"}
    /\ revoked \in BOOLEAN /\ summary \in BOOLEAN /\ endings \in Nat
    /\ owner \in Conns \cup {NoOne} /\ ttl \in 0..Ttl /\ fence \in Fences \cup {NoOne}
    /\ seen \in [Instances -> 0..(Ttl + 1)]
    /\ stop \in [Ids -> {"none", "armed", "confirmed"}]
    /\ offer \in {"idle", "checked"} /\ offers \in 0..MaxOffers /\ peer \in BOOLEAN
    /\ faults \in 0..MaxFaults

\* The type invariant, split by what a group of actions touches.
LEMMA TypeParts == TypeOK <=> EnvType /\ SockType /\ CtlType /\ QueueType
BY DEF TypeOK, EnvType, SockType, CtlType, QueueType

\* The same split of the next state.
LEMMA TypePartsNext == TypeOK' <=> EnvType' /\ SockType' /\ CtlType' /\ QueueType'
BY DEF TypeOK, EnvType, SockType, CtlType, QueueType

\* Every actor that recovers, and only such an actor, has a replica.
LEMMA ReplicaType ==
    ASSUME NEW x \in Conns \cup Instances
    PROVE  Replica(x) \in Instances /\ x \in Actors
BY ActorFacts DEF Replica

\* An actor inside recover() is a connection or a replica.
LEMMA RecoverySteppers ==
    ASSUME ControlInv, NEW x \in Actors, pc[x] \in RecoverySteps
    PROVE  x \in Conns \cup Instances
<1>1. x \in Jobs => pc[x] \in {"idle", "ensure", "seal", "unfence"}
  BY ActorFacts DEF ControlInv
<1> QED BY <1>1, ActorFacts DEF RecoverySteps

\* The observations of a replica stay within the time to live.
LEMMA SeenType ==
    ASSUME TypeOK, NEW i \in Instances, NEW n \in 0..(Ttl + 1),
           seen' = seen \/ seen' = [seen EXCEPT ![i] = n]
    PROVE  seen' \in [Instances -> 0..(Ttl + 1)]
BY DEF TypeOK

\* Every step of recoverDesktopSession keeps the types.
LEMMA RecoverType ==
    ASSUME TypeOK, ControlInv, NEW x \in Conns \cup Instances, Recover(x)
    PROVE  TypeOK'
<1> USE DEF At
<1>0. Replica(x) \in Instances /\ x \in Actors
  BY ReplicaType
<1>z. 0 \in 0..(Ttl + 1) /\ 1 \in 0..(Ttl + 1)
  BY TimeAssumption
<1>1. CASE Load(x)
  <2>1. seen' \in [Instances -> 0..(Ttl + 1)]
    <3>1. seen' = seen \/ seen' = [seen EXCEPT ![Replica(x)] = 0]
      BY <1>1 DEF Load
    <3> QED BY <1>0, <1>z, <3>1, SeenType
  <2>2. SockType' /\ CtlType'
    BY <1>0, <1>1, ReturnType, GoToType, TypeParts
       DEF Load, Steps, RecoverySteps, CtlType, SockType, sockVars
  <2> QED BY <1>1, <2>1, <2>2, TypeParts, TypePartsNext
          DEF Load, EnvType, QueueType, rowVars, redisVars, stopVars, rtcVars
<1>2. CASE Observe(x)
  <2>1. seen' \in [Instances -> 0..(Ttl + 1)]
    <3>1. \/ seen' = seen \/ seen' = [seen EXCEPT ![Replica(x)] = 0]
          \/ seen' = [seen EXCEPT ![Replica(x)] = IF @ = 0 THEN 1 ELSE @]
      BY <1>2 DEF Observe
    <3>2. seen[Replica(x)] \in 0..(Ttl + 1)
      BY <1>0 DEF TypeOK
    <3> QED BY <1>0, <1>z, <3>1, <3>2, SeenType
  <2>2. SockType' /\ CtlType'
    <3>1. CASE Return(x, TRUE)
      BY <3>1, ReturnType
    <3>2. CASE ~Return(x, TRUE)
      <4>1. CtlType'
        BY <1>0, <1>2, <3>2, GoToType, TypeParts
           DEF Observe, Steps, RecoverySteps, FinalizeSteps, CtlType, EnvType
      <4> QED BY <1>2, <3>2, <4>1, TypeParts DEF Observe, SockType, sockVars
    <3> QED BY <3>1, <3>2
  <2> QED BY <1>2, <2>1, <2>2, TypeParts, TypePartsNext
          DEF Observe, EnvType, QueueType, rowVars, redisVars, stopVars, rtcVars
<1>3. CASE Reload(x)
  <2>1. seen' \in [Instances -> 0..(Ttl + 1)]
    <3>1. seen' = seen \/ seen' = [seen EXCEPT ![Replica(x)] = 0]
      BY <1>3 DEF Reload
    <3> QED BY <1>0, <1>z, <3>1, SeenType
  <2>2. SockType' /\ CtlType'
    <3>1. CASE Return(x, TRUE) \/ Return(x, FALSE)
      BY <3>1, ReturnType
    <3>2. CASE ~Return(x, TRUE) /\ ~Return(x, FALSE)
      <4>1. PICK f \in OrphanIds : target' = [target EXCEPT ![x] = [id |-> f, orphan |-> TRUE]]
        BY <1>3, <3>2 DEF Reload
      <4>2. f \in Ids
        BY <4>1 DEF OrphanIds, Stops, Ids
      <4>3. CtlType'
        BY <1>0, <1>3, <3>2, <4>1, <4>2, GoToType, TypeParts
           DEF Reload, Steps, RecoverySteps, CtlType, Fences
      <4> QED BY <1>3, <3>2, <4>3, TypeParts DEF Reload, SockType, sockVars
    <3> QED BY <3>1, <3>2
  <2> QED BY <1>3, <2>1, <2>2, TypeParts, TypePartsNext
          DEF Reload, EnvType, QueueType, rowVars, redisVars, stopVars, rtcVars
<1>4. CASE Claim(x)
  <2>1. seen' \in [Instances -> 0..(Ttl + 1)]
    <3>1. seen' = seen \/ seen' = [seen EXCEPT ![Replica(x)] = 0]
      BY <1>4 DEF Claim
    <3> QED BY <1>0, <1>z, <3>1, SeenType
  <2>2. faults' \in 0..MaxFaults
    BY <1>4, FaultType DEF Claim, TypeOK
  <2>3. fence' \in Fences \cup {NoOne}
    <3>1. target[x] \in Fences
      BY <1>0, <1>4 DEF Claim, ControlInv, Committed
    <3>2. fence' = target[x] \/ fence' = fence
      BY <1>4 DEF Claim
    <3> QED BY <3>1, <3>2 DEF TypeOK
  <2>4. SockType' /\ CtlType'
    BY <1>0, <1>4, ReturnType, GoToType, TypeParts
       DEF Claim, Steps, FinalizeSteps, CtlType, SockType, sockVars
  <2> QED BY <1>4, <2>1, <2>2, <2>3, <2>4, TypeParts, TypePartsNext
          DEF Claim, EnvType, QueueType, rowVars, stopVars, rtcVars
<1> QED BY <1>1, <1>2, <1>3, <1>4 DEF Recover

\* Queueing the durable stop keeps the stop rows typed.
LEMMA EnsureStoppedType ==
    ASSUME TypeOK, NEW f \in Ids, NEW b \in BOOLEAN, EnsureStopped(f, b)
    PROVE  stop' \in [Ids -> {"none", "armed", "confirmed"}] /\ faults' \in 0..MaxFaults
<1>1. (stop[f] = "confirmed") \in BOOLEAN
  OBVIOUS
<1> QED BY <1>1, FaultType DEF EnsureStopped, TypeOK

\* Every step of finalizeDesktopSession keeps the types.
LEMMA FinalizeType ==
    ASSUME TypeOK, ControlInv, NEW x \in Actors, Finalize(x)
    PROVE  TypeOK'
<1> USE DEF At
<1>0. pc[x] \in FinalizeSteps
  BY DEF Finalize, Ensure, Seal, Unfence, Enqueue, FinalizeSteps
<1>f. target[x] \in Fences /\ target[x].id \in Ids
  BY <1>0, FinalizeTarget
<1>1. CASE Ensure(x)
  <2>1. SockType' /\ CtlType' /\ QueueType'
    <3>1. CASE Unfinished(x)
      BY <1>0, <3>1, UnfinishedType
    <3>2. CASE ~Unfinished(x)
      BY <1>1, <3>2, GoToType, TypeParts
         DEF Ensure, Steps, FinalizeSteps, SockType, CtlType, QueueType, sockVars
    <3> QED BY <3>1, <3>2
  <2>2. stop' \in [Ids -> {"none", "armed", "confirmed"}] /\ faults' \in 0..MaxFaults
    BY <1>1, <1>f, EnsureStoppedType DEF Ensure
  <2> QED BY <1>1, <2>1, <2>2, TypeParts, TypePartsNext
          DEF Ensure, EnvType, rowVars, redisVars, rtcVars
<1>2. CASE Seal(x)
  <2>1. SockType' /\ CtlType' /\ QueueType'
    <3>1. CASE Unfinished(x)
      BY <1>0, <3>1, UnfinishedType
    <3>2. CASE Recovering(x) /\ Return(x, TRUE) /\ UNCHANGED <<job, tries>>
      BY <3>2, ReturnType, TypeParts DEF QueueType, Recovering
    <3>3. CASE GoTo(x, "unfence") /\ UNCHANGED <<target, job, tries, sockVars>>
      BY <3>3, GoToType, TypeParts
         DEF Steps, FinalizeSteps, SockType, CtlType, QueueType, sockVars
    <3> QED BY <1>2, <3>1, <3>2, <3>3 DEF Seal
  <2>2. faults' \in 0..MaxFaults
    BY <1>2, FaultType DEF Seal
  <2>3. /\ row' \in {"fresh", "pending", "connecting", "active", "ended"}
        /\ summary' \in BOOLEAN /\ endings' \in Nat
    <3>1. row' = "ended" \/ row' = row
      BY <1>2 DEF Seal
    <3>2. summary' = (summary \/ RowOpen) \/ summary' = summary
      BY <1>2 DEF Seal
    <3>3. endings' = endings + 1 \/ endings' = endings
      BY <1>2 DEF Seal
    <3>4. summary' \in BOOLEAN
      BY <3>2, Zenon DEF TypeOK
    <3> QED BY <3>1, <3>3, <3>4 DEF TypeOK
  <2> QED BY <1>2, <2>1, <2>2, <2>3, TypeParts, TypePartsNext
          DEF Seal, EnvType, redisVars, rtcVars
<1>3. CASE Unfence(x)
  <2>1. SockType' /\ CtlType' /\ QueueType'
    BY <1>0, <1>3, UnfinishedType, FinishedType DEF Unfence
  <2>2. faults' \in 0..MaxFaults
    BY <1>3, FaultType DEF Unfence
  <2> QED BY <1>3, <2>1, <2>2, TypeParts, TypePartsNext
          DEF Unfence, EnvType, rowVars, rtcVars
<1>4. CASE Enqueue(x)
  <2>1. QueueType'
    BY <1>4, <1>f, TypeParts DEF Enqueue, QueueType
  <2>2. SockType' /\ CtlType'
    <3>1. CASE Recovering(x) /\ Return(x, TRUE)
      BY <3>1, ReturnType DEF Recovering
    <3>2. CASE ~(Recovering(x) /\ Return(x, TRUE))
      BY <1>4, <3>2, GoToType, RemoveLocalType, TypeParts
         DEF Enqueue, Steps, ConnSteps, SockType, CtlType
    <3> QED BY <3>1, <3>2
  <2> QED BY <1>4, <2>1, <2>2, TypeParts, TypePartsNext
          DEF Enqueue, EnvType, rowVars, redisVars, rtcVars
<1> QED BY <1>1, <1>2, <1>3, <1>4 DEF Finalize

\* The deadline of a believed reply is within the time to live.
LEMMA DeadlineType ==
    ASSUME TypeOK, NEW c \in Conns
    PROVE  /\ Deadline(c) \in 0..Ttl
           /\ Deadline(c) > 0 => age[c] < Ttl /\ Deadline(c) < Ttl - age[c]
<1>1. age[c] \in 0..(MaxRtt + 1)
  BY DEF TypeOK
<1> QED BY <1>1, TimeAssumption DEF Deadline

\* Lease requests and their replies, admission and renewal.
LEMMA ConnType ==
    ASSUME TypeOK, NEW c \in Conns,
           \/ Admit(c) \/ Lease(c) \/ Bind(c) \/ RejectOpen(c) \/ Activate(c)
           \/ Renew(c) \/ PingTick(c) \/ SocketCloses(c)
    PROVE  TypeOK'
<1> USE DEF At
<1> USE TypeParts, TypePartsNext, ActorFacts, TimeAssumption
<1>0. c \in Actors
  OBVIOUS
<1>1. CASE Admit(c)
  BY <1>0, <1>1, GoToType
     DEF Admit, Steps, RecoverySteps, EnvType, SockType, CtlType, QueueType, rowVars,
         redisVars, sockVars, stopVars, rtcVars
<1>2. CASE LeaseExec(c)
  <2>1. req' \in [Conns -> {"none", "acquire", "renew", "ok", "refused"}]
    BY <1>2 DEF LeaseExec, TypeOK
  <2>2. owner' \in Conns \cup {NoOne} /\ ttl' \in 0..Ttl
    BY <1>2 DEF LeaseExec, TypeOK
  <2> QED BY <1>2, <2>1, <2>2
          DEF LeaseExec, EnvType, SockType, CtlType, QueueType, rowVars, stopVars, rtcVars
<1>3. CASE AcquireReply(c)
  <2>1. req' \in [Conns -> {"none", "acquire", "renew", "ok", "refused"}]
    BY <1>3 DEF AcquireReply, TypeOK
  <2>2. age' \in [Conns -> 0..(MaxRtt + 1)]
    BY <1>3 DEF AcquireReply, TypeOK
  <2>3. local' \in [Instances -> Conns \cup {NoOne}]
    BY <1>3 DEF AcquireReply, TypeOK
  <2>4. safe' \in [Conns -> 0..Ttl]
    BY <1>3, DeadlineType DEF AcquireReply, TypeOK
  <2>5. pc' \in [Actors -> Steps]
    BY <1>0, <1>3, GoToType DEF AcquireReply, Steps, ConnSteps
  <2> QED BY <1>3, <2>1, <2>2, <2>3, <2>4, <2>5
          DEF AcquireReply, EnvType, SockType, CtlType, QueueType, rowVars, redisVars,
              stopVars, rtcVars
<1>4. CASE RenewReply(c)
  <2>1. req' \in [Conns -> {"none", "acquire", "renew", "ok", "refused"}]
    BY <1>4 DEF RenewReply, TypeOK
  <2>2. age' \in [Conns -> 0..(MaxRtt + 1)]
    BY <1>4 DEF RenewReply, TypeOK
  <2>3. CtlType' /\ safe' \in [Conns -> 0..Ttl] /\ pinging' \in [Conns -> BOOLEAN]
    <3>1. CASE StartClose(c)
      BY <3>1, StartCloseType
    <3>2. CASE ~StartClose(c)
      BY <1>4, <3>2, DeadlineType DEF RenewReply, SockType, CtlType
    <3> QED BY <3>1, <3>2
  <2> QED BY <1>4, <2>1, <2>2, <2>3
          DEF RenewReply, EnvType, SockType, QueueType, rowVars, redisVars, stopVars, rtcVars
<1>5. CASE Bind(c)
  <2>1. CtlType' /\ safe' \in [Conns -> 0..Ttl] /\ pinging' \in [Conns -> BOOLEAN]
    <3>1. CASE safe[c] > 0
      BY <1>0, <1>5, <3>1, GoToType DEF Bind, Steps, ConnSteps, SockType, CtlType
    <3>2. CASE ~(safe[c] > 0)
      BY <1>5, <3>2, StartCloseType DEF Bind
    <3> QED BY <3>1, <3>2
  <2>2. activating' \in [Conns -> BOOLEAN]
    BY <1>5 DEF Bind, TypeOK
  <2> QED BY <1>5, <2>1, <2>2
          DEF Bind, EnvType, SockType, QueueType, rowVars, redisVars, stopVars, rtcVars
<1>6. CASE RejectOpen(c)
  <2>1. safe' \in [Conns -> 0..Ttl]
    BY <1>6 DEF RejectOpen, TypeOK
  <2>2. pc' \in [Actors -> Steps]
    BY <1>0, <1>6, GoToType DEF RejectOpen, Steps, ConnSteps
  <2>3. local' \in [Instances -> Conns \cup {NoOne}]
    BY <1>6, RemoveLocalType DEF RejectOpen
  <2> QED BY <1>6, <2>1, <2>2, <2>3
          DEF RejectOpen, EnvType, SockType, CtlType, QueueType, rowVars, redisVars,
              stopVars, rtcVars
<1>7. CASE Activate(c)
  <2>1. CtlType' /\ safe' \in [Conns -> 0..Ttl] /\ pinging' \in [Conns -> BOOLEAN]
    <3>1. CASE StartClose(c)
      BY <3>1, StartCloseType
    <3>2. CASE GoTo(c, "live")
      BY <1>0, <1>7, <3>1, <3>2, GoToType, StartCloseType
         DEF Activate, Steps, ConnSteps, SockType, CtlType
    <3>3. CASE ~StartClose(c) /\ ~GoTo(c, "live")
      BY <1>7, <3>3 DEF Activate, SockType, CtlType
    <3> QED BY <3>1, <3>2, <3>3
  <2>2. activating' \in [Conns -> BOOLEAN]
    BY <1>7 DEF Activate, TypeOK
  <2>3. row' \in {"fresh", "pending", "connecting", "active", "ended"}
    BY <1>7 DEF Activate, TypeOK
  <2> QED BY <1>7, <2>1, <2>2, <2>3
          DEF Activate, EnvType, SockType, QueueType, redisVars, stopVars, rtcVars
<1>8. CASE Renew(c)
  BY <1>8 DEF Renew, TypeOK, rowVars, redisVars, stopVars, rtcVars
<1>9. CASE PingTick(c)
  <2>1. CtlType' /\ safe' \in [Conns -> 0..Ttl] /\ pinging' \in [Conns -> BOOLEAN]
    <3>1. CASE StartClose(c)
      BY <3>1, StartCloseType
    <3>2. CASE ~StartClose(c)
      BY <1>9, <3>2 DEF PingTick, SockType, CtlType
    <3> QED BY <3>1, <3>2
  <2> QED BY <1>9, <2>1
          DEF PingTick, EnvType, SockType, QueueType, rowVars, redisVars, stopVars, rtcVars
<1>10. CASE SocketCloses(c)
  BY <1>10, StartCloseType
     DEF SocketCloses, EnvType, SockType, QueueType, rowVars, redisVars, stopVars, rtcVars
<1> QED BY <1>1, <1>2, <1>3, <1>4, <1>5, <1>6, <1>7, <1>8, <1>9, <1>10 DEF Lease

\* The close of an installed connection.
LEMMA CloseType ==
    ASSUME TypeOK, NEW c \in Conns, Close(c)
    PROVE  TypeOK'
<1> USE DEF At
<1> USE TypeParts, TypePartsNext, ActorFacts, TimeAssumption
<1>0. c \in Actors /\ c \in Ids
  OBVIOUS
<1>1. CASE BeginClose(c)
  <2>1. pc' \in [Actors -> Steps]
    BY <1>0, <1>1, GoToType DEF BeginClose, Steps, ConnSteps, CloseSteps
  <2>2. local' \in [Instances -> Conns \cup {NoOne}]
    BY <1>1, RemoveLocalType DEF BeginClose, TypeOK
  <2>3. ttl' \in 0..Ttl
    BY <1>1 DEF BeginClose, TypeOK
  <2> QED BY <1>1, <2>1, <2>2, <2>3
          DEF BeginClose, EnvType, SockType, CtlType, QueueType, rowVars, stopVars, rtcVars
<1>2. CASE Persist(c)
  <2>1. pc' \in [Actors -> Steps]
    BY <1>0, <1>2, GoToType DEF Persist, Steps, FinalizeSteps, CloseSteps
  <2>2. fence' \in Fences \cup {NoOne}
    BY <1>2, FenceFacts DEF Persist, TypeOK
  <2>3. faults' \in 0..MaxFaults
    BY <1>2, FaultType DEF Persist
  <2> QED BY <1>2, <2>1, <2>2, <2>3
          DEF Persist, EnvType, SockType, CtlType, QueueType, rowVars, sockVars, stopVars,
              rtcVars
<1>3. CASE Halt(c)
  <2>1. pc' \in [Actors -> Steps]
    BY <1>0, <1>3, GoToType DEF Halt, Steps, CloseSteps
  <2>2. stop' \in [Ids -> {"none", "armed", "confirmed"}] /\ faults' \in 0..MaxFaults
    BY <1>0, <1>3, EnsureStoppedType DEF Halt
  <2> QED BY <1>3, <2>1, <2>2
          DEF Halt, EnvType, SockType, CtlType, QueueType, rowVars, redisVars, sockVars,
              rtcVars
<1>4. CASE Release(c)
  <2>1. pc' \in [Actors -> Steps]
    BY <1>0, <1>4, GoToType DEF Release, Steps, ConnSteps
  <2>2. owner' \in Conns \cup {NoOne} /\ ttl' \in 0..Ttl
    BY <1>4 DEF Release, TypeOK
  <2> QED BY <1>4, <2>1, <2>2
          DEF Release, EnvType, SockType, CtlType, QueueType, rowVars, sockVars, stopVars,
              rtcVars
<1> QED BY <1>1, <1>2, <1>3, <1>4 DEF Close

\* Queue jobs.
LEMMA JobType ==
    ASSUME TypeOK, ControlInv, NEW f \in Ids, JobReads(f) \/ JobStalls(f) \/ AgentStops(f)
    PROVE  TypeOK'
<1> USE DEF At
<1> USE TypeParts, TypePartsNext
<1>0. Job(f) \in Actors
  BY ActorFacts
<1>1. CASE JobReads(f)
  <2>1. CtlType' /\ QueueType'
    <3>1. CASE fence # NoOne /\ fence.id = f
      BY <1>0, <1>1, <3>1, GoToType
         DEF JobReads, Steps, FinalizeSteps, CtlType, QueueType, EnvType
    <3>2. CASE ~(fence # NoOne /\ fence.id = f)
      <4>1. JobThrows(f) /\ tries[f] < MaxAttempts
        BY <1>1, <3>2 DEF JobReads, ControlInv
      <4> QED BY <4>1, JobThrowsType
    <3> QED BY <3>1, <3>2
  <2> QED BY <1>1, <2>1
          DEF JobReads, EnvType, SockType, rowVars, redisVars, sockVars, rtcVars
<1>2. CASE JobStalls(f)
  <2>1. CtlType'
    BY <1>0, <1>2, GoToType DEF JobStalls, Steps, CtlType
  <2>2. faults' \in 0..MaxFaults
    BY <1>2, FaultType DEF JobStalls
  <2> QED BY <1>2, <2>1, <2>2
          DEF JobStalls, EnvType, SockType, QueueType, rowVars, redisVars, sockVars,
              stopVars, rtcVars
<1>3. CASE AgentStops(f)
  BY <1>3 DEF AgentStops, EnvType, SockType, CtlType, QueueType, rowVars, redisVars,
              sockVars, rtcVars
<1> QED BY <1>1, <1>2, <1>3

\* A call that fails without effect.
LEMMA ThrowsType ==
    ASSUME TypeOK, ControlInv, NEW x \in Actors, Throws(x)
    PROVE  TypeOK'
<1> USE DEF At
<1> USE TypeParts, TypePartsNext
<1>1. faults' \in 0..MaxFaults
  BY FaultType DEF Throws
<1>2. CtlType' /\ QueueType' /\ SockType'
  <2>1. CASE x \in Jobs /\ pc[x] \in FinalizeSteps /\ JobThrows(target[x].id) /\ UNCHANGED sockVars
    BY <2>1, FinalizeTarget, JobThrowsType DEF SockType, sockVars
  <2>2. CASE Recovering(x) /\ Return(x, TRUE) /\ UNCHANGED <<job, tries>>
    BY <2>2, ReturnType DEF Recovering, QueueType
  <2>3. CASE /\ UNCHANGED <<target, job, tries, sockVars>>
             /\ \E s \in {"halt", "begin", "enqueue", "gone"} : GoTo(x, s)
    BY <2>3, GoToType
       DEF Steps, ConnSteps, CloseSteps, FinalizeSteps, CtlType, QueueType, SockType, sockVars
  <2> QED BY <2>1, <2>2, <2>3 DEF Throws
<1> QED BY <1>1, <1>2 DEF Throws, EnvType, rowVars, redisVars, rtcVars

\* The other writers of the row, time and the death of a replica.
LEMMA WorldType ==
    ASSUME TypeOK, ControlInv,
           \/ EndSession \/ ReapSession \/ OfferChecks \/ OfferWrites \/ Answer \/ StartFails
           \/ PeerDrops \/ GrowOld \/ Tick
           \/ \E i \in Instances : Sweep(i) \/ Crash(i)
    PROVE  TypeOK'
<1> USE DEF At
<1> USE TypeParts, TypePartsNext, TimeAssumption, BoundAssumption
<1> USE DEF EnvType, SockType, CtlType, QueueType, rowVars, redisVars, sockVars, stopVars,
            rtcVars
<1>a. ASSUME CloseRow \/ CloseRowOnly, peer' \in BOOLEAN PROVE TypeOK'
  <2>1. CASE CloseRow
    BY <1>a, <2>1 DEF CloseRow
  <2>2. CASE CloseRowOnly
    <3>1. faults' \in 0..MaxFaults
      BY <2>2, FaultType DEF CloseRowOnly
    <3> QED BY <1>a, <2>2, <3>1 DEF CloseRowOnly
  <2> QED BY <1>a, <2>1, <2>2
<1>b. peer \in BOOLEAN /\ (UNCHANGED peer => peer' \in BOOLEAN)
  OBVIOUS
<1>1. CASE EndSession
  BY <1>1, <1>a, <1>b DEF EndSession
<1>2. CASE ReapSession
  BY <1>2, <1>a, <1>b, Zenon DEF ReapSession
<1>3. CASE OfferChecks
  BY <1>3 DEF OfferChecks
<1>4. CASE OfferWrites
  BY <1>4 DEF OfferWrites, ControlInv
<1>5. CASE Answer
  BY <1>5 DEF Answer
<1>6. CASE StartFails
  BY <1>6, <1>a, <1>b, Zenon DEF StartFails
<1>7. CASE PeerDrops
  <2>1. CASE row = "active"
    BY <1>7, <2>1, <1>a DEF PeerDrops
  <2>2. CASE row # "active"
    BY <1>7, <2>2 DEF PeerDrops
  <2> QED BY <2>1, <2>2
<1>8. CASE GrowOld
  BY <1>8 DEF GrowOld
<1>9. CASE Tick
  <2>1. ttl' \in 0..Ttl /\ owner' \in Conns \cup {NoOne}
    BY <1>9 DEF Tick, Down
  <2>2. safe' \in [Conns -> 0..Ttl]
    BY <1>9 DEF Tick, Down
  <2>3. age' \in [Conns -> 0..(MaxRtt + 1)]
    BY <1>9 DEF Tick
  <2>4. seen' \in [Instances -> 0..(Ttl + 1)]
    BY <1>9 DEF Tick
  <2> QED BY <1>9, <2>1, <2>2, <2>3, <2>4 DEF Tick
<1>10. ASSUME NEW i \in Instances, Sweep(i) PROVE TypeOK'
  <2>1. pc' \in [Actors -> Steps]
    BY <1>10, GoToType, ActorFacts DEF Sweep, Steps, RecoverySteps
  <2> QED BY <1>10, <2>1 DEF Sweep
<1>11. ASSUME NEW i \in Instances, Crash(i) PROVE TypeOK'
  <2>1. pc' \in [Actors -> Steps]
    BY <1>11 DEF Crash, Steps, ConnSteps
  <2>2. target' \in [Actors -> Fences \cup {NoOne}]
    BY <1>11 DEF Crash
  <2>3. safe' \in [Conns -> 0..Ttl]
    BY <1>11 DEF Crash
  <2>4. pinging' \in [Conns -> BOOLEAN] /\ activating' \in [Conns -> BOOLEAN]
    BY <1>11 DEF Crash
  <2>5. local' \in [Instances -> Conns \cup {NoOne}] /\ seen' \in [Instances -> 0..(Ttl + 1)]
    BY <1>11 DEF Crash
  <2>6. faults' \in 0..MaxFaults
    BY <1>11, FaultType DEF Crash
  <2> QED BY <1>11, <2>1, <2>2, <2>3, <2>4, <2>5, <2>6 DEF Crash
<1> QED BY <1>1, <1>2, <1>3, <1>4, <1>5, <1>6, <1>7, <1>8, <1>9, <1>10, <1>11

\* Every step keeps every variable in its type.
LEMMA TypeInductive ==
    ASSUME TypeOK, ControlInv, [Next]_vars
    PROVE  TypeOK'
<1>1. CASE UNCHANGED vars
  BY <1>1 DEF TypeOK, vars, rowVars, redisVars, sockVars, stopVars, rtcVars
<1>2. ASSUME NEW i \in Instances, InstanceStep(i) PROVE TypeOK'
  BY <1>2, ActorFacts, RecoverType, FinalizeType, WorldType DEF InstanceStep
<1>3. ASSUME NEW c \in Conns, ConnStep(c) PROVE TypeOK'
  BY <1>3, ActorFacts, RecoverType, FinalizeType, CloseType DEF ConnStep
<1>4. ASSUME NEW f \in Ids, JobStep(f) PROVE TypeOK'
  BY <1>4, ActorFacts, JobType, FinalizeType DEF JobStep
<1> QED BY <1>1, <1>2, <1>3, <1>4, ThrowsType, ConnType, JobType, WorldType DEF Next

-----------------------------------------------------------------------------
(* Control.                                                                *)

\* Where a connection or a replica may be, given whether it is installed.
Placed(x, s, installed) ==
    /\ x \in Instances => s \in {"idle"} \cup RecoverySteps \cup FinalizeSteps
    /\ x \in Conns =>
          /\ installed => s \in Serving \cup CloseSteps \cup FinalizeSteps
          /\ s \in Serving \cup CloseSteps => installed

\* The queue loses no waiting job and keeps count of the attempts.
QueueKept ==
    \A f \in Ids : /\ job[f] = "waiting" => job'[f] = "waiting"
                   /\ job'[f] \in {"none", "waiting"} => tries'[f] < MaxAttempts

\* A step that leaves the recovery queue alone keeps its part of ControlInv.
LEMMA QueueUnchanged ==
    ASSUME ControlInv, UNCHANGED <<job, tries>>
    PROVE  QueueKept
BY DEF ControlInv, QueueKept

\* A step of a connection or of a replica that leaves the other entries alone.
LEMMA ActorMoves ==
    ASSUME TypeOK, ControlInv, NEW x \in Conns \cup Instances, NEW s, NEW t,
           pc' = [pc EXCEPT ![x] = s], target' = [target EXCEPT ![x] = t],
           \A c \in Conns \ {x} : Installed(c)' <=> Installed(c),
           Placed(x, s, Installed(x)'),
           s \in Committed => t \in Fences,
           QueueKept, UNCHANGED <<offer, offers>>
    PROVE  ControlInv'
<1>0. x \in Actors
  BY ActorFacts
<1>1. \A y \in Actors : y # x => pc'[y] = pc[y] /\ target'[y] = target[y]
  BY <1>0 DEF TypeOK
<1>2. pc'[x] = s /\ target'[x] = t
  BY <1>0 DEF TypeOK
<1>3. \A i \in Instances : pc'[i] \in {"idle"} \cup RecoverySteps \cup FinalizeSteps
  BY <1>1, <1>2, ActorFacts DEF ControlInv, Placed
<1>4. \A y \in Actors : pc'[y] \in Committed => target'[y] \in Fences
  BY <1>1, <1>2 DEF ControlInv
<1>5. \A f \in Ids : Job(f) \in Actors /\ Job(f) # x
  BY ActorFacts
<1>6. \A f \in Ids : pc'[Job(f)] \in {"idle", "ensure", "seal", "unfence"}
  BY <1>1, <1>5 DEF ControlInv
<1>7. \A f \in Ids : pc'[Job(f)] # "idle" => job'[f] = "waiting" /\ target'[Job(f)].id = f
  BY <1>1, <1>5 DEF ControlInv, QueueKept
<1>8. \A c \in Conns : Installed(c)' => pc'[c] \in Serving \cup CloseSteps \cup FinalizeSteps
  BY <1>1, <1>2, ActorFacts DEF ControlInv, Placed
<1>9. \A c \in Conns : pc'[c] \in Serving \cup CloseSteps => Installed(c)'
  BY <1>1, <1>2, ActorFacts DEF ControlInv, Placed
<1>10. (offer = "checked" => offers < MaxOffers)'
  BY DEF ControlInv
<1> QED BY <1>3, <1>4, <1>6, <1>7, <1>8, <1>9, <1>10 DEF ControlInv, QueueKept

\* A step of a queue job.
LEMMA JobMoves ==
    ASSUME TypeOK, ControlInv, NEW f \in Ids, NEW s, NEW t,
           pc' = [pc EXCEPT ![Job(f)] = s], target' = [target EXCEPT ![Job(f)] = t],
           s \in {"idle", "ensure", "seal", "unfence"},
           s # "idle" => t \in Fences /\ t.id = f /\ job'[f] = "waiting",
           \A g \in Ids : g # f => job'[g] = job[g] /\ tries'[g] = tries[g],
           job'[f] \in {"none", "waiting"} => tries'[f] < MaxAttempts,
           UNCHANGED <<local, offer, offers>>
    PROVE  ControlInv'
<1>0. Job(f) \in Actors
  BY ActorFacts
<1>1. \A y \in Actors : y # Job(f) => pc'[y] = pc[y] /\ target'[y] = target[y]
  BY <1>0 DEF TypeOK
<1>2. pc'[Job(f)] = s /\ target'[Job(f)] = t
  BY <1>0 DEF TypeOK
<1>3. \A i \in Instances : pc'[i] \in {"idle"} \cup RecoverySteps \cup FinalizeSteps
  BY <1>1, ActorFacts DEF ControlInv
<1>4. \A y \in Actors : pc'[y] \in Committed => target'[y] \in Fences
  BY <1>1, <1>2 DEF ControlInv, Committed, CloseSteps, FinalizeSteps
<1>5. \A g \in Ids : Job(g) \in Actors /\ (g # f => Job(g) # Job(f))
  BY ActorFacts
<1>6. \A g \in Ids : pc'[Job(g)] \in {"idle", "ensure", "seal", "unfence"}
  BY <1>1, <1>2, <1>5 DEF ControlInv
<1>7. \A g \in Ids : pc'[Job(g)] # "idle" => job'[g] = "waiting" /\ target'[Job(g)].id = g
  BY <1>1, <1>2, <1>5 DEF ControlInv
<1>8. \A c \in Conns : (Installed(c)' <=> Installed(c)) /\ pc'[c] = pc[c]
  BY <1>1, ActorFacts DEF Installed
<1>9. \A g \in Ids : job'[g] \in {"none", "waiting"} => tries'[g] < MaxAttempts
  BY DEF ControlInv
<1>10. (offer = "checked" => offers < MaxOffers)'
  BY DEF ControlInv
<1> QED BY <1>3, <1>4, <1>6, <1>7, <1>8, <1>9, <1>10 DEF ControlInv

\* Nothing that control depends on has changed.
LEMMA ControlUnchanged ==
    ASSUME ControlInv, UNCHANGED <<pc, target, job, tries, local, offer, offers>>
    PROVE  ControlInv'
BY DEF ControlInv, Installed

\* The connections other than c keep their entries when c's is removed or set.
LEMMA LocalKept ==
    ASSUME TypeOK, NEW x \in Conns \cup Instances,
           local' = local \/ (x \in Conns /\ RemoveLocal(x))
    PROVE  \A c \in Conns \ {x} : Installed(c)' <=> Installed(c)
<1> SUFFICES ASSUME NEW c \in Conns \ {x} PROVE Installed(c)' <=> Installed(c)
  OBVIOUS
<1>1. CASE local' = local
  BY <1>1 DEF Installed
<1>2. CASE x \in Conns /\ RemoveLocal(x)
  <2>1. Home[c] \in Instances /\ Home[x] \in Instances /\ c # NoOne
    BY <1>2, ActorFacts
  <2> QED BY <1>2, <2>1 DEF RemoveLocal, Installed, TypeOK
<1> QED BY <1>1, <1>2

\* A removed entry is gone.
LEMMA LocalRemoved ==
    ASSUME TypeOK, NEW c \in Conns, RemoveLocal(c)
    PROVE  ~Installed(c)'
<1>1. Home[c] \in Instances /\ c # NoOne
  BY ActorFacts
<1> QED BY <1>1 DEF RemoveLocal, Installed, TypeOK

\* recover() returns.
LEMMA ReturnControl ==
    ASSUME TypeOK, ControlInv, NEW x \in Conns \cup Instances, Recovering(x),
           NEW b \in BOOLEAN, Return(x, b), QueueKept, UNCHANGED <<offer, offers>>
    PROVE  ControlInv'
<1>1. /\ pc' = [pc EXCEPT ![x] = AfterRecovery(x, b)]
      /\ target' = [target EXCEPT ![x] = NoOne] /\ local' = local
  BY DEF Return, GoTo
<1>2. x \in Conns => AfterRecovery(x, b) \in {"new", "acquire"} /\ ~Installed(x)
  BY ActorFacts DEF AfterRecovery, Recovering
<1>3. x \in Instances => AfterRecovery(x, b) = "idle"
  BY DEF AfterRecovery
<1>4. Placed(x, AfterRecovery(x, b), Installed(x)')
  BY <1>1, <1>2, <1>3 DEF Placed, Installed, Serving, CloseSteps
<1>5. AfterRecovery(x, b) \notin Committed
  BY <1>2, <1>3 DEF FinalizeSteps, Committed, CloseSteps
<1> QED BY <1>1, <1>4, <1>5, LocalKept, ActorMoves

\* Whoever is inside recover() is a replica or a connection not yet installed.
LEMMA StepsOfRecovery ==
    ASSUME ControlInv, NEW x \in Conns \cup Instances, pc[x] \in RecoverySteps
    PROVE  Recovering(x)
BY DEF ControlInv, Recovering, RecoverySteps, Serving, CloseSteps, FinalizeSteps

\* A step inside recover() or a finalization, that may choose its target.
LEMMA Proceeds ==
    ASSUME TypeOK, ControlInv, NEW x \in Conns \cup Instances,
           NEW s \in RecoverySteps \cup FinalizeSteps, GoTo(x, s),
           s \in RecoverySteps => Recovering(x),
           \/ target' = target /\ (s \in Committed => target[x] \in Fences)
           \/ \E t \in Fences : target' = [target EXCEPT ![x] = t],
           QueueKept, UNCHANGED <<local, offer, offers>>
    PROVE  ControlInv'
<1>1. Placed(x, s, Installed(x)')
  <2>1. x \in Conns /\ s \in RecoverySteps => ~Installed(x)
    BY ActorFacts DEF Recovering
  <2> QED BY <2>1 DEF Placed, RecoverySteps, FinalizeSteps, Serving, CloseSteps, Installed
<1>2. CASE target' = target /\ (s \in Committed => target[x] \in Fences)
  <2>1. target' = [target EXCEPT ![x] = target[x]]
    BY <1>2, ActorFacts DEF TypeOK
  <2> QED BY <1>1, <1>2, <2>1, LocalKept, ActorMoves DEF GoTo
<1>3. CASE \E t \in Fences : target' = [target EXCEPT ![x] = t]
  BY <1>1, <1>3, LocalKept, ActorMoves DEF GoTo
<1> QED BY <1>2, <1>3

\* Recovery keeps each actor at a step its own program has.
LEMMA RecoverControl ==
    ASSUME TypeOK, ControlInv, NEW x \in Conns \cup Instances, Recover(x)
    PROVE  ControlInv'
<1> USE DEF At
<1>0. pc[x] \in RecoverySteps
  BY DEF Recover, Load, Observe, Reload, Claim, RecoverySteps
<1>1. Recovering(x) /\ x \in Actors
  BY <1>0, StepsOfRecovery, ActorFacts
<1>2. QueueKept /\ UNCHANGED <<offer, offers>>
  BY QueueUnchanged DEF Recover, Load, Observe, Reload, Claim, stopVars, rtcVars
<1>3. CASE Return(x, TRUE) \/ Return(x, FALSE)
  BY <1>1, <1>2, <1>3, ReturnControl
<1>4. CASE ~Return(x, TRUE) /\ ~Return(x, FALSE)
  <2>1. UNCHANGED local
    BY <1>4 DEF Recover, Load, Observe, Reload, Claim, sockVars
  <2>2. CASE Load(x)
    <3>1. GoTo(x, "observe") /\ UNCHANGED target
      BY <1>4, <2>2 DEF Load
    <3> QED BY <1>1, <1>2, <2>1, <3>1, Proceeds DEF RecoverySteps, FinalizeSteps, Committed, CloseSteps
  <2>3. CASE Observe(x)
    <3>1. CASE GoTo(x, "reload") /\ UNCHANGED target
      BY <1>1, <1>2, <2>1, <3>1, Proceeds DEF RecoverySteps, FinalizeSteps, Committed, CloseSteps
    <3>2. CASE GoTo(x, "ensure") /\ fence # NoOne /\ target' = [target EXCEPT ![x] = fence]
      <4>1. fence \in Fences
        BY <3>2 DEF TypeOK
      <4> QED BY <1>2, <2>1, <3>2, <4>1, Proceeds DEF RecoverySteps, FinalizeSteps
    <3> QED BY <1>4, <2>3, <3>1, <3>2 DEF Observe
  <2>4. CASE Reload(x)
    <3>1. GoTo(x, "claim")
      BY <1>4, <2>4 DEF Reload
    <3>2. PICK f \in OrphanIds : target' = [target EXCEPT ![x] = [id |-> f, orphan |-> TRUE]]
      BY <1>4, <2>4 DEF Reload
    <3>3. [id |-> f, orphan |-> TRUE] \in Fences
      BY <3>2 DEF OrphanIds, Stops, Ids, Fences
    <3> QED BY <1>1, <1>2, <2>1, <3>1, <3>2, <3>3, Proceeds DEF RecoverySteps
  <2>5. CASE Claim(x)
    <3>1. target[x] \in Fences
      BY <1>1, <2>5 DEF Claim, ControlInv, Committed
    <3>2. GoTo(x, "ensure") /\ UNCHANGED target
      BY <1>4, <2>5 DEF Claim
    <3> QED BY <1>2, <2>1, <3>1, <3>2, Proceeds DEF RecoverySteps, FinalizeSteps
  <2> QED BY <2>2, <2>3, <2>4, <2>5 DEF Recover
<1> QED BY <1>3, <1>4

\* closeDesktopSessionLifecycle starts on an installed connection.
LEMMA StartCloseControl ==
    ASSUME TypeOK, ControlInv, NEW c \in Conns, pc[c] \in Serving, StartClose(c),
           UNCHANGED <<local, job, tries, offer, offers>>
    PROVE  ControlInv'
<1>1. Installed(c)
  BY DEF ControlInv
<1>2. Placed(c, "begin", Installed(c)')
  BY <1>1, ActorFacts DEF Placed, CloseSteps, Installed
<1> QED BY <1>2, QueueUnchanged, LocalKept, ActorMoves, FenceFacts DEF StartClose, GoTo

\* A job's attempt throws.
LEMMA JobThrowsControl ==
    ASSUME TypeOK, ControlInv, NEW f \in Ids, JobThrows(f), UNCHANGED <<local, offer, offers>>
    PROVE  ControlInv'
<1>1. job'[f] \in {"none", "waiting"} => tries'[f] < MaxAttempts
  BY BoundAssumption DEF JobThrows, TypeOK
<1>2. \A g \in Ids : g # f => job'[g] = job[g] /\ tries'[g] = tries[g]
  BY DEF JobThrows, TypeOK
<1> QED BY <1>1, <1>2, JobMoves DEF JobThrows, GoTo

\* Handing a fence to the queue keeps the control invariant.
LEMMA UnfinishedControl ==
    ASSUME TypeOK, ControlInv, NEW x \in Actors, pc[x] \in FinalizeSteps, Unfinished(x),
           UNCHANGED <<offer, offers>>
    PROVE  ControlInv'
<1>1. CASE x \in Jobs
  BY <1>1, FinalizeTarget, JobThrowsControl DEF Unfinished, sockVars
<1>2. CASE x \in Conns \cup Instances
  <2>1. GoTo(x, "enqueue") /\ UNCHANGED <<job, tries, target, local>>
    BY <1>2, ActorFacts DEF Unfinished, sockVars
  <2> QED BY <1>2, <2>1, FinalizeTarget, QueueUnchanged, Proceeds
          DEF FinalizeSteps, RecoverySteps
<1> QED BY <1>1, <1>2, ActorFacts

\* Finalizing keeps the control invariant, for sockets, sweeps and jobs alike.
LEMMA FinalizeControl ==
    ASSUME TypeOK, ControlInv, NEW x \in Actors, Finalize(x)
    PROVE  ControlInv'
<1> USE DEF At
<1>0. pc[x] \in FinalizeSteps /\ UNCHANGED <<offer, offers>>
  BY DEF Finalize, Ensure, Seal, Unfence, Enqueue, FinalizeSteps, rtcVars
<1>1. CASE Unfinished(x)
  BY <1>0, <1>1, UnfinishedControl
<1>2. ASSUME NEW s \in {"seal", "unfence"}, GoTo(x, s),
             UNCHANGED <<target, job, tries, sockVars>>
      PROVE ControlInv'
  <2>1. CASE x \in Jobs
    <3>1. PICK f \in Ids : x = Job(f)
      BY <2>1, ActorFacts
    <3>2. target' = [target EXCEPT ![x] = target[x]]
      BY <1>2 DEF TypeOK
    <3>3. target[x] \in Fences /\ target[x].id = f /\ job[f] = "waiting" /\ tries[f] < MaxAttempts
      BY <1>0, <2>1, <3>1, FinalizeTarget, ActorFacts
    <3> QED BY <1>0, <1>2, <3>1, <3>2, <3>3, JobMoves DEF GoTo, sockVars
  <2>2. CASE x \in Conns \cup Instances
    BY <1>0, <1>2, <2>2, FinalizeTarget, QueueUnchanged, Proceeds
       DEF FinalizeSteps, RecoverySteps, sockVars
  <2> QED BY <2>1, <2>2, ActorFacts
<1>3. ASSUME Recovering(x), NEW b \in BOOLEAN, Return(x, b), QueueKept PROVE ControlInv'
  BY <1>0, <1>3, ReturnControl DEF Recovering
<1>4. ASSUME x \in Conns, GoTo(x, "release"), RemoveLocal(x), UNCHANGED target, QueueKept
      PROVE ControlInv'
  <2>1. target' = [target EXCEPT ![x] = target[x]]
    BY <1>4 DEF TypeOK
  <2>2. Placed(x, "release", Installed(x)')
    BY <1>4, LocalRemoved, ActorFacts DEF Placed, Serving, CloseSteps
  <2> QED BY <1>0, <1>4, <2>1, <2>2, LocalKept, ActorMoves
          DEF GoTo, Committed, FinalizeSteps, CloseSteps
<1>5. CASE Ensure(x)
  BY <1>1, <1>2, <1>5 DEF Ensure
<1>6. CASE Seal(x)
  BY <1>1, <1>2, <1>3, <1>6, QueueUnchanged DEF Seal
<1>7. CASE Unfence(x)
  <2>1. CASE x \in Jobs /\ Finished(x)
    <3>1. /\ GoTo(x, "idle") /\ target' = [target EXCEPT ![x] = NoOne]
          /\ job' = [job EXCEPT ![target[x].id] = "done"] /\ UNCHANGED <<tries, sockVars>>
      BY <2>1, ActorFacts DEF Finished, Recovering
    <3>2. x = Job(target[x].id) /\ target[x].id \in Ids
      BY <1>0, <2>1, FinalizeTarget
    <3>3. /\ job'[target[x].id] = "done"
          /\ \A g \in Ids : g # target[x].id => job'[g] = job[g]
      BY <3>1, <3>2 DEF TypeOK
    <3> QED BY <1>0, <3>1, <3>2, <3>3, JobMoves DEF GoTo, sockVars
  <2>2. CASE x \notin Jobs /\ Finished(x)
    BY <1>3, <1>4, <2>2, QueueUnchanged DEF Finished
  <2> QED BY <1>1, <1>7, <2>1, <2>2 DEF Unfence
<1>8. CASE Enqueue(x)
  <2>1. QueueKept
    <3>1. target[x].id \in Ids
      BY <1>0, FinalizeTarget
    <3> QED BY <1>8, <3>1 DEF Enqueue, ControlInv, QueueKept, TypeOK
  <2> QED BY <1>3, <1>4, <1>8, <2>1 DEF Enqueue
<1> QED BY <1>5, <1>6, <1>7, <1>8 DEF Finalize

\* A connection moves on, its target unchanged.
LEMMA ConnMoves ==
    ASSUME TypeOK, ControlInv, NEW c \in Conns, NEW s, GoTo(c, s),
           s \in Committed => pc[c] \in Committed, UNCHANGED <<target, job, tries, offer, offers>>,
           \/ /\ local' = local
              /\ Installed(c) => s \in Serving \cup CloseSteps \cup FinalizeSteps
              /\ s \in Serving \cup CloseSteps => Installed(c)
           \/ RemoveLocal(c) /\ s \notin Serving \cup CloseSteps
    PROVE  ControlInv'
<1>1. target' = [target EXCEPT ![c] = target[c]]
  BY ActorFacts DEF TypeOK
<1>2. s \in Committed => target[c] \in Fences
  BY ActorFacts DEF ControlInv
<1>3. Placed(c, s, Installed(c)')
  BY LocalRemoved, ActorFacts DEF Placed, Installed
<1> QED BY <1>1, <1>2, <1>3, QueueUnchanged, LocalKept, ActorMoves DEF GoTo

\* The target of a closing connection is its own finalization.
LEMMA ConnControl ==
    ASSUME TypeOK, ControlInv, NEW c \in Conns,
           \/ Admit(c) \/ Lease(c) \/ Bind(c) \/ RejectOpen(c) \/ Activate(c)
           \/ Renew(c) \/ PingTick(c) \/ SocketCloses(c)
    PROVE  ControlInv'
<1> USE DEF At
<1> USE DEF Committed, Serving, CloseSteps, FinalizeSteps, RecoverySteps
<1>0. /\ UNCHANGED <<job, tries, offer, offers>>
      /\ Installed(c) => pc[c] \in Serving \cup CloseSteps \cup FinalizeSteps
      /\ pc[c] \in Serving \cup CloseSteps => Installed(c)
  BY DEF Admit, Lease, LeaseExec, AcquireReply, RenewReply, Bind, RejectOpen, Activate,
         Renew, PingTick, SocketCloses, stopVars, rtcVars, ControlInv
<1>1. ASSUME StartClose(c), pc[c] \in Serving, UNCHANGED local PROVE ControlInv'
  BY <1>0, <1>1, StartCloseControl
<1>2. CASE Admit(c)
  BY <1>0, <1>2, ConnMoves DEF Admit, sockVars
<1>3. CASE LeaseExec(c) \/ Renew(c)
  BY <1>0, <1>3, ControlUnchanged DEF LeaseExec, Renew
<1>4. CASE AcquireReply(c)
  <2>1. CASE /\ Believed(c) /\ local[Home[c]] = NoOne
             /\ local' = [local EXCEPT ![Home[c]] = c] /\ GoTo(c, "opening")
    <3>1. Home[c] \in Instances /\ Installed(c)'
      BY <2>1, ActorFacts DEF Installed, TypeOK
    <3>2. \A d \in Conns \ {c} : Installed(d)' <=> Installed(d)
      BY <2>1, <3>1, ActorFacts DEF Installed, TypeOK
    <3>3. target' = [target EXCEPT ![c] = target[c]]
      BY <1>4, ActorFacts DEF AcquireReply, TypeOK
    <3>4. Placed(c, "opening", Installed(c)')
      BY <3>1, ActorFacts DEF Placed
    <3> QED BY <1>0, <2>1, <3>2, <3>3, <3>4, QueueUnchanged, ActorMoves DEF GoTo
  <2>2. CASE /\ local' = local
             /\ GoTo(c, "release") \/ GoTo(c, "new") \/ GoTo(c, "gone")
    BY <1>0, <1>4, <2>2, ConnMoves DEF AcquireReply
  <2> QED BY <1>4, <2>1, <2>2 DEF AcquireReply
<1>5. CASE RenewReply(c)
  BY <1>0, <1>1, <1>5, ControlUnchanged DEF RenewReply
<1>6. CASE Bind(c)
  <2>1. CASE safe[c] > 0
    BY <1>0, <1>6, <2>1, ConnMoves DEF Bind
  <2>2. CASE ~(safe[c] > 0)
    BY <1>1, <1>6, <2>2 DEF Bind
  <2> QED BY <2>1, <2>2
<1>7. CASE RejectOpen(c)
  BY <1>0, <1>7, ConnMoves DEF RejectOpen
<1>8. CASE Activate(c)
  BY <1>0, <1>1, <1>8, ConnMoves, ControlUnchanged DEF Activate
<1>9. CASE PingTick(c)
  BY <1>0, <1>1, <1>9, ControlUnchanged DEF PingTick
<1>10. CASE SocketCloses(c)
  BY <1>1, <1>10 DEF SocketCloses
<1> QED BY <1>2, <1>3, <1>4, <1>5, <1>6, <1>7, <1>8, <1>9, <1>10 DEF Lease

\* The close handler keeps the control invariant.
LEMMA CloseControl ==
    ASSUME TypeOK, ControlInv, NEW c \in Conns, Close(c)
    PROVE  ControlInv'
<1> USE DEF At
<1> USE DEF Committed, Serving, CloseSteps, FinalizeSteps
<1>0. /\ UNCHANGED <<target, job, tries, offer, offers>>
      /\ Installed(c) => pc[c] \in Serving \cup CloseSteps \cup FinalizeSteps
      /\ pc[c] \in Serving \cup CloseSteps => Installed(c)
  BY DEF Close, BeginClose, Persist, Halt, Release, stopVars, rtcVars, ControlInv
<1>1. CASE BeginClose(c)
  BY <1>0, <1>1, ConnMoves DEF BeginClose
<1>2. CASE Persist(c)
  BY <1>0, <1>2, ConnMoves DEF Persist, sockVars
<1>3. CASE Halt(c)
  BY <1>0, <1>3, ConnMoves DEF Halt, sockVars
<1>4. CASE Release(c)
  BY <1>0, <1>4, ConnMoves DEF Release, sockVars
<1> QED BY <1>1, <1>2, <1>3, <1>4 DEF Close

\* The recovery job and the agent's stop keep the control invariant.
LEMMA JobControl ==
    ASSUME TypeOK, ControlInv, NEW f \in Ids, JobReads(f) \/ JobStalls(f) \/ AgentStops(f)
    PROVE  ControlInv'
<1> USE DEF At
<1>1. CASE JobReads(f)
  <2>1. CASE fence # NoOne /\ fence.id = f
    <3>1. fence \in Fences
      BY <2>1 DEF TypeOK
    <3>2. job[f] = "waiting" /\ tries[f] < MaxAttempts
      BY <1>1 DEF JobReads, ControlInv
    <3> QED BY <1>1, <2>1, <3>1, <3>2, JobMoves DEF JobReads, GoTo, sockVars, rtcVars
  <2>2. CASE ~(fence # NoOne /\ fence.id = f)
    BY <1>1, <2>2, JobThrowsControl DEF JobReads, sockVars, rtcVars
  <2> QED BY <2>1, <2>2
<1>2. CASE JobStalls(f)
  <2>1. job[f] \in {"none", "waiting"} => tries[f] < MaxAttempts
    BY DEF ControlInv
  <2> QED BY <1>2, <2>1, JobMoves DEF JobStalls, GoTo, sockVars, stopVars, rtcVars
<1>3. CASE AgentStops(f)
  BY <1>3, ControlUnchanged DEF AgentStops, sockVars, rtcVars
<1> QED BY <1>1, <1>2, <1>3

\* A thrown error leaves its actor at a step its own program has.
LEMMA ThrowsControl ==
    ASSUME TypeOK, ControlInv, NEW x \in Actors, Throws(x)
    PROVE  ControlInv'
<1> USE DEF At
<1>0. UNCHANGED <<offer, offers>>
  BY DEF Throws, rtcVars
<1>1. CASE x \in Jobs /\ pc[x] \in FinalizeSteps /\ JobThrows(target[x].id) /\ UNCHANGED sockVars
  BY <1>0, <1>1, FinalizeTarget, JobThrowsControl DEF sockVars
<1>2. CASE Recovering(x) /\ Return(x, TRUE) /\ UNCHANGED <<job, tries>>
  BY <1>0, <1>2, ReturnControl, QueueUnchanged DEF Recovering
<1>3. CASE /\ x \in Conns /\ Installed(x) /\ pc[x] \in FinalizeSteps \cup CloseSteps
           /\ UNCHANGED <<target, job, tries, sockVars>>
           /\ GoTo(x, "halt") \/ GoTo(x, "begin") \/ GoTo(x, "enqueue")
  BY <1>0, <1>3, ConnMoves DEF Committed, CloseSteps, FinalizeSteps, sockVars
<1>4. CASE /\ x \in Conns /\ pc[x] \in {"acquire", "release"} /\ GoTo(x, "gone")
           /\ UNCHANGED <<target, job, tries, sockVars>>
  <2>1. ~Installed(x)
    BY <1>4 DEF ControlInv, Serving, CloseSteps, FinalizeSteps
  <2> QED BY <1>0, <1>4, <2>1, ConnMoves DEF Committed, CloseSteps, FinalizeSteps, Serving, sockVars
<1> QED BY <1>1, <1>2, <1>3, <1>4 DEF Throws

\* The actors of a replica that dies leave their steps and their entry.
LEMMA CrashControl ==
    ASSUME TypeOK, ControlInv, NEW i \in Instances, Crash(i)
    PROVE  ControlInv'
<1> DEFINE lost == {i} \cup {c \in Conns : Home[c] = i /\ pc[c] # "new"}
<1>1. /\ pc' = [x \in Actors |-> IF x = i THEN "idle" ELSE IF x \in lost THEN "gone" ELSE pc[x]]
      /\ target' = [x \in Actors |-> IF x \in lost THEN NoOne ELSE target[x]]
      /\ local' = [local EXCEPT ![i] = NoOne]
      /\ UNCHANGED <<job, tries, offer, offers>>
  BY DEF Crash, stopVars, rtcVars
<1>2. \A x \in Actors : x \in lost => pc'[x] \in {"idle", "gone"} /\ (x \in Conns => pc'[x] = "gone")
  BY <1>1, ActorFacts
<1>3. \A x \in Actors : x \notin lost => pc'[x] = pc[x] /\ target'[x] = target[x]
  BY <1>1, ActorFacts
<1>4. \A j \in Instances : pc'[j] \in {"idle"} \cup RecoverySteps \cup FinalizeSteps
  BY <1>1, <1>3, ActorFacts DEF ControlInv
<1>5. \A x \in Actors : pc'[x] \in Committed => target'[x] \in Fences
  BY <1>2, <1>3 DEF ControlInv, Committed, CloseSteps, FinalizeSteps
<1>6. \A f \in Ids : Job(f) \in Actors /\ Job(f) \notin lost
  BY ActorFacts
<1>7. \A c \in Conns : c \in lost => ~Installed(c)'
  BY <1>1, ActorFacts DEF Installed, TypeOK
<1>8. \A c \in Conns : c \notin lost => (Installed(c)' <=> Installed(c))
  <2> SUFFICES ASSUME NEW c \in Conns, c \notin lost PROVE Installed(c)' <=> Installed(c)
    OBVIOUS
  <2>1. CASE Home[c] = i
    <3>1. pc[c] = "new"
      BY <2>1
    <3>2. ~Installed(c)
      BY <3>1 DEF ControlInv, Serving, CloseSteps, FinalizeSteps
    <3>3. local'[Home[c]] = NoOne
      BY <1>1, <2>1 DEF TypeOK
    <3> QED BY <3>2, <3>3, ActorFacts DEF Installed
  <2>2. CASE Home[c] # i
    BY <1>1, <2>2, ActorFacts DEF Installed, TypeOK
  <2> QED BY <2>1, <2>2
<1>9. \A c \in Conns : /\ Installed(c)' => pc'[c] \in Serving \cup CloseSteps \cup FinalizeSteps
                       /\ pc'[c] \in Serving \cup CloseSteps => Installed(c)'
  BY <1>2, <1>3, <1>7, <1>8, ActorFacts DEF ControlInv, Serving, CloseSteps
<1> QED BY <1>1, <1>3, <1>4, <1>5, <1>6, <1>9 DEF ControlInv

\* Steps of the REST routes, the reaper, the viewer and the clock keep the control invariant.
LEMMA WorldControl ==
    ASSUME TypeOK, ControlInv,
           \/ EndSession \/ ReapSession \/ OfferChecks \/ OfferWrites \/ Answer \/ StartFails
           \/ PeerDrops \/ GrowOld \/ Tick
           \/ \E i \in Instances : Sweep(i) \/ Crash(i)
    PROVE  ControlInv'
<1> USE DEF rowVars, redisVars, sockVars, stopVars, rtcVars
<1>1. CASE EndSession \/ ReapSession \/ StartFails \/ PeerDrops
  BY <1>1, ControlUnchanged DEF EndSession, ReapSession, StartFails, PeerDrops, CloseRow, CloseRowOnly
<1>2. CASE Answer \/ GrowOld \/ Tick
  BY <1>2, ControlUnchanged DEF Answer, GrowOld, Tick
<1>3. CASE OfferChecks \/ OfferWrites
  <2>1. UNCHANGED <<pc, target, job, tries, local>> /\ (offer' = "checked" => offers' < MaxOffers)
    BY <1>3 DEF OfferChecks, OfferWrites
  <2> QED BY <2>1 DEF ControlInv, Installed
<1>4. ASSUME NEW i \in Instances, Sweep(i) PROVE ControlInv'
  BY <1>4, QueueUnchanged, Proceeds
     DEF Sweep, RecoverySteps, FinalizeSteps, CloseSteps, Committed, Recovering
<1> QED BY <1>1, <1>2, <1>3, <1>4, CrashControl

\* The control invariant is inductive, one case per action.
LEMMA ControlInductive ==
    ASSUME TypeOK, ControlInv, [Next]_vars
    PROVE  ControlInv'
<1>1. CASE UNCHANGED vars
  BY <1>1, ControlUnchanged DEF vars, sockVars, stopVars, rtcVars
<1>2. ASSUME NEW i \in Instances, InstanceStep(i) PROVE ControlInv'
  BY <1>2, ActorFacts, RecoverControl, FinalizeControl, WorldControl DEF InstanceStep
<1>3. ASSUME NEW c \in Conns, ConnStep(c) PROVE ControlInv'
  BY <1>3, ActorFacts, RecoverControl, FinalizeControl, CloseControl DEF ConnStep
<1>4. ASSUME NEW f \in Ids, JobStep(f) PROVE ControlInv'
  BY <1>4, ActorFacts, JobControl, FinalizeControl DEF JobStep
<1> QED BY <1>1, <1>2, <1>3, <1>4, ThrowsControl, ConnControl, JobControl, WorldControl DEF Next

-----------------------------------------------------------------------------
(* The lease.                                                              *)

\* Nothing c depends on has changed, but perhaps a longer life of the key.
LEMMA LeaseFrame ==
    ASSUME TypeOK, TypeOK', NEW c \in Conns, LeaseOf(c),
           pc'[c] = pc[c], Installed(c)' <=> Installed(c),
           safe'[c] = safe[c], req'[c] = req[c], age'[c] = age[c],
           owner' = c <=> owner = c, owner = c => ttl' >= ttl
    PROVE  LeaseOf(c)'
<1>1. /\ ttl \in Nat /\ ttl' \in Nat /\ age[c] \in Nat /\ safe[c] \in Nat /\ Ttl \in Nat
      /\ MaxRtt \in Nat
  BY TimeAssumption DEF TypeOK
<1>2. Unadmitted(c)' <=> Unadmitted(c)
  BY DEF Unadmitted
<1> QED BY <1>1, <1>2 DEF LeaseOf

\* A connection that closes or has gone needs no deadline and no key.
LEMMA LeaseRetired ==
    ASSUME NEW c \in Conns, safe'[c] = 0,
           \/ pc'[c] \in CloseSteps \cup {"release", "gone"}
           \/ pc'[c] \in FinalizeSteps /\ Installed(c)'
    PROVE  LeaseOf(c)'
BY DEF LeaseOf, Unadmitted, Serving, CloseSteps, FinalizeSteps, RecoverySteps

\* A connection before its request.
LEMMA LeaseUnasked ==
    ASSUME NEW c \in Conns, safe'[c] = 0, owner' # c, req'[c] = "none",
           pc'[c] \in {"new"} \cup RecoverySteps \cup FinalizeSteps
    PROVE  LeaseOf(c)'
BY DEF LeaseOf, Unadmitted, Serving, FinalizeSteps, RecoverySteps

\* recover() returns to the connection or to another actor.
LEMMA ReturnLease ==
    ASSUME TypeOK, TypeOK', LeaseInv, NEW x \in Conns \cup Instances, Recovering(x),
           pc[x] \in RecoverySteps \cup FinalizeSteps, NEW b \in BOOLEAN, Return(x, b),
           UNCHANGED <<owner, ttl>>, NEW c \in Conns
    PROVE  LeaseOf(c)'
<1>0. x \in Actors /\ c \in Actors
  BY ActorFacts
<1>1. pc'[x] = AfterRecovery(x, b) /\ \A y \in Actors \ {x} : pc'[y] = pc[y]
  BY <1>0 DEF Return, GoTo, TypeOK
<1>2. UNCHANGED <<local, safe>>
  BY DEF Return
<1>3. CASE c # x
  <2>1. req'[c] = req[c] /\ age'[c] = age[c]
    BY <1>3 DEF Return, TypeOK
  <2>2. (Installed(c)' <=> Installed(c)) /\ LeaseOf(c)
    BY <1>2 DEF Installed, LeaseInv
  <2>3. ttl \in Nat
    BY DEF TypeOK
  <2> QED BY <1>0, <1>1, <1>2, <1>3, <2>1, <2>2, <2>3, LeaseFrame
<1>4. CASE c = x
  <2>1. Unadmitted(c) /\ pc[c] \notin Serving
    BY <1>4, ActorFacts DEF Recovering, Unadmitted, RecoverySteps, FinalizeSteps, Serving
  <2>2. owner # c /\ req[c] = "none" /\ safe[c] = 0
    BY <2>1 DEF LeaseInv, LeaseOf
  <2>3. CASE b
    <3>1. pc'[c] = "new" /\ req' = req
      BY <1>1, <1>4, <2>3, ActorFacts DEF AfterRecovery, Return
    <3> QED BY <1>2, <2>2, <3>1, LeaseUnasked
  <2>4. CASE ~b
    <3>1. pc'[c] = "acquire" /\ req' = [req EXCEPT ![c] = "acquire"]
      BY <1>1, <1>4, <2>4, ActorFacts DEF AfterRecovery, Return
    <3>2. req'[c] = "acquire" /\ safe'[c] = 0 /\ owner' # c
      BY <1>2, <2>2, <3>1 DEF TypeOK
    <3> QED BY <3>1, <3>2
            DEF LeaseOf, Unadmitted, Serving, RecoverySteps, FinalizeSteps
  <2> QED BY <2>3, <2>4
<1> QED BY <1>3, <1>4

\* A step of another actor that leaves the sockets and the key alone.
LEMMA LeaseSpectator ==
    ASSUME TypeOK, TypeOK', LeaseInv, NEW c \in Conns, pc'[c] = pc[c],
           Installed(c)' <=> Installed(c), UNCHANGED <<owner, ttl>>,
           safe'[c] = safe[c], req'[c] = req[c], age'[c] = age[c]
    PROVE  LeaseOf(c)'
<1>1. LeaseOf(c) /\ ttl \in Nat
  BY DEF LeaseInv, TypeOK
<1> QED BY <1>1, LeaseFrame

\* No step of recovery lets a connection outlive its lease.
LEMMA RecoverLease ==
    ASSUME TypeOK, TypeOK', ControlInv, LeaseInv, NEW x \in Conns \cup Instances, Recover(x),
           NEW c \in Conns
    PROVE  LeaseOf(c)'
<1> USE DEF At
<1>0. pc[x] \in RecoverySteps /\ x \in Actors /\ c \in Actors
  BY ActorFacts DEF Recover, Load, Observe, Reload, Claim, RecoverySteps
<1>1. Recovering(x) /\ UNCHANGED <<owner, ttl>>
  BY <1>0, StepsOfRecovery DEF Recover, Load, Observe, Reload, Claim, redisVars
<1>2. CASE Return(x, TRUE) \/ Return(x, FALSE)
  BY <1>0, <1>1, <1>2, ReturnLease
<1>3. CASE ~Return(x, TRUE) /\ ~Return(x, FALSE)
  <2>1. UNCHANGED sockVars
    BY <1>3 DEF Recover, Load, Observe, Reload, Claim
  <2>2. \E s \in RecoverySteps \cup FinalizeSteps : GoTo(x, s)
    BY <1>3 DEF Recover, Load, Observe, Reload, Claim, RecoverySteps, FinalizeSteps
  <2>3. CASE c # x
    BY <1>0, <1>1, <2>1, <2>2, <2>3, LeaseSpectator DEF GoTo, sockVars, Installed, TypeOK
  <2>4. CASE c = x
    <3>1. Unadmitted(c) /\ pc[c] \notin Serving
      BY <1>0, <2>4 DEF Unadmitted, RecoverySteps, Serving
    <3>2. owner # c /\ req[c] = "none" /\ safe[c] = 0
      BY <3>1 DEF LeaseInv, LeaseOf
    <3>3. pc'[c] \in RecoverySteps \cup FinalizeSteps
      BY <1>0, <2>2, <2>4 DEF GoTo, TypeOK
    <3> QED BY <1>1, <2>1, <3>2, <3>3, LeaseUnasked DEF sockVars
  <2> QED BY <2>3, <2>4
<1> QED BY <1>2, <1>3

\* A step of a finalization other than the end of a recovery.
LEMMA FinalizingLease ==
    ASSUME TypeOK, TypeOK', ControlInv, LeaseInv, NEW x \in Actors, pc[x] \in FinalizeSteps,
           NEW s, GoTo(x, s), UNCHANGED <<owner, ttl, req, age, safe>>,
           \/ (s \in FinalizeSteps \cup {"begin", "halt"} \/ x \in Jobs) /\ UNCHANGED local
           \/ x \in Conns /\ RemoveLocal(x) /\ s = "release",
           NEW c \in Conns
    PROVE  LeaseOf(c)'
<1>0. c \in Actors
  BY ActorFacts
<1>1. CASE c # x
  <2>1. pc'[c] = pc[c]
    BY <1>0, <1>1 DEF GoTo, TypeOK
  <2>2. Installed(c)' <=> Installed(c)
    <3>1. CASE local' = local
      BY <3>1 DEF Installed
    <3>2. CASE x \in Conns /\ RemoveLocal(x)
      BY <1>1, <3>2, LocalKept
    <3> QED BY <3>1, <3>2
  <2> QED BY <2>1, <2>2, LeaseSpectator
<1>2. CASE c = x
  <2>1. pc'[c] = s /\ x \notin Jobs
    BY <1>0, <1>2, ActorFacts DEF GoTo, TypeOK
  <2>2. safe'[c] = 0
    BY <1>2 DEF LeaseInv, LeaseOf, Serving, FinalizeSteps
  <2>3. CASE s \in FinalizeSteps /\ UNCHANGED local /\ ~Installed(c)
    <3>1. owner # c /\ req[c] = "none"
      BY <1>2, <2>3 DEF LeaseInv, LeaseOf, Unadmitted
    <3> QED BY <2>1, <2>2, <2>3, <3>1, LeaseUnasked
  <2>4. CASE s \in FinalizeSteps /\ UNCHANGED local /\ Installed(c)
    BY <2>1, <2>2, <2>4, LeaseRetired DEF Installed
  <2>5. CASE s \in {"begin", "halt", "release"}
    BY <2>1, <2>2, <2>5, LeaseRetired DEF CloseSteps
  <2> QED BY <1>2, <2>1, <2>3, <2>4, <2>5
<1> QED BY <1>1, <1>2

\* No step of finalizing lets a connection outlive its lease.
LEMMA FinalizeLease ==
    ASSUME TypeOK, TypeOK', ControlInv, LeaseInv, NEW x \in Actors, Finalize(x), NEW c \in Conns
    PROVE  LeaseOf(c)'
<1> USE DEF At
<1>0. pc[x] \in FinalizeSteps /\ UNCHANGED <<owner, ttl>>
  BY DEF Finalize, Ensure, Seal, Unfence, Enqueue, FinalizeSteps, redisVars
<1>1. ASSUME Recovering(x), NEW b \in BOOLEAN, Return(x, b) PROVE LeaseOf(c)'
  BY <1>0, <1>1, ReturnLease DEF Recovering
<1>2. ASSUME NEW s \in {"seal", "unfence", "enqueue"}, GoTo(x, s), UNCHANGED sockVars
      PROVE LeaseOf(c)'
  BY <1>0, <1>2, FinalizingLease DEF FinalizeSteps, sockVars
<1>3. ASSUME x \in Conns, GoTo(x, "release"), RemoveLocal(x), UNCHANGED <<req, age, safe>>
      PROVE LeaseOf(c)'
  BY <1>0, <1>3, FinalizingLease
<1>4. ASSUME x \in Jobs, GoTo(x, "idle"), UNCHANGED sockVars PROVE LeaseOf(c)'
  BY <1>0, <1>4, FinalizingLease DEF sockVars
<1>5. CASE Unfinished(x)
  <2>1. CASE x \in Jobs
    <3>1. GoTo(x, "idle") /\ UNCHANGED sockVars
      BY <1>0, <1>5, <2>1, FinalizeTarget DEF Unfinished, JobThrows
    <3> QED BY <1>4, <2>1, <3>1
  <2>2. CASE x \notin Jobs
    BY <1>2, <1>5, <2>2 DEF Unfinished
  <2> QED BY <2>1, <2>2
<1>6. CASE Ensure(x)
  BY <1>2, <1>5, <1>6 DEF Ensure
<1>7. CASE Seal(x)
  BY <1>1, <1>2, <1>5, <1>7 DEF Seal
<1>8. CASE Unfence(x)
  <2>1. CASE Finished(x)
    BY <1>1, <1>3, <1>4, <2>1 DEF Finished
  <2> QED BY <1>5, <1>8, <2>1 DEF Unfence
<1>9. CASE Enqueue(x)
  BY <1>1, <1>3, <1>9 DEF Enqueue
<1> QED BY <1>6, <1>7, <1>8, <1>9 DEF Finalize

\* A thrown error lets no connection outlive its lease.
LEMMA ThrowsLease ==
    ASSUME TypeOK, TypeOK', ControlInv, LeaseInv, NEW x \in Actors, Throws(x), NEW c \in Conns
    PROVE  LeaseOf(c)'
<1> USE DEF At
<1>0. UNCHANGED <<owner, ttl>> /\ c \in Actors
  BY ActorFacts DEF Throws, redisVars
<1>1. CASE x \in Jobs /\ pc[x] \in FinalizeSteps /\ JobThrows(target[x].id) /\ UNCHANGED sockVars
  <2>1. GoTo(x, "idle")
    BY <1>1, FinalizeTarget DEF JobThrows
  <2> QED BY <1>0, <1>1, <2>1, FinalizingLease DEF sockVars
<1>2. CASE /\ Recovering(x) /\ pc[x] \in RecoverySteps \cup FinalizeSteps /\ Return(x, TRUE)
  BY <1>0, <1>2, ReturnLease DEF Recovering
<1>3. CASE /\ x \in Conns /\ pc[x] \in FinalizeSteps /\ UNCHANGED sockVars
           /\ GoTo(x, "halt") \/ GoTo(x, "begin") \/ GoTo(x, "enqueue")
  BY <1>0, <1>3, FinalizingLease DEF FinalizeSteps, sockVars
<1>4. CASE /\ x \in Conns /\ UNCHANGED sockVars /\ pc[x] \in CloseSteps \cup {"acquire", "release"}
           /\ \E s \in CloseSteps \cup {"gone"} : GoTo(x, s)
  <2>1. CASE c # x
    BY <1>0, <1>4, <2>1, LeaseSpectator DEF GoTo, sockVars, Installed, TypeOK
  <2>2. CASE c = x
    <3>1. pc'[c] \in CloseSteps \cup {"gone"}
      BY <1>0, <1>4, <2>2 DEF GoTo, TypeOK
    <3>2. safe'[c] = 0
      BY <1>4, <2>2 DEF LeaseInv, LeaseOf, Serving, CloseSteps, sockVars
    <3> QED BY <3>1, <3>2, LeaseRetired
  <2> QED BY <2>1, <2>2
<1>5. CASE x \in Conns /\ Installed(x) /\ pc[x] \in FinalizeSteps \cup CloseSteps
  <2>1. ~Recovering(x) /\ x \notin Jobs
    BY <1>5, ActorFacts DEF Recovering
  <2>2. CASE pc[x] \in CloseSteps
    <3>1. UNCHANGED sockVars /\ \E s \in CloseSteps \cup {"gone"} : GoTo(x, s)
      BY <2>1, <2>2 DEF Throws, CloseSteps
    <3> QED BY <1>4, <1>5, <2>2, <3>1
  <2>3. CASE pc[x] \in FinalizeSteps
    BY <1>3, <1>5, <2>1, <2>3 DEF Throws, FinalizeSteps
  <2> QED BY <1>5, <2>2, <2>3
<1> QED BY <1>1, <1>2, <1>4, <1>5 DEF Throws

\* A step of connection x does not touch the lease of another connection.
LEMMA ConnLeaseOther ==
    ASSUME TypeOK, TypeOK', LeaseInv, NEW x \in Conns,
           \/ Admit(x) \/ Lease(x) \/ Bind(x) \/ RejectOpen(x) \/ Activate(x)
           \/ Renew(x) \/ PingTick(x) \/ SocketCloses(x) \/ Close(x),
           NEW c \in Conns, c # x
    PROVE  LeaseOf(c)'
<1> USE DEF At
<1>0. x \in Actors /\ c \in Actors /\ LeaseOf(c) /\ ttl \in Nat /\ Ttl >= ttl
  BY ActorFacts DEF LeaseInv, TypeOK
<1>1. pc'[c] = pc[c]
  <2>1. pc' = pc \/ \E s : pc' = [pc EXCEPT ![x] = s]
    BY DEF Admit, Lease, LeaseExec, AcquireReply, RenewReply, Bind, RejectOpen, Activate, Renew,
           PingTick, SocketCloses, Close, BeginClose, Persist, Halt, Release, StartClose, GoTo
  <2> QED BY <1>0, <2>1 DEF TypeOK
<1>2. safe'[c] = safe[c]
  <2>1. safe' = safe \/ \E v : safe' = [safe EXCEPT ![x] = v]
    BY DEF Admit, Lease, LeaseExec, AcquireReply, RenewReply, Bind, RejectOpen, Activate, Renew,
           PingTick, SocketCloses, Close, BeginClose, Persist, Halt, Release, StartClose, sockVars
  <2> QED BY <2>1 DEF TypeOK
<1>3. req'[c] = req[c] /\ age'[c] = age[c]
  <2>1. req' = req \/ \E v : req' = [req EXCEPT ![x] = v]
    BY DEF Admit, Lease, LeaseExec, AcquireReply, RenewReply, Bind, RejectOpen, Activate, Renew,
           PingTick, SocketCloses, Close, BeginClose, Persist, Halt, Release, sockVars
  <2>2. age' = age \/ age' = [age EXCEPT ![x] = 0]
    BY DEF Admit, Lease, LeaseExec, AcquireReply, RenewReply, Bind, RejectOpen, Activate, Renew,
           PingTick, SocketCloses, Close, BeginClose, Persist, Halt, Release, sockVars
  <2> QED BY <2>1, <2>2 DEF TypeOK
<1>4. Installed(c)' <=> Installed(c)
  <2>1. \/ local' = local \/ RemoveLocal(x)
        \/ local' = [local EXCEPT ![Home[x]] = x] /\ local[Home[x]] = NoOne
    BY DEF Admit, Lease, LeaseExec, AcquireReply, RenewReply, Bind, RejectOpen, Activate, Renew,
           PingTick, SocketCloses, Close, BeginClose, Persist, Halt, Release, sockVars
  <2>2. CASE local' = local \/ RemoveLocal(x)
    BY <2>2, LocalKept
  <2>3. CASE local' = [local EXCEPT ![Home[x]] = x] /\ local[Home[x]] = NoOne
    BY <2>3, ActorFacts DEF Installed, TypeOK
  <2> QED BY <2>1, <2>2, <2>3
<1>5. (owner' = c <=> owner = c) /\ (owner = c => ttl' >= ttl)
  <2>1. CASE UNCHANGED <<owner, ttl>>
    BY <1>0, <2>1
  <2>2. CASE LeaseExec(x)
    BY <1>0, <2>2, ActorFacts DEF LeaseExec
  <2>3. CASE BeginClose(x) \/ Release(x)
    BY <1>0, <2>3, ActorFacts DEF BeginClose, Release
  <2> QED BY <2>1, <2>2, <2>3
          DEF Admit, Lease, AcquireReply, RenewReply, Bind, RejectOpen, Activate, Renew,
              PingTick, SocketCloses, Close, Persist, Halt, redisVars
<1> QED BY <1>0, <1>1, <1>2, <1>3, <1>4, <1>5, LeaseFrame

\* The scripts: a key taken or extended for a request outlives what its reply can set.
LEMMA LeaseExecOwn ==
    ASSUME TypeOK, TypeOK', LeaseInv, NEW c \in Conns, LeaseExec(c)
    PROVE  LeaseOf(c)'
<1>0. LeaseOf(c) /\ age[c] \in Nat /\ ttl \in 0..Ttl /\ safe[c] \in 0..Ttl
  BY DEF LeaseInv, TypeOK
<1>1. UNCHANGED <<pc, local, age, safe>>
  BY DEF LeaseExec
<1>2. ~Unadmitted(c) /\ ~Unadmitted(c)'
  BY <1>0, <1>1 DEF LeaseExec, LeaseOf, Unadmitted, Installed
<1>3. CASE owner' = c /\ ttl' = Ttl /\ req' = [req EXCEPT ![c] = "ok"]
  <2>1. req'[c] = "ok"
    BY <1>3 DEF TypeOK
  <2>2. pc[c] # "opening"
    BY <1>0 DEF LeaseExec, LeaseOf
  <2> QED BY <1>0, <1>1, <1>2, <1>3, <2>1, <2>2, TimeAssumption DEF LeaseOf
<1>4. CASE owner # c /\ UNCHANGED <<owner, ttl>> /\ req' = [req EXCEPT ![c] = "refused"]
  <2>1. req'[c] = "refused"
    BY <1>4 DEF TypeOK
  <2>2. pc[c] # "opening"
    BY <1>0 DEF LeaseExec, LeaseOf
  <2> QED BY <1>0, <1>1, <1>2, <1>4, <2>1, <2>2 DEF LeaseOf
<1>5. CASE req[c] = "acquire" /\ owner = c
  <2>1. pc[c] # "acquire" /\ pc[c] \notin Serving
    BY <1>0, <1>5 DEF LeaseOf, Serving
  <2> QED BY <1>0, <1>1, <1>2, <2>1 DEF LeaseOf, Serving
<1> QED BY <1>3, <1>4, <1>5, ActorFacts DEF LeaseExec

\* A deadline set from a believed reply is covered by the key.
LEMMA BelievedDeadline ==
    ASSUME TypeOK, LeaseInv, NEW c \in Conns, pc[c] \in {"acquire", "bound", "live"},
           Believed(c), Deadline(c) > 0
    PROVE  owner = c /\ Deadline(c) <= ttl
<1>1. LeaseOf(c) /\ age[c] \in Nat /\ ttl \in Nat
  BY DEF LeaseInv, TypeOK
<1>2. age[c] < Ttl /\ Deadline(c) < Ttl - age[c] /\ Deadline(c) \in 0..Ttl
  BY DeadlineType
<1>3. owner = c /\ ttl >= Ttl - age[c]
  BY <1>1, <1>2 DEF LeaseOf, Believed
<1> QED BY <1>1, <1>2, <1>3, TimeAssumption

\* A connection with no request whose deadline is covered by the key.
LEMMA LeaseQuiet ==
    ASSUME NEW c \in Conns, pc'[c] \in Serving, req'[c] = "none",
           safe'[c] > 0 => owner' = c /\ safe'[c] <= ttl'
    PROVE  LeaseOf(c)'
BY DEF LeaseOf, Unadmitted, Serving, RecoverySteps, FinalizeSteps

\* closeDesktopSessionLifecycle makes the connection inert.
LEMMA StartCloseLease ==
    ASSUME TypeOK, NEW c \in Conns, StartClose(c)
    PROVE  LeaseOf(c)'
<1>1. pc'[c] = "begin" /\ safe'[c] = 0
  BY ActorFacts DEF StartClose, GoTo, TypeOK
<1> QED BY <1>1, LeaseRetired DEF CloseSteps

\* A connection's own open, renewal and close steps keep its deadline within its lease.
LEMMA ConnLeaseOwn ==
    ASSUME TypeOK, TypeOK', ControlInv, LeaseInv, NEW c \in Conns,
           \/ Admit(c) \/ Lease(c) \/ Bind(c) \/ RejectOpen(c) \/ Activate(c)
           \/ Renew(c) \/ PingTick(c) \/ SocketCloses(c) \/ Close(c)
    PROVE  LeaseOf(c)'
<1> USE DEF At
<1>0. c \in Actors /\ LeaseOf(c) /\ ttl \in Nat /\ safe[c] \in Nat /\ age[c] \in Nat
  BY ActorFacts DEF LeaseInv, TypeOK
<1>1. CASE Admit(c)
  <2>1. owner # c /\ req[c] = "none" /\ safe[c] = 0
    BY <1>0, <1>1 DEF Admit, LeaseOf, Unadmitted, Serving
  <2>2. pc'[c] = "load"
    BY <1>0, <1>1 DEF Admit, GoTo, TypeOK
  <2> QED BY <1>1, <2>1, <2>2, LeaseUnasked DEF Admit, redisVars, sockVars, RecoverySteps
<1>2. CASE LeaseExec(c)
  BY <1>2, LeaseExecOwn
<1>3. CASE AcquireReply(c)
  <2>1. req'[c] = "none" /\ UNCHANGED <<owner, ttl>> /\ safe[c] = 0
    BY <1>0, <1>3 DEF AcquireReply, redisVars, TypeOK, LeaseOf, Serving
  <2>2. CASE Believed(c) /\ safe' = [safe EXCEPT ![c] = Deadline(c)] /\ GoTo(c, "opening")
    <3>1. pc'[c] = "opening" /\ safe'[c] = Deadline(c)
      BY <1>0, <2>2 DEF GoTo, TypeOK
    <3> QED BY <1>3, <2>1, <2>2, <3>1, BelievedDeadline, LeaseQuiet DEF AcquireReply, Serving
  <2>3. CASE (GoTo(c, "release") \/ GoTo(c, "gone")) /\ UNCHANGED safe
    <3>1. pc'[c] \in {"release", "gone"}
      BY <1>0, <2>3 DEF GoTo, TypeOK
    <3> QED BY <2>1, <2>3, <3>1, LeaseRetired
  <2>4. CASE req[c] = "refused" /\ GoTo(c, "new") /\ UNCHANGED safe
    <3>1. pc'[c] = "new"
      BY <1>0, <2>4 DEF GoTo, TypeOK
    <3>2. owner # c
      BY <1>0, <1>3, <2>4 DEF AcquireReply, LeaseOf
    <3> QED BY <2>1, <2>4, <3>1, <3>2, LeaseUnasked
  <2> QED BY <1>3, <2>2, <2>3, <2>4 DEF AcquireReply
<1>4. CASE RenewReply(c)
  <2>1. req'[c] = "none" /\ UNCHANGED <<owner, ttl, local>>
    BY <1>4 DEF RenewReply, redisVars, TypeOK
  <2>2. CASE StartClose(c)
    BY <2>2, StartCloseLease
  <2>3. CASE /\ pc[c] \in {"bound", "live"} /\ Believed(c)
             /\ safe' = [safe EXCEPT ![c] = Deadline(c)] /\ UNCHANGED pc
    <3>1. safe'[c] = Deadline(c)
      BY <2>3 DEF TypeOK
    <3> QED BY <2>1, <2>3, <3>1, BelievedDeadline, LeaseQuiet DEF Serving
  <2>4. CASE pc[c] \notin {"bound", "live"} /\ UNCHANGED <<pc, safe>>
    <3>1. pc[c] # "opening" /\ pc[c] # "acquire" /\ ~Unadmitted(c)
      BY <1>0, <1>4 DEF RenewReply, LeaseOf
    <3>2. ~Unadmitted(c)'
      BY <2>1, <2>4, <3>1 DEF Unadmitted, Installed
    <3> QED BY <1>0, <2>1, <2>4, <3>1, <3>2 DEF LeaseOf, Serving
  <2> QED BY <1>4, <2>2, <2>3, <2>4 DEF RenewReply
<1>5. CASE Bind(c)
  <2>1. CASE safe[c] > 0
    <3>1. pc'[c] = "bound" /\ UNCHANGED <<safe, req, owner, ttl>>
      BY <1>0, <1>5, <2>1 DEF Bind, GoTo, TypeOK, redisVars
    <3>2. req[c] = "none" /\ owner = c /\ safe[c] <= ttl
      BY <1>0, <1>5, <2>1 DEF Bind, LeaseOf
    <3> QED BY <3>1, <3>2, LeaseQuiet DEF Serving
  <2>2. CASE ~(safe[c] > 0)
    BY <1>5, <2>2, StartCloseLease DEF Bind
  <2> QED BY <2>1, <2>2
<1>6. CASE RejectOpen(c)
  <2>1. pc'[c] = "release" /\ safe'[c] = 0
    BY <1>0, <1>6 DEF RejectOpen, GoTo, TypeOK
  <2> QED BY <2>1, LeaseRetired
<1>7. CASE Activate(c)
  <2>1. CASE StartClose(c)
    BY <2>1, StartCloseLease
  <2>2. CASE pc[c] = "bound" /\ GoTo(c, "live") /\ UNCHANGED safe
    <3>1. pc'[c] = "live" /\ UNCHANGED <<safe, req, age, owner, ttl, local>>
      BY <1>0, <1>7, <2>2 DEF Activate, GoTo, TypeOK, redisVars
    <3> QED BY <1>0, <2>2, <3>1
            DEF LeaseOf, Unadmitted, Serving, RecoverySteps, FinalizeSteps
  <2>3. CASE UNCHANGED <<pc, safe>>
    BY <1>7, <2>3, LeaseSpectator DEF Activate, redisVars, Installed
  <2> QED BY <1>7, <2>1, <2>2, <2>3 DEF Activate
<1>8. CASE Renew(c)
  <2>1. req'[c] = "renew" /\ safe'[c] = 0 /\ UNCHANGED pc
    BY <1>8 DEF Renew, TypeOK
  <2> QED BY <1>8, <2>1
          DEF Renew, LeaseOf, Unadmitted, Serving, RecoverySteps, FinalizeSteps
<1>9. CASE PingTick(c)
  <2>1. CASE StartClose(c)
    BY <2>1, StartCloseLease
  <2>2. CASE UNCHANGED <<pc, target, safe>>
    BY <1>9, <2>2, LeaseSpectator DEF PingTick, redisVars, Installed
  <2> QED BY <1>9, <2>1, <2>2 DEF PingTick
<1>10. CASE SocketCloses(c)
  BY <1>10, StartCloseLease DEF SocketCloses
<1>11. CASE Close(c)
  <2>1. safe'[c] = 0
    BY <1>0, <1>11
       DEF Close, BeginClose, Persist, Halt, Release, LeaseOf, Serving, sockVars
  <2>2. CASE Persist(c) /\ GoTo(c, "ensure")
    <3>1. Installed(c)'
      BY <2>2 DEF Persist, ControlInv, CloseSteps, sockVars, Installed
    <3>2. pc'[c] = "ensure"
      BY <1>0, <2>2 DEF GoTo, TypeOK
    <3> QED BY <2>1, <3>1, <3>2, LeaseRetired DEF FinalizeSteps
  <2>3. CASE \E s \in CloseSteps \cup {"gone"} : GoTo(c, s)
    <3>1. pc'[c] \in CloseSteps \cup {"gone"}
      BY <1>0, <2>3 DEF GoTo, TypeOK
    <3> QED BY <2>1, <3>1, LeaseRetired
  <2> QED BY <1>11, <2>2, <2>3 DEF Close, BeginClose, Persist, Halt, Release, CloseSteps
<1> QED BY <1>1, <1>2, <1>3, <1>4, <1>5, <1>6, <1>7, <1>8, <1>9, <1>10, <1>11 DEF Lease

\* Time runs for the key and for the deadlines alike: a deadline that still runs is
\* covered by a key that has not expired.
LEMMA TickLease ==
    ASSUME TypeOK, TypeOK', LeaseInv, Tick, NEW c \in Conns
    PROVE  LeaseOf(c)'
<1>0. LeaseOf(c) /\ ttl \in Nat /\ safe[c] \in Nat /\ age[c] \in Nat /\ Ttl \in Nat
      /\ MaxRtt \in Nat /\ c # NoOne
  BY ActorFacts, TimeAssumption DEF LeaseInv, TypeOK
<1>1. UNCHANGED <<pc, req, local>>
  BY DEF Tick
<1>2. /\ safe'[c] = IF safe[c] > 0 THEN safe[c] - 1 ELSE 0
      /\ age'[c] = IF req[c] # "none" /\ age[c] <= MaxRtt THEN age[c] + 1 ELSE age[c]
      /\ ttl' = IF ttl > 0 THEN ttl - 1 ELSE 0
      /\ owner' = IF ttl <= 1 THEN NoOne ELSE owner
  BY DEF Tick, Down
<1>3. owner # c => owner' # c
  BY <1>0, <1>2
<1>4. Unadmitted(c)' <=> Unadmitted(c)
  BY <1>1 DEF Unadmitted, Installed
<1>5. safe'[c] > 0 => owner' = c /\ safe'[c] <= ttl'
  BY <1>0, <1>2 DEF LeaseOf
<1>6. pc[c] \notin Serving => safe'[c] = 0
  BY <1>0, <1>2 DEF LeaseOf
<1>7. ASSUME pc[c] \in {"acquire", "bound", "live"}, req[c] = "ok", age'[c] <= MaxRtt,
             age'[c] < Ttl
      PROVE  owner' = c /\ ttl' >= Ttl - age'[c]
  <2>1. age'[c] = age[c] + 1
    BY <1>0, <1>2, <1>7
  <2>2. owner = c /\ ttl >= Ttl - age[c]
    BY <1>0, <1>7, <2>1 DEF LeaseOf
  <2> QED BY <1>0, <1>2, <1>7, <2>1, <2>2
<1> QED BY <1>0, <1>1, <1>3, <1>4, <1>5, <1>6, <1>7 DEF LeaseOf

\* A crash of an API process takes its connections' deadlines with it.
LEMMA CrashLease ==
    ASSUME TypeOK, TypeOK', ControlInv, LeaseInv, NEW i \in Instances, Crash(i), NEW c \in Conns
    PROVE  LeaseOf(c)'
<1>0. c \in Actors /\ c # i /\ UNCHANGED <<owner, ttl, req, age>>
  BY ActorFacts DEF Crash, redisVars
<1>1. CASE Home[c] = i /\ pc[c] # "new"
  <2>1. pc'[c] = "gone" /\ safe'[c] = 0
    BY <1>0, <1>1 DEF Crash
  <2> QED BY <2>1, LeaseRetired
<1>2. CASE ~(Home[c] = i /\ pc[c] # "new")
  <2>1. pc'[c] = pc[c] /\ safe'[c] = safe[c]
    BY <1>0, <1>2 DEF Crash
  <2>2. Installed(c)' <=> Installed(c)
    <3>1. local' = [local EXCEPT ![i] = NoOne]
      BY DEF Crash
    <3>2. CASE Home[c] = i
      <4>1. ~Installed(c)
        BY <1>2, <3>2 DEF ControlInv, Serving, CloseSteps, FinalizeSteps
      <4>2. local'[Home[c]] = NoOne
        BY <3>1, <3>2 DEF TypeOK
      <4> QED BY <4>1, <4>2, ActorFacts DEF Installed
    <3>3. CASE Home[c] # i
      BY <3>1, <3>3, ActorFacts DEF Installed, TypeOK
    <3> QED BY <3>2, <3>3
  <2> QED BY <1>0, <2>1, <2>2, LeaseSpectator
<1> QED BY <1>1, <1>2

\* Steps outside the sockets touch neither lease nor deadline.
LEMMA WorldLease ==
    ASSUME TypeOK, TypeOK', LeaseInv, NEW c \in Conns,
           \/ EndSession \/ ReapSession \/ OfferChecks \/ OfferWrites \/ Answer \/ StartFails
           \/ PeerDrops \/ GrowOld
           \/ \E i \in Instances : Sweep(i)
           \/ \E f \in Ids : JobReads(f) \/ JobStalls(f) \/ AgentStops(f)
    PROVE  LeaseOf(c)'
<1>0. c \in Actors
  BY ActorFacts
<1>1. UNCHANGED <<redisVars, sockVars>>
  BY DEF EndSession, ReapSession, OfferChecks, OfferWrites, Answer, StartFails, PeerDrops, GrowOld,
         CloseRow, CloseRowOnly, Sweep, JobReads, JobStalls, AgentStops
<1>2. pc'[c] = pc[c]
  <2>1. ASSUME NEW i \in Instances, Sweep(i) PROVE pc'[c] = pc[c]
    BY <1>0, <2>1, ActorFacts DEF Sweep, GoTo, TypeOK
  <2>2. ASSUME NEW f \in Ids, JobReads(f) \/ JobStalls(f) PROVE pc'[c] = pc[c]
    <3>1. Job(f) # c
      BY <2>2, ActorFacts
    <3>2. GoTo(Job(f), "ensure") \/ GoTo(Job(f), "idle")
      BY <2>2 DEF JobReads, JobStalls, JobThrows
    <3> QED BY <1>0, <3>1, <3>2 DEF GoTo, TypeOK
  <2>3. CASE EndSession \/ ReapSession \/ StartFails \/ PeerDrops
    BY <2>3 DEF EndSession, ReapSession, StartFails, PeerDrops, CloseRow, CloseRowOnly
  <2>4. CASE OfferChecks \/ OfferWrites \/ Answer \/ GrowOld
    BY <2>4 DEF OfferChecks, OfferWrites, Answer, GrowOld
  <2>5. ASSUME NEW f \in Ids, AgentStops(f) PROVE pc'[c] = pc[c]
    BY <2>5 DEF AgentStops
  <2> QED BY <2>1, <2>2, <2>3, <2>4, <2>5
<1> QED BY <1>1, <1>2, LeaseSpectator DEF redisVars, sockVars, Installed

\* The lease invariant is inductive, one case per action.
LEMMA LeaseInductive ==
    ASSUME TypeOK, TypeOK', ControlInv, LeaseInv, [Next]_vars
    PROVE  LeaseInv'
<1> SUFFICES ASSUME NEW c \in Conns PROVE LeaseOf(c)'
  BY DEF LeaseInv
<1>1. CASE UNCHANGED vars
  BY <1>1, LeaseSpectator DEF vars, redisVars, sockVars, Installed
<1>2. ASSUME NEW i \in Instances, InstanceStep(i) PROVE LeaseOf(c)'
  BY <1>2, ActorFacts, RecoverLease, FinalizeLease, WorldLease DEF InstanceStep
<1>3. ASSUME NEW x \in Conns, Recover(x) \/ Finalize(x) PROVE LeaseOf(c)'
  BY <1>3, ActorFacts, RecoverLease, FinalizeLease
<1>4. ASSUME NEW x \in Conns,
             \/ Admit(x) \/ Lease(x) \/ Bind(x) \/ RejectOpen(x) \/ Activate(x)
             \/ Renew(x) \/ PingTick(x) \/ SocketCloses(x) \/ Close(x)
      PROVE LeaseOf(c)'
  BY <1>4, ConnLeaseOwn, ConnLeaseOther
<1>5. ASSUME NEW f \in Ids, JobStep(f) PROVE LeaseOf(c)'
  BY <1>5, ActorFacts, WorldLease, FinalizeLease DEF JobStep
<1> QED BY <1>1, <1>2, <1>3, <1>4, <1>5, ThrowsLease, CrashLease, TickLease, WorldLease
        DEF Next, ConnStep

-----------------------------------------------------------------------------
(* The fence.                                                              *)

Quiet == {"idle", "new", "release", "gone"} \cup RecoverySteps \cup CloseSteps

\* Where a step can take an actor: it starts a finalization only under a fence, lifts
\* the fence only after the row is closed, and comes to a lease only by asking for it.
MayMove(y) ==
    \/ pc'[y] = pc[y]
    \/ pc'[y] \in Quiet
    \/ pc[y] \in Serving \cup {"acquire"} /\ pc'[y] \in Serving
    \/ pc'[y] = "acquire" /\ y \in Conns /\ req'[y] = "acquire"
    \/ pc'[y] \in {"ensure", "seal", "enqueue"} /\ (pc[y] \in FinalizeSteps \/ fence' # NoOne)
    \/ pc'[y] = "unfence" /\ row' = "ended"

\* One actor moves, and may.
LEMMA GoToMove ==
    ASSUME TypeOK, NEW x \in Actors, NEW s, GoTo(x, s),
           \/ s \in Quiet
           \/ s \in Serving /\ pc[x] \in Serving \cup {"acquire"}
           \/ s \in {"ensure", "seal", "enqueue"} /\ (pc[x] \in FinalizeSteps \/ fence' # NoOne)
           \/ s = "unfence" /\ row' = "ended",
           NEW y \in Actors
    PROVE  MayMove(y)
<1>1. pc'[x] = s /\ (y # x => pc'[y] = pc[y])
  BY DEF GoTo, TypeOK
<1> QED BY <1>1 DEF MayMove

\* Returning from recovery is one of the listed moves.
LEMMA ReturnMove ==
    ASSUME TypeOK, NEW x \in Conns \cup Instances, NEW b \in BOOLEAN, Return(x, b),
           NEW y \in Actors
    PROVE  MayMove(y)
<1>0. x \in Actors
  BY ActorFacts
<1>1. pc'[x] = AfterRecovery(x, b) /\ (y # x => pc'[y] = pc[y])
  BY <1>0 DEF Return, GoTo, TypeOK
<1>2. CASE y # x
  BY <1>1, <1>2 DEF MayMove
<1>3. CASE y = x /\ AfterRecovery(x, b) = "acquire"
  <2>1. x \in Conns
    BY <1>3 DEF AfterRecovery
  <2>2. req'[x] = "acquire"
    BY <1>3, <2>1 DEF Return, TypeOK
  <2> QED BY <1>1, <1>3, <2>1, <2>2 DEF MayMove
<1>4. CASE y = x /\ AfterRecovery(x, b) # "acquire"
  BY <1>1, <1>4 DEF MayMove, Quiet, AfterRecovery
<1> QED BY <1>2, <1>3, <1>4

\* Every step of recovery is one of the listed moves.
LEMMA RecoverMove ==
    ASSUME TypeOK, ControlInv, NEW x \in Conns \cup Instances, Recover(x), NEW y \in Actors
    PROVE  MayMove(y)
<1> USE DEF At
<1>0. x \in Actors
  BY ActorFacts
<1>1. CASE Return(x, TRUE) \/ Return(x, FALSE)
  BY <1>1, ReturnMove
<1>2. CASE ~Return(x, TRUE) /\ ~Return(x, FALSE)
  <2>1. CASE Load(x) \/ Reload(x)
    BY <1>0, <1>2, <2>1, GoToMove DEF Load, Reload, Quiet, RecoverySteps
  <2>2. CASE Observe(x)
    BY <1>0, <1>2, <2>2, GoToMove DEF Observe, Quiet, RecoverySteps, redisVars
  <2>3. CASE Claim(x)
    <3>1. target[x] # NoOne
      BY <1>0, <2>3, FenceFacts DEF Claim, ControlInv, Committed
    <3> QED BY <1>0, <1>2, <2>3, <3>1, GoToMove DEF Claim
  <2> QED BY <2>1, <2>2, <2>3 DEF Recover
<1> QED BY <1>1, <1>2

\* Handing a fence to the queue is one of the listed moves.
LEMMA UnfinishedMove ==
    ASSUME TypeOK, ControlInv, NEW x \in Actors, pc[x] \in FinalizeSteps, Unfinished(x),
           NEW y \in Actors
    PROVE  MayMove(y)
<1>1. CASE x \in Jobs
  <2>1. GoTo(x, "idle")
    BY <1>1, FinalizeTarget DEF Unfinished, JobThrows
  <2> QED BY <2>1, GoToMove DEF Quiet
<1>2. CASE x \notin Jobs
  BY <1>2, GoToMove DEF Unfinished
<1> QED BY <1>1, <1>2

\* Every step of finalizing is one of the listed moves.
LEMMA FinalizeMove ==
    ASSUME TypeOK, ControlInv, NEW x \in Actors, Finalize(x), NEW y \in Actors
    PROVE  MayMove(y)
<1> USE DEF At
<1>0. pc[x] \in FinalizeSteps
  BY DEF Finalize, Ensure, Seal, Unfence, Enqueue, FinalizeSteps
<1>1. CASE Unfinished(x)
  BY <1>0, <1>1, UnfinishedMove
<1>2. CASE Recovering(x) /\ (Return(x, TRUE) \/ Return(x, FALSE))
  BY <1>2, ReturnMove DEF Recovering
<1>3. CASE GoTo(x, "seal") \/ GoTo(x, "release") \/ GoTo(x, "idle")
  BY <1>0, <1>3, GoToMove DEF Quiet
<1>4. CASE GoTo(x, "unfence") /\ row' = "ended"
  BY <1>4, GoToMove
<1>5. CASE Ensure(x)
  BY <1>1, <1>3, <1>5 DEF Ensure
<1>6. CASE Seal(x)
  BY <1>1, <1>2, <1>4, <1>6 DEF Seal
<1>7. CASE Unfence(x)
  <2>1. CASE Finished(x)
    BY <1>2, <1>3, <2>1 DEF Finished
  <2> QED BY <1>1, <1>7, <2>1 DEF Unfence
<1>8. CASE Enqueue(x)
  BY <1>2, <1>3, <1>8 DEF Enqueue
<1> QED BY <1>5, <1>6, <1>7, <1>8 DEF Finalize

\* Every step of a connection is one of the listed moves.
LEMMA ConnMove ==
    ASSUME TypeOK, ControlInv, NEW c \in Conns,
           \/ Admit(c) \/ Lease(c) \/ Bind(c) \/ RejectOpen(c) \/ Activate(c)
           \/ Renew(c) \/ PingTick(c) \/ SocketCloses(c) \/ Close(c),
           NEW y \in Actors
    PROVE  MayMove(y)
<1> USE DEF At
<1>0. c \in Actors
  BY ActorFacts
<1>1. CASE UNCHANGED pc
  BY <1>1 DEF MayMove
<1>2. CASE \E s \in Quiet : GoTo(c, s)
  BY <1>0, <1>2, GoToMove
<1>3. CASE pc[c] \in Serving \cup {"acquire"} /\ \E s \in Serving : GoTo(c, s)
  BY <1>0, <1>3, GoToMove
<1>4. CASE StartClose(c)
  BY <1>2, <1>4 DEF StartClose, Quiet, CloseSteps
<1>5. CASE Admit(c) \/ RejectOpen(c)
  BY <1>2, <1>5 DEF Admit, RejectOpen, Quiet, RecoverySteps
<1>6. CASE Lease(c)
  BY <1>1, <1>2, <1>3, <1>4, <1>6
     DEF Lease, LeaseExec, AcquireReply, RenewReply, Quiet, Serving
<1>7. CASE Bind(c) \/ Activate(c)
  BY <1>1, <1>3, <1>4, <1>7 DEF Bind, Activate, Serving
<1>8. CASE Renew(c) \/ PingTick(c) \/ SocketCloses(c)
  BY <1>1, <1>4, <1>8 DEF Renew, PingTick, SocketCloses
<1>9. CASE Persist(c)
  <2>1. CASE GoTo(c, "halt")
    BY <1>2, <2>1 DEF Quiet, CloseSteps
  <2>2. CASE GoTo(c, "ensure") /\ fence' = OwnFence(c)
    BY <1>0, <2>2, FenceFacts, GoToMove
  <2> QED BY <1>9, <2>1, <2>2 DEF Persist
<1>10. CASE BeginClose(c) \/ Halt(c) \/ Release(c)
  BY <1>2, <1>10 DEF BeginClose, Halt, Release, Quiet, CloseSteps
<1> QED BY <1>5, <1>6, <1>7, <1>8, <1>9, <1>10 DEF Close

\* A thrown error is one of the listed moves.
LEMMA ThrowsMove ==
    ASSUME TypeOK, ControlInv, NEW x \in Actors, Throws(x), NEW y \in Actors
    PROVE  MayMove(y)
<1> USE DEF At
<1>1. CASE x \in Jobs /\ pc[x] \in FinalizeSteps /\ JobThrows(target[x].id)
  <2>1. GoTo(x, "idle")
    BY <1>1, FinalizeTarget DEF JobThrows
  <2> QED BY <2>1, GoToMove DEF Quiet
<1>2. CASE Recovering(x) /\ Return(x, TRUE)
  BY <1>2, ReturnMove DEF Recovering
<1>3. CASE pc[x] \in CloseSteps /\ (GoTo(x, "halt") \/ GoTo(x, "begin"))
  BY <1>3, GoToMove DEF Quiet, CloseSteps
<1>4. CASE pc[x] \in FinalizeSteps /\ (GoTo(x, "halt") \/ GoTo(x, "begin") \/ GoTo(x, "enqueue"))
  BY <1>4, GoToMove DEF Quiet, CloseSteps
<1>5. CASE GoTo(x, "gone")
  BY <1>5, GoToMove DEF Quiet
<1>6. CASE /\ pc[x] \in FinalizeSteps \cup CloseSteps
           /\ GoTo(x, CASE pc[x] \in {"begin", "persist"} -> "halt"
                        [] pc[x] \in {"halt", "enqueue"} -> "begin"
                        [] OTHER -> "enqueue")
  BY <1>3, <1>4, <1>6 DEF CloseSteps, FinalizeSteps
<1> QED BY <1>1, <1>2, <1>5, <1>6 DEF Throws

\* Steps outside the sockets move no actor in an unlisted way.
LEMMA WorldMove ==
    ASSUME TypeOK,
           \/ EndSession \/ ReapSession \/ OfferChecks \/ OfferWrites \/ Answer \/ StartFails
           \/ PeerDrops \/ GrowOld \/ Tick
           \/ \E i \in Instances : Sweep(i) \/ Crash(i)
           \/ \E f \in Ids : JobReads(f) \/ JobStalls(f) \/ AgentStops(f),
           NEW y \in Actors
    PROVE  MayMove(y)
<1>1. CASE UNCHANGED pc
  BY <1>1 DEF MayMove
<1>2. CASE EndSession \/ ReapSession \/ StartFails \/ PeerDrops
  BY <1>1, <1>2 DEF EndSession, ReapSession, StartFails, PeerDrops, CloseRow, CloseRowOnly
<1>3. CASE OfferChecks \/ OfferWrites \/ Answer \/ GrowOld \/ Tick
  BY <1>1, <1>3 DEF OfferChecks, OfferWrites, Answer, GrowOld, Tick
<1>4. ASSUME NEW i \in Instances, Sweep(i) PROVE MayMove(y)
  BY <1>4, ActorFacts, GoToMove DEF Sweep, Quiet, RecoverySteps
<1>5. ASSUME NEW i \in Instances, Crash(i) PROVE MayMove(y)
  <2>1. pc'[y] \in {"idle", "gone", pc[y]}
    BY <1>5 DEF Crash
  <2> QED BY <2>1 DEF MayMove, Quiet
<1>6. ASSUME NEW f \in Ids, JobReads(f) \/ JobStalls(f) PROVE MayMove(y)
  <2>1. Job(f) \in Actors
    BY ActorFacts
  <2>2. CASE GoTo(Job(f), "idle")
    BY <2>1, <2>2, GoToMove DEF Quiet
  <2>3. CASE GoTo(Job(f), "ensure") /\ fence # NoOne /\ UNCHANGED fence
    BY <2>1, <2>3, GoToMove
  <2> QED BY <1>6, <2>2, <2>3 DEF JobReads, JobStalls, JobThrows, redisVars
<1>7. ASSUME NEW f \in Ids, AgentStops(f) PROVE MayMove(y)
  BY <1>1, <1>7 DEF AgentStops
<1> QED BY <1>2, <1>3, <1>4, <1>5, <1>6, <1>7

\* Every step of the system moves each actor only in the listed ways.
LEMMA EveryMove ==
    ASSUME TypeOK, ControlInv, [Next]_vars, NEW y \in Actors
    PROVE  MayMove(y)
<1>1. CASE UNCHANGED vars
  BY <1>1 DEF vars, MayMove
<1>2. ASSUME NEW i \in Instances, InstanceStep(i) PROVE MayMove(y)
  BY <1>2, ActorFacts, RecoverMove, FinalizeMove, WorldMove DEF InstanceStep
<1>3. ASSUME NEW c \in Conns, ConnStep(c) PROVE MayMove(y)
  BY <1>3, ActorFacts, RecoverMove, FinalizeMove, ConnMove DEF ConnStep
<1>4. ASSUME NEW f \in Ids, JobStep(f) PROVE MayMove(y)
  BY <1>4, ActorFacts, WorldMove, FinalizeMove DEF JobStep
<1> QED BY <1>1, <1>2, <1>3, <1>4, ThrowsMove, ConnMove, WorldMove DEF Next

\* What a step can do to the row: it is closed at most once, and counted.
RowMoves ==
    /\ row' = "ended" => row = "ended" \/ endings' = endings + 1
    /\ endings' = endings \/ endings' = endings + 1

\* What a step can do to the key: it expires or is released, or a request for it finds
\* it free and no fence.
OwnerMoves ==
    \/ owner' \in {owner, NoOne}
    \/ owner = NoOne /\ fence = NoOne /\ fence' = NoOne

\* What a step can do to the fence: recovery writes it where there is no key, a closing
\* connection under its own key, and it is lifted by who has closed the row.
FenceMoves ==
    \/ fence' = fence
    \/ fence' = NoOne /\ \E x \in Actors : pc[x] = "unfence"
    \/ fence = NoOne /\ owner = NoOne /\ owner' = NoOne
    \/ fence = NoOne /\ \E c \in Conns : owner' = c /\ pc'[c] \in {"ensure", "halt"}

\* Every step moves the row, the owner and the fence only in the listed ways.
LEMMA EnvMoves ==
    ASSUME TypeOK, [Next]_vars
    PROVE  RowMoves /\ OwnerMoves /\ FenceMoves
<1> USE DEF At
<1>1. CASE UNCHANGED <<row, endings, owner, fence>>
  BY <1>1 DEF RowMoves, OwnerMoves, FenceMoves
<1>2. CASE UNCHANGED <<rowVars, owner, fence>>
  BY <1>1, <1>2 DEF rowVars
<1>3. ASSUME NEW x \in Actors, Throws(x) PROVE RowMoves /\ OwnerMoves /\ FenceMoves
  BY <1>2, <1>3 DEF Throws, redisVars
<1>4. ASSUME NEW x \in Actors, Recover(x) PROVE RowMoves /\ OwnerMoves /\ FenceMoves
  <2>1. CASE Load(x) \/ Observe(x) \/ Reload(x)
    BY <1>2, <2>1 DEF Load, Observe, Reload, redisVars
  <2>2. CASE Claim(x)
    BY <2>2 DEF Claim, rowVars, RowMoves, OwnerMoves, FenceMoves
  <2> QED BY <1>4, <2>1, <2>2 DEF Recover
<1>5. ASSUME NEW x \in Actors, Finalize(x) PROVE RowMoves /\ OwnerMoves /\ FenceMoves
  <2>1. CASE Ensure(x) \/ Enqueue(x)
    BY <1>2, <2>1 DEF Ensure, Enqueue, redisVars
  <2>2. CASE Seal(x)
    BY <2>2 DEF Seal, RowOpen, redisVars, RowMoves, OwnerMoves, FenceMoves
  <2>3. CASE Unfence(x)
    <3>1. UNCHANGED <<row, endings, owner>> /\ fence' \in {fence, NoOne} /\ pc[x] = "unfence"
      BY <2>3 DEF Unfence, rowVars
    <3> QED BY <3>1 DEF RowMoves, OwnerMoves, FenceMoves
  <2> QED BY <1>5, <2>1, <2>2, <2>3 DEF Finalize
<1>6. ASSUME NEW c \in Conns, Close(c) PROVE RowMoves /\ OwnerMoves /\ FenceMoves
  <2>1. CASE BeginClose(c) \/ Halt(c)
    BY <1>2, <2>1 DEF BeginClose, Halt, redisVars
  <2>2. CASE Persist(c)
    <3>1. UNCHANGED <<row, endings, owner>>
      BY <2>2 DEF Persist, rowVars
    <3>2. pc'[c] \in {"ensure", "halt"}
      BY <2>2, ActorFacts DEF Persist, GoTo, TypeOK
    <3>3. fence' = fence \/ (fence = NoOne /\ owner = c)
      BY <2>2 DEF Persist
    <3> QED BY <3>1, <3>2, <3>3 DEF RowMoves, OwnerMoves, FenceMoves
  <2>3. CASE Release(c)
    BY <2>3 DEF Release, rowVars, RowMoves, OwnerMoves, FenceMoves
  <2> QED BY <1>6, <2>1, <2>2, <2>3 DEF Close
<1>7. ASSUME NEW c \in Conns, Lease(c) PROVE RowMoves /\ OwnerMoves /\ FenceMoves
  <2>1. CASE LeaseExec(c)
    BY <2>1 DEF LeaseExec, rowVars, RowMoves, OwnerMoves, FenceMoves
  <2> QED BY <1>2, <1>7, <2>1 DEF Lease, AcquireReply, RenewReply, redisVars
<1>8. ASSUME NEW c \in Conns, Activate(c) PROVE RowMoves /\ OwnerMoves /\ FenceMoves
  BY <1>8 DEF Activate, redisVars, RowMoves, OwnerMoves, FenceMoves
<1>9. ASSUME NEW c \in Conns,
             Admit(c) \/ Bind(c) \/ RejectOpen(c) \/ Renew(c) \/ PingTick(c) \/ SocketCloses(c)
      PROVE  RowMoves /\ OwnerMoves /\ FenceMoves
  BY <1>2, <1>9 DEF Admit, Bind, RejectOpen, Renew, PingTick, SocketCloses, redisVars
<1>10. ASSUME NEW i \in Instances, Sweep(i) \/ Crash(i) PROVE RowMoves /\ OwnerMoves /\ FenceMoves
  BY <1>2, <1>10 DEF Sweep, Crash, redisVars
<1>11. ASSUME NEW f \in Ids, JobReads(f) \/ JobStalls(f) \/ AgentStops(f)
       PROVE  RowMoves /\ OwnerMoves /\ FenceMoves
  BY <1>2, <1>11 DEF JobReads, JobStalls, AgentStops, redisVars
<1>12. CASE EndSession \/ ReapSession \/ StartFails \/ PeerDrops
  BY <1>12 DEF EndSession, ReapSession, StartFails, PeerDrops, CloseRow, CloseRowOnly, redisVars,
               rowVars, RowMoves, OwnerMoves, FenceMoves
<1>13. CASE OfferChecks \/ OfferWrites \/ Answer \/ GrowOld
  BY <1>13 DEF OfferChecks, OfferWrites, Answer, GrowOld, redisVars, rowVars, RowMoves,
               OwnerMoves, FenceMoves
<1>14. CASE Tick
  BY <1>14 DEF Tick, rowVars, RowMoves, OwnerMoves, FenceMoves
<1>15. ASSUME NEW c \in Conns, ConnStep(c) PROVE RowMoves /\ OwnerMoves /\ FenceMoves
  BY <1>4, <1>5, <1>6, <1>15, ActorFacts DEF ConnStep
<1>16. ASSUME NEW i \in Instances, InstanceStep(i) PROVE RowMoves /\ OwnerMoves /\ FenceMoves
  BY <1>4, <1>5, <1>10, <1>16, ActorFacts DEF InstanceStep
<1>17. ASSUME NEW f \in Ids, JobStep(f) PROVE RowMoves /\ OwnerMoves /\ FenceMoves
  BY <1>5, <1>11, <1>17, ActorFacts DEF JobStep
<1>18. CASE UNCHANGED vars
  BY <1>2, <1>18 DEF vars, redisVars
<1> QED BY <1>3, <1>7, <1>8, <1>9, <1>10, <1>11, <1>12, <1>13, <1>14, <1>15, <1>16, <1>17, <1>18
        DEF Next

\* The fence invariant is inductive: it rests on the moves, not on the actions.
LEMMA FenceInductive ==
    ASSUME IndInv, TypeOK', LeaseInv', [Next]_vars
    PROVE  FenceInv'
<1> USE DEF IndInv
<1>0. endings \in Nat /\ RowMoves /\ OwnerMoves /\ FenceMoves /\ \A y \in Actors : MayMove(y)
  BY EveryMove, EnvMoves DEF TypeOK
<1>1. row' = "ended" => endings' > 0
  BY <1>0 DEF FenceInv, RowMoves
<1>2. endings > 0 => endings' > 0
  BY <1>0 DEF RowMoves
<1>3. ASSUME NEW y \in Actors, pc'[y] = "unfence" PROVE endings' > 0
  <2>1. pc[y] = "unfence" \/ row' = "ended"
    BY <1>0, <1>3 DEF MayMove, Quiet, RecoverySteps, CloseSteps, Serving
  <2> QED BY <1>1, <1>2, <2>1 DEF FenceInv
<1>4. fence # NoOne => fence' = fence \/ (fence' = NoOne /\ endings' > 0)
  BY <1>0, <1>2 DEF FenceInv, FenceMoves
<1>5. ASSUME NEW y \in Actors, pc'[y] \in FinalizeSteps, endings' = 0 PROVE fence' # NoOne
  <2>1. endings = 0
    BY <1>0, <1>5 DEF RowMoves
  <2>2. pc[y] \in FinalizeSteps \/ fence' # NoOne \/ row' = "ended"
    BY <1>0, <1>5 DEF MayMove, Quiet, RecoverySteps, CloseSteps, Serving, FinalizeSteps
  <2>3. pc[y] \in FinalizeSteps => fence # NoOne
    BY <2>1 DEF FenceInv
  <2> QED BY <1>1, <1>4, <1>5, <2>2, <2>3
<1>6. ASSUME fence' # NoOne, NEW c \in Conns, pc'[c] \in Serving \cup {"acquire"}, owner' = c
      PROVE  FALSE
  <2>0. c \in Actors /\ c # NoOne
    BY ActorFacts
  <2>1. owner = c
    BY <1>0, <1>6, <2>0 DEF OwnerMoves
  <2>2. ~(pc'[c] = "acquire" /\ req'[c] = "acquire")
    BY <1>6 DEF LeaseInv, LeaseOf
  <2>3. pc[c] \in Serving \cup {"acquire"}
    BY <1>0, <1>6, <2>0, <2>2 DEF MayMove, Quiet, RecoverySteps, CloseSteps, Serving
  <2>4. fence = NoOne
    BY <2>1, <2>3 DEF FenceInv
  <2>5. \E d \in Conns : owner' = d /\ pc'[d] \in {"ensure", "halt"}
    BY <1>0, <1>6, <2>0, <2>1, <2>4 DEF FenceMoves
  <2> QED BY <1>6, <2>5 DEF Serving
<1> QED BY <1>1, <1>3, <1>5, <1>6 DEF FenceInv

-----------------------------------------------------------------------------
(* The theorems.                                                           *)

\* The initial state satisfies the inductive invariant.
LEMMA InitInductive == Init => IndInv
<1> SUFFICES ASSUME Init PROVE IndInv
  OBVIOUS
<1>0. \A c \in Conns : pc[c] = "new" /\ ~Installed(c) /\ req[c] = "none" /\ safe[c] = 0
  BY ActorFacts DEF Init, Installed
<1>1. \A x \in Actors : x \notin Conns => pc[x] = "idle"
  BY DEF Init
<1>2. TypeOK
  <2>1. CtlType
    BY DEF Init, CtlType, Steps, ConnSteps
  <2>2. EnvType
    <3>1. seen \in [Instances -> 0..(Ttl + 1)] /\ stop \in [Ids -> {"none", "armed", "confirmed"}]
      BY TimeAssumption DEF Init
    <3>2. endings \in Nat /\ ttl \in 0..Ttl /\ offers \in 0..MaxOffers /\ faults \in 0..MaxFaults
      BY TimeAssumption, BoundAssumption DEF Init
    <3> QED BY <3>1, <3>2, Zenon DEF Init, EnvType
  <2>3. SockType
    BY TimeAssumption DEF Init, SockType
  <2>4. QueueType
    BY BoundAssumption DEF Init, QueueType
  <2> QED BY <2>1, <2>2, <2>3, <2>4, TypeParts
<1>3. ControlInv
  <2>1. \A x \in Actors : pc[x] \in {"new", "idle"}
    BY DEF Init
  <2>2. \A f \in Ids : Job(f) \in Actors /\ Job(f) \notin Conns
    BY ActorFacts
  <2>3. \A f \in Ids : tries[f] < MaxAttempts
    BY BoundAssumption DEF Init
  <2> QED BY <1>0, <1>1, <2>1, <2>2, <2>3, ActorFacts
          DEF Init, ControlInv, Committed, FinalizeSteps, CloseSteps, Serving
<1>4. LeaseInv
  BY <1>0, ActorFacts DEF Init, LeaseInv, LeaseOf, Unadmitted, Serving
<1>5. FenceInv
  BY <1>0, <1>1 DEF Init, FenceInv, FinalizeSteps
<1> QED BY <1>2, <1>3, <1>4, <1>5 DEF IndInv

\* Every step keeps the inductive invariant.
LEMMA StepInductive == IndInv /\ [Next]_vars => IndInv'
<1> SUFFICES ASSUME IndInv, [Next]_vars PROVE IndInv'
  OBVIOUS
<1>1. TypeOK'
  BY TypeInductive DEF IndInv
<1>2. ControlInv'
  BY ControlInductive DEF IndInv
<1>3. LeaseInv'
  BY <1>1, LeaseInductive DEF IndInv
<1>4. FenceInv'
  BY <1>1, <1>3, FenceInductive
<1> QED BY <1>1, <1>2, <1>3, <1>4 DEF IndInv

\* The inductive invariant holds in every reachable state.
LEMMA Invariance == Spec => []IndInv
BY InitInductive, StepInductive, PTL DEF Spec

\* Every variable keeps its type: the owner and the fence name a connection or a
\* finalization, time never runs below zero and attempts never above their limit.
THEOREM TypeCorrect == Spec => []TypeOK
<1>1. IndInv => TypeOK
  BY DEF IndInv
<1> QED BY <1>1, Invariance, PTL

\* A connection that forwards holds the key.
LEMMA ForwarderOwns ==
    ASSUME IndInv, NEW c \in Conns, Forwards(c)
    PROVE  owner = c
BY DEF IndInv, LeaseInv, LeaseOf, Forwards

\* ownsSafeRemoteConnection holds of one connection at a time, whatever the round trips,
\* stalls, crashes and recoveries: the deadline that lets a connection relay frames and
\* input ends before the key it was granted, and the key has one owner.
THEOREM OneForwarder == Spec => []AtMostOneForwarder
<1>1. IndInv => AtMostOneForwarder
  BY ForwarderOwns DEF AtMostOneForwarder
<1> QED BY <1>1, Invariance, PTL

\* The fence silences every connection.
LEMMA FenceSilences == IndInv => FenceMutesAll
<1> SUFFICES ASSUME IndInv, fence # NoOne, NEW c \in Conns, Forwards(c) PROVE FALSE
  BY DEF FenceMutesAll
<1>1. owner = c /\ pc[c] \in Serving
  BY ForwarderOwns DEF Forwards, Serving
<1> QED BY <1>1 DEF IndInv, FenceInv

\* While the finalizing key exists no connection relays: it is written under the key of a
\* connection that is already inert, or by recovery where there is no key, and no key
\* is granted until it is lifted.
THEOREM FenceMutes == Spec => []FenceMutesAll
BY FenceSilences, Invariance, PTL

\* releaseDesktopFinalizationIntent: a fence is never replaced, and is lifted only when
\* the row has been closed.
THEOREM FenceLasts == Spec => FenceOutlivesRow
<1>1. IndInv /\ [Next]_vars => [fence # NoOne /\ fence' # fence => fence' = NoOne /\ endings > 0]_vars
  <2> SUFFICES ASSUME IndInv, [Next]_vars, fence # NoOne, fence' # fence
               PROVE  fence' = NoOne /\ endings > 0
    OBVIOUS
  <2>1. FenceMoves
    BY EnvMoves DEF IndInv
  <2> QED BY <2>1 DEF FenceMoves, IndInv, FenceInv
<1> QED BY <1>1, Invariance, PTL DEF Spec, FenceOutlivesRow

\* The summary is written by the transaction that closes the row, and nowhere else.
LEMMA SummaryWriter ==
    ASSUME [Next]_vars, \A x \in Actors : ~Seal(x)
    PROVE  summary' = summary
<1> USE DEF rowVars
<1>1. ASSUME NEW x \in Actors, Recover(x) \/ Finalize(x) \/ Throws(x) PROVE summary' = summary
  BY <1>1 DEF Recover, Load, Observe, Reload, Claim, Finalize, Ensure, Unfence, Enqueue, Throws
<1>2. ASSUME NEW c \in Conns, Lease(c) \/ Close(c) PROVE summary' = summary
  BY <1>2 DEF Lease, LeaseExec, AcquireReply, RenewReply, Close, BeginClose, Persist, Halt, Release
<1>3. ASSUME NEW c \in Conns,
             \/ Admit(c) \/ Bind(c) \/ RejectOpen(c) \/ Activate(c) \/ Renew(c) \/ PingTick(c)
             \/ SocketCloses(c)
      PROVE  summary' = summary
  BY <1>3 DEF Admit, Bind, RejectOpen, Activate, Renew, PingTick, SocketCloses
<1>4. ASSUME NEW i \in Instances, Sweep(i) \/ Crash(i) PROVE summary' = summary
  BY <1>4 DEF Sweep, Crash
<1>5. ASSUME NEW f \in Ids, JobReads(f) \/ JobStalls(f) \/ AgentStops(f) PROVE summary' = summary
  BY <1>5 DEF JobReads, JobStalls, AgentStops
<1>6. CASE EndSession \/ ReapSession \/ StartFails \/ PeerDrops
  BY <1>6 DEF EndSession, ReapSession, StartFails, PeerDrops, CloseRow, CloseRowOnly
<1>7. CASE OfferChecks \/ OfferWrites \/ Answer \/ GrowOld \/ Tick
  BY <1>7 DEF OfferChecks, OfferWrites, Answer, GrowOld, Tick
<1>8. CASE UNCHANGED vars
  BY <1>8 DEF vars
<1>9. ASSUME NEW c \in Conns, ConnStep(c) PROVE summary' = summary
  BY <1>1, <1>2, <1>9, ActorFacts DEF ConnStep
<1>10. ASSUME NEW i \in Instances, InstanceStep(i) PROVE summary' = summary
  BY <1>1, <1>4, <1>10, ActorFacts DEF InstanceStep
<1>11. ASSUME NEW f \in Ids, JobStep(f) PROVE summary' = summary
  BY <1>1, <1>5, <1>11, ActorFacts DEF JobStep
<1> QED BY <1>1, <1>2, <1>3, <1>4, <1>5, <1>6, <1>7, <1>8, <1>9, <1>10, <1>11 DEF Next

\* finalizeDesktopSessionOnce: the close that first accounts for a session is made under
\* the fence, so no connection relays at that moment.
THEOREM AccountedInSilence == Spec => AccountedWhenSilent
<1>1. IndInv /\ [Next]_vars =>
        [summary' /\ ~summary /\ endings = 0 => \A c \in Conns : ~Forwards(c)]_vars
  <2> SUFFICES ASSUME IndInv, [Next]_vars, summary', ~summary, endings = 0
               PROVE  \A c \in Conns : ~Forwards(c)
    OBVIOUS
  <2>1. PICK x \in Actors : Seal(x)
    BY SummaryWriter, Zenon
  <2>2. pc[x] \in FinalizeSteps
    BY <2>1 DEF Seal, At, FinalizeSteps
  <2>3. fence # NoOne
    BY <2>2 DEF IndInv, FenceInv
  <2> QED BY <2>3, FenceSilences DEF FenceMutesAll
<1> QED BY <1>1, Invariance, PTL DEF Spec, AccountedWhenSilent
=============================================================================
