------------------------- MODULE AgentTokensProofs -------------------------
(***************************************************************************)
(* Proofs about AgentTokens, for every set of request slots and of builds  *)
(* and every bound on tokens, events and faults.                           *)
(***************************************************************************)
EXTENDS AgentTokens, TLAPS

-----------------------------------------------------------------------------
(* The inductive invariant.                                                *)

Busy(r) == req[r].op # "none"
Answered(r, a) == req[r].step = "answered" /\ req[r].answer = a

\* The worker waits for at most one request, the one it sent last; what a request is
\* about to promote, or has returned, is a token.
ReqControl(r) ==
    /\ req[r].from = "worker" =>
          \/ req[r].op = "rotate" /\ worker.step = "rotating"
          \/ req[r].op = "confirm" /\ worker.step = "confirming" /\ req[r].token = worker.token
    /\ req[r].op \in {"rotate", "confirm"} => req[r].from # "loop"
    /\ req[r].op = "heartbeat" => req[r].from # "worker"
    /\ req[r].step = "answered" => req[r].from # "nobody"
    /\ req[r].step = "promote" => req[r].op # "rotate" /\ req[r].target \in Nat
    /\ req[r].op = "confirm" /\ req[r].step = "promote" => req[r].target = req[r].token
    /\ req[r].op = "rotate" /\ Answered(r, "ok") => req[r].target \in Nat

ControlInv ==
    /\ \A r \in Requests : Busy(r) => ReqControl(r)
    /\ \A r, s \in Requests :
          Busy(r) /\ Busy(s) /\ req[r].from = "worker" /\ req[s].from = "worker" => r = s
    /\ worker.step \in {"stage", "confirm", "confirming", "promote", "swap"} => worker.token \in Nat

\* Tokens are minted in order, and a staged one is the last.
Minted(t) == t \in Nat => t <= minted
MintedInv ==
    /\ current <= minted /\ mem <= minted /\ disk.auth <= minted
    /\ pending \in {NoToken, minted} /\ pending # current
    /\ Minted(disk.pend) /\ Minted(loaded) /\ Minted(saver) /\ Minted(worker.token)
    /\ Minted(enroller.pend)
    /\ \A r \in Requests : Busy(r) => req[r].token <= minted /\ Minted(req[r].target)

\* What was revoked is in no column of the row.
RevokedInv == \A t \in revoked : t <= minted /\ t \notin {current, pending, previous}

\* A token that is revoked, or none.
Dead(t) == t \in revoked \cup {NoToken}

\* The agent and its requests hold nothing that is not revoked.
AgentDead ==
    /\ mem \in revoked /\ disk.auth \in revoked
    /\ Dead(disk.pend) /\ Dead(loaded) /\ Dead(saver) /\ Dead(worker.token)
SlotDead(r) == Busy(r) => req[r].token \in revoked /\ Dead(req[r].target)

\* Between an enrollment's commit and its save the agent holds nothing that is not
\* revoked, so nothing can be staged or promoted.
EnrollInv ==
    enroller.step = "answered" =>
        /\ pending = NoToken
        /\ enroller.token \in Nat /\ enroller.token <= minted
        /\ current \in {enroller.token, operator}
        /\ Dead(enroller.pend)
        /\ AgentDead /\ \A r \in Requests : SlotDead(r)

\* A two-phase agent, and nothing that the protocol is not proof against.
Sound == kind = "two_phase" /\ holes \subseteq {"unread"}

\* What a request in flight says about the row and the disk.
ReqDurable(r) ==
    /\ req[r].op = "heartbeat" =>
          req[r].token # pending /\ req[r].match # "pending" /\ req[r].step # "promote"
    /\ req[r].op = "confirm" /\ req[r].token = pending /\ staged => disk.pend = pending
    /\ req[r].op = "confirm" /\ Answered(r, "ok") =>
          req[r].token # pending /\ (req[r].token = current \/ req[r].token \in revoked)
    /\ req[r].op = "confirm" /\ Answered(r, "refused") =>
          req[r].token # current /\ ~(req[r].token = pending /\ staged)
    /\ req[r].op = "rotate" /\ Answered(r, "ok") =>
          \A s \in Requests : req[s].op = "confirm" => req[s].token < req[r].target

\* A token is staged on disk; an enrollment may have put an older one in its place, but
\* then both are revoked.
OnDisk(t) == disk.pend = t \/ (t \in revoked /\ Dead(disk.pend))

\* What the worker holds is on disk until the server relies on it, and the token it is
\* about to write over the staged one is newer than any that may still be confirmed.
WorkerDurable ==
    /\ worker.step \in {"confirm", "confirming", "promote"} => OnDisk(worker.token)
    /\ worker.step \in {"promote", "swap"} => worker.token # pending
    /\ worker.step = "promote" => worker.token = current \/ worker.token \in revoked
StageNewer ==
    worker.step = "stage" =>
        \A r \in Requests : req[r].op = "confirm" => req[r].token < worker.token

DurableInv ==
    /\ current \in {disk.auth, disk.pend, operator, Enrolled}
    /\ mem # pending /\ disk.auth # pending
    /\ \A r \in Requests : Busy(r) => ReqDurable(r)
    /\ WorkerDurable /\ StageNewer

IndInv ==
    TypeOK /\ ControlInv /\ MintedInv /\ RevokedInv /\ EnrollInv /\ (Sound => DurableInv)

-----------------------------------------------------------------------------
(* What a step does to the requests.                                       *)

ReqType == req \in [Requests -> Request \cup {Free}]

Others(r) == \A s \in Requests : s # r => req'[s] = req[s]

\* A slot holds a request or nothing.
LEMMA SlotFacts ==
    ASSUME TypeOK, NEW r \in Requests
    PROVE  /\ Busy(r) => req[r] \in Request
           /\ ~Busy(r) => req[r] = Free
BY DEF TypeOK, Busy, Free, Request

\* A handler answers who is still waiting.
LEMMA AnswerFacts ==
    ASSUME TypeOK, NEW r \in Requests, Busy(r), NEW t \in Token,
           NEW a \in {"ok", "rotate", "confirm", "refused", "conflict"}, Answer(r, a, t)
    PROVE  /\ ReqType' /\ Others(r)
           /\ req[r].from = "nobody" => req'[r] = Free
           /\ req[r].from # "nobody" =>
                 /\ req'[r].op = req[r].op /\ req'[r].from = req[r].from
                 /\ req'[r].token = req[r].token /\ req'[r].match = req[r].match
                 /\ req'[r].step = "answered" /\ req'[r].answer = a /\ req'[r].target = t
<1>0. req[r] \in Request
  BY SlotFacts
<1>1. CASE req[r].from = "nobody"
  <2>1. req' = [req EXCEPT ![r] = Free]
    BY <1>1 DEF Answer, TypeOK
  <2> QED BY <1>1, <2>1 DEF TypeOK, ReqType, Others
<1>2. CASE req[r].from # "nobody"
  <2> DEFINE q == [req[r] EXCEPT !.step = "answered", !.answer = a, !.target = t]
  <2>1. req' = [req EXCEPT ![r] = q]
    BY <1>2 DEF Answer, TypeOK
  <2>2. q \in Request
    BY <1>0 DEF Request
  <2>3. /\ q.op = req[r].op /\ q.from = req[r].from /\ q.token = req[r].token
        /\ q.match = req[r].match /\ q.step = "answered" /\ q.answer = a /\ q.target = t
    BY <1>0 DEF Request
  <2>4. req'[r] = q
    BY <2>1 DEF TypeOK
  <2> HIDE DEF q
  <2>5. ReqType' /\ Others(r)
    BY <2>1, <2>2 DEF TypeOK, ReqType, Others
  <2> QED BY <1>2, <2>3, <2>4, <2>5
<1> QED BY <1>1, <1>2

\* A handler goes on past the middleware, with or without its verdict.
Advances(r, st, m) ==
    \/ req' = [req EXCEPT ![r].step = st] /\ m = req[r].match
    \/ req' = [req EXCEPT ![r].step = st, ![r].match = m] /\ m = Match(req[r].token)

\* Advancing a request keeps it a request with the same token, operation and staged token.
LEMMA AdvanceFacts ==
    ASSUME TypeOK, NEW r \in Requests, Busy(r), NEW st \in {"update", "read"},
           NEW m \in {"none", "current", "pending", "previous"}, Advances(r, st, m)
    PROVE  /\ ReqType' /\ Others(r)
           /\ req'[r].op = req[r].op /\ req'[r].from = req[r].from
           /\ req'[r].token = req[r].token /\ req'[r].match = m
           /\ req'[r].step = st /\ req'[r].target = req[r].target
<1>0. req[r] \in Request
  BY SlotFacts
<1> DEFINE q == [req[r] EXCEPT !.step = st, !.match = m]
<1>1. req' = [req EXCEPT ![r] = q]
  <2>1. CASE req' = [req EXCEPT ![r].step = st] /\ m = req[r].match
    <3>1. q = [req[r] EXCEPT !.step = st]
      BY <1>0, <2>1 DEF Request
    <3> QED BY <2>1, <3>1 DEF TypeOK
  <2>2. CASE req' = [req EXCEPT ![r].step = st, ![r].match = m]
    BY <2>2 DEF TypeOK
  <2> QED BY <2>1, <2>2 DEF Advances
<1>2. q \in Request
  BY <1>0 DEF Request
<1>3. /\ q.op = req[r].op /\ q.from = req[r].from /\ q.token = req[r].token
      /\ q.match = m /\ q.step = st /\ q.target = req[r].target
  BY <1>0 DEF Request
<1>4. req'[r] = q
  BY <1>1 DEF TypeOK
<1> HIDE DEF q
<1>5. ReqType' /\ Others(r)
  BY <1>1, <1>2 DEF TypeOK, ReqType, Others
<1> QED BY <1>3, <1>4, <1>5

\* A handler goes on to promote what it read.
LEMMA GoPromoteFacts ==
    ASSUME TypeOK, NEW r \in Requests, Busy(r), GoPromote(r)
    PROVE  /\ ReqType' /\ Others(r)
           /\ req'[r].op = req[r].op /\ req'[r].from = req[r].from
           /\ req'[r].token = req[r].token /\ req'[r].match = req[r].match
           /\ req'[r].step = "promote" /\ req'[r].target = pending
<1>0. req[r] \in Request /\ current \in Token /\ pending \in Token /\ due \in BOOLEAN
  BY SlotFacts DEF TypeOK, Token
<1> DEFINE q == [req[r] EXCEPT !.step = "promote", !.expected = current,
                               !.target = pending, !.wasDue = due]
<1>1. req' = [req EXCEPT ![r] = q]
  BY DEF GoPromote, TypeOK
<1>2. q \in Request
  BY <1>0 DEF Request
<1>3. /\ q.op = req[r].op /\ q.from = req[r].from /\ q.token = req[r].token
      /\ q.match = req[r].match /\ q.step = "promote" /\ q.target = pending
  BY <1>0 DEF Request
<1>4. req'[r] = q
  BY <1>1 DEF TypeOK
<1> HIDE DEF q
<1>5. ReqType' /\ Others(r)
  BY <1>1, <1>2 DEF TypeOK, ReqType, Others
<1> QED BY <1>3, <1>4, <1>5

\* The agent's new request takes a free slot.
LEMMA SendFacts ==
    ASSUME TypeOK, NEW op \in {"rotate", "confirm", "heartbeat"}, NEW from \in {"worker", "loop"},
           NEW t \in Nat, Send(op, from, t)
    PROVE  \E r \in Requests :
              /\ ReqType' /\ Others(r) /\ req[r] = Free
              /\ req'[r].op = op /\ req'[r].from = from /\ req'[r].token = t
              /\ req'[r].match = "none" /\ req'[r].step = "auth" /\ req'[r].target = NoToken
              /\ req'[r].answer = "none"
<1> DEFINE q == [op |-> op, from |-> from, step |-> "auth", token |-> t, match |-> "none",
                 expected |-> NoToken, target |-> NoToken, wasDue |-> FALSE, answer |-> "none"]
<1>1. PICK r \in Requests : req[r] = Free /\ req' = [req EXCEPT ![r] = q]
  BY DEF Send
<1>2. q \in Request
  BY DEF Request, Token
<1>3. /\ q.op = op /\ q.from = from /\ q.token = t /\ q.match = "none" /\ q.step = "auth"
      /\ q.target = NoToken /\ q.answer = "none"
  OBVIOUS
<1>4. req'[r] = q
  BY <1>1 DEF TypeOK
<1> HIDE DEF q
<1>5. ReqType' /\ Others(r)
  BY <1>1, <1>2 DEF TypeOK, ReqType, Others
<1> QED BY <1>1, <1>3, <1>4, <1>5

\* The agent takes an answer.
LEMMA ReceiveFacts ==
    ASSUME TypeOK, NEW r \in Requests, NEW op, Receive(r, op)
    PROVE  ReqType' /\ Others(r) /\ req'[r] = Free
BY DEF Receive, TypeOK, ReqType, Others

\* A request nobody waits for goes on, an answer nobody waits for is lost.
AbandonedFrom(r) ==
    \/ req'[r] = Free
    \/ /\ req[r].op # "none" /\ req[r].step # "answered"
       /\ req'[r].op = req[r].op /\ req'[r].from = "nobody" /\ req'[r].step = req[r].step
       /\ req'[r].token = req[r].token /\ req'[r].match = req[r].match
       /\ req'[r].target = req[r].target /\ req'[r].answer = req[r].answer

\* A request whose caller is gone keeps its token, or its slot is free.
LEMMA AbandonedFacts ==
    ASSUME TypeOK, NEW r \in Requests
    PROVE  /\ Abandoned(r) \in Request \cup {Free}
           /\ req'[r] = Abandoned(r) => AbandonedFrom(r)
<1>1. CASE req[r].op = "none" \/ req[r].step = "answered"
  BY <1>1 DEF Abandoned, AbandonedFrom
<1>2. CASE ~(req[r].op = "none" \/ req[r].step = "answered")
  <2>0. req[r] \in Request
    BY <1>2, SlotFacts DEF Busy
  <2> DEFINE q == [req[r] EXCEPT !.from = "nobody"]
  <2>1. Abandoned(r) = q
    BY <1>2 DEF Abandoned
  <2>2. q \in Request
    BY <2>0 DEF Request
  <2>3. /\ q.op = req[r].op /\ q.from = "nobody" /\ q.step = req[r].step
        /\ q.token = req[r].token /\ q.match = req[r].match
        /\ q.target = req[r].target /\ q.answer = req[r].answer
    BY <2>0 DEF Request
  <2> HIDE DEF q
  <2> QED BY <1>2, <2>1, <2>2, <2>3 DEF AbandonedFrom
<1> QED BY <1>1, <1>2

\* The process dies: every request is abandoned.
LEMMA BootFacts ==
    ASSUME TypeOK, req' = [r \in Requests |-> Abandoned(r)]
    PROVE  ReqType' /\ \A r \in Requests : AbandonedFrom(r)
BY AbandonedFacts DEF ReqType

-----------------------------------------------------------------------------
(* Type correctness.                                                       *)

RowType ==
    /\ current \in Nat /\ minted \in Nat /\ pending \in Token /\ previous \in Token
    /\ staged \in BOOLEAN /\ grace \in BOOLEAN /\ due \in BOOLEAN
AgentType ==
    /\ kind \in Kinds /\ mem \in Nat /\ disk \in [auth: Nat, pend: Token]
    /\ loaded \in Token /\ saver \in Token /\ retry \in BOOLEAN
    /\ worker \in [step: WorkerSteps, token: Token]
HistoryType ==
    /\ operator \in Token /\ revoked \subseteq Nat /\ holes \subseteq Holes
    /\ events \in Nat /\ faults \in Nat
    /\ enroller \in [step: {"none", "sent", "checked", "answered"}, token: Token, pend: Token]

\* The type invariant, split by what a group of actions touches.
LEMMA TypeParts == TypeOK <=> RowType /\ ReqType /\ AgentType /\ HistoryType
BY DEF TypeOK, RowType, ReqType, AgentType, HistoryType

\* The same split of the next state.
LEMMA TypePartsNext == TypeOK' <=> RowType' /\ ReqType' /\ AgentType' /\ HistoryType'
BY DEF TypeOK, RowType, ReqType, AgentType, HistoryType

\* A step that leaves the device row alone keeps its type.
LEMMA RowKept == ASSUME RowType, UNCHANGED rowVars PROVE RowType'
BY DEF RowType, rowVars

\* A step that leaves the agent alone keeps its type.
LEMMA AgentKept == ASSUME AgentType, UNCHANGED agentVars PROVE AgentType'
BY DEF AgentType, agentVars

\* A step that leaves the history, the enroll command and the fault count alone keeps
\* their types.
LEMMA HistoryKept ==
    ASSUME HistoryType, UNCHANGED <<enroller, historyVars, faults>> PROVE HistoryType'
BY DEF HistoryType, historyVars

\* matchAgentTokenHash names the column a token is in.
LEMMA MatchFacts ==
    ASSUME NEW t
    PROVE  /\ Match(t) \in {"none", "current", "pending", "previous"}
           /\ Match(t) = "current" <=> t = current
           /\ Match(t) = "pending" => t = pending /\ staged
           /\ Match(t) = "none" => t # current /\ ~(t = pending /\ staged)
           /\ t \notin {current, pending, previous} => Match(t) = "none"
BY DEF Match

\* A handler's step that writes nothing to the row: it answers, goes on, or goes on
\* to promote a staged token.
Handles(r) ==
    \/ \E a \in {"ok", "rotate", "confirm", "refused", "conflict"} :
          /\ Answer(r, a, NoToken)
          /\ req[r].op = "rotate" => a # "ok"
          /\ req[r].op = "confirm" /\ a = "ok" => pending = NoToken /\ current = req[r].token
          /\ req[r].op = "confirm" /\ a = "refused" =>
                /\ ~(req[r].token = pending /\ staged)
                /\ req[r].token # current \/ req[r].token = pending
    \/ \E st \in {"update", "read"}, m \in {"none", "current", "pending", "previous"} :
          req[r].step = "auth" /\ Advances(r, st, m)
    \/ /\ GoPromote(r) /\ pending \in Nat
       /\ \/ req[r].op = "confirm" /\ pending = req[r].token
          \/ req[r].op = "heartbeat" /\ req[r].match = "pending"

\* The handler's reading and failing steps keep the requests typed.
LEMMA HandlerSteps ==
    ASSUME TypeOK, NEW r \in Requests,
           Authenticate(r) \/ ReadConfirm(r) \/ ReadHeartbeat(r) \/ HandlerFails(r)
    PROVE  Busy(r) /\ Handles(r)
<1> USE DEF At
<1>0. Busy(r)
  BY DEF Busy, Authenticate, ReadConfirm, ReadHeartbeat, HandlerFails
<1>1. req[r] \in Request /\ pending \in Token
  BY <1>0, SlotFacts DEF TypeOK
<1>2. CASE Authenticate(r)
  BY <1>0, <1>1, <1>2, MatchFacts DEF Authenticate, Handles, Advances, Request
<1>3. CASE ReadConfirm(r)
  BY <1>0, <1>1, <1>3 DEF ReadConfirm, Handles, Request
<1>4. CASE ReadHeartbeat(r)
  BY <1>0, <1>1, <1>4 DEF ReadHeartbeat, Handles, Token
<1>5. CASE HandlerFails(r)
  BY <1>0, <1>5 DEF HandlerFails, Handles
<1> QED BY <1>2, <1>3, <1>4, <1>5

\* What every handler step does to the requests keeps them typed.
LEMMA HandlesType ==
    ASSUME TypeOK, NEW r \in Requests, Busy(r), Handles(r)
    PROVE  ReqType'
<1>1. NoToken \in Token
  BY DEF Token
<1>2. ASSUME NEW st \in {"update", "read"}, NEW m \in {"none", "current", "pending", "previous"},
             Advances(r, st, m)
      PROVE  ReqType'
  BY <1>2, AdvanceFacts
<1> QED BY <1>1, <1>2, AnswerFacts, GoPromoteFacts DEF Handles

\* Every server step keeps the types.
LEMMA ServerType ==
    ASSUME TypeOK, ControlInv, NEW r \in Requests, Server(r) \/ HandlerFails(r)
    PROVE  TypeOK'
<1> USE DEF At
<1>t. RowType /\ AgentType /\ HistoryType /\ NoToken \in Token
  BY TypeParts DEF Token
<1>1. CASE Authenticate(r) \/ ReadConfirm(r) \/ ReadHeartbeat(r)
  <2>1. ReqType'
    BY <1>1, HandlerSteps, HandlesType
  <2>2. UNCHANGED <<rowVars, agentVars, enroller, historyVars, faults>>
    BY <1>1 DEF Authenticate, ReadConfirm, ReadHeartbeat
  <2> QED BY <1>t, <2>1, <2>2, TypePartsNext, RowKept, AgentKept, HistoryKept
<1>2. CASE HandlerFails(r)
  <2>1. ReqType'
    BY <1>2, HandlerSteps, HandlesType
  <2>2. HistoryType'
    BY <1>t, <1>2 DEF HandlerFails, Fault, HistoryType, historyVars
  <2> QED BY <1>t, <1>2, <2>1, <2>2, TypePartsNext, RowKept, AgentKept DEF HandlerFails
<1>3. CASE Stage(r)
  <2>0. Busy(r) /\ minted \in Nat /\ minted + 1 \in Nat /\ minted + 1 \in Token
    BY <1>t, <1>3 DEF Stage, Busy, RowType, Token
  <2>1. ReqType'
    BY <1>t, <1>3, <2>0, AnswerFacts DEF Stage
  <2>2. RowType'
    <3>1. CASE minted' = minted + 1 /\ pending' = minted + 1 /\ staged' = TRUE
      <4>1. minted' \in Nat /\ pending' \in Token
        BY <2>0, <3>1
      <4> QED BY <1>t, <1>3, <3>1, <4>1, Zenon DEF Stage, RowType
    <3>2. CASE UNCHANGED <<minted, pending, staged>>
      BY <1>t, <1>3, <3>2 DEF Stage, RowType
    <3> QED BY <1>3, <3>1, <3>2 DEF Stage
  <2> QED BY <1>t, <1>3, <2>1, <2>2, TypePartsNext, AgentKept, HistoryKept DEF Stage
<1>4. CASE Promote(r)
  <2>0. Busy(r)
    BY <1>4 DEF Promote, Busy
  <2>1. ReqType'
    BY <1>t, <1>4, <2>0, AnswerFacts DEF Promote
  <2>2. req[r].target \in Nat
    BY <1>4, <2>0 DEF Promote, ControlInv, ReqControl
  <2>3. RowType'
    <3>1. CASE pending = req[r].target /\ current = req[r].expected
      <4>1. current' \in Nat /\ previous' \in Token /\ minted' \in Nat
        BY <1>t, <1>4, <2>2, <3>1 DEF Promote, RowType, Token
      <4> QED BY <1>t, <1>4, <3>1, <4>1, Zenon DEF Promote, RowType
    <3>2. CASE ~(pending = req[r].target /\ current = req[r].expected)
      BY <1>t, <1>4, <3>2 DEF Promote, RowType
    <3> QED BY <3>1, <3>2
  <2>4. HistoryType'
    <3>1. holes' \subseteq Holes
      BY <1>t, <1>4 DEF Promote, HistoryType, Holes
    <3> QED BY <1>t, <1>4, <3>1 DEF Promote, HistoryType
  <2> QED BY <1>t, <1>4, <2>1, <2>3, <2>4, TypePartsNext, AgentKept DEF Promote
<1> QED BY <1>1, <1>2, <1>3, <1>4 DEF Server

\* The worker's next step.
LEMMA WorkFacts ==
    ASSUME NEW st \in WorkerSteps, NEW t \in Token, Work(st, t)
    PROVE  worker' \in [step: WorkerSteps, token: Token] /\ worker'.step = st /\ worker'.token = t
BY DEF Work

\* The worker's record and the file, field by field.
LEMMA AgentFields ==
    ASSUME TypeOK
    PROVE  /\ worker.step \in WorkerSteps /\ worker.token \in Token
           /\ disk.auth \in Nat /\ disk.pend \in Token
           /\ NoToken \in Token /\ Nat \subseteq Token /\ NoToken \notin Nat
           /\ \A t \in Token : [disk EXCEPT !.pend = t] \in [auth: Nat, pend: Token]
           /\ \A t \in Token : [disk EXCEPT !.pend = t].auth = disk.auth
           /\ \A t \in Token : [disk EXCEPT !.pend = t].pend = t
           /\ \A t \in Nat : [disk EXCEPT !.auth = t] \in [auth: Nat, pend: Token]
           /\ \A t \in Nat : [disk EXCEPT !.auth = t].auth = t
           /\ \A t \in Nat : [disk EXCEPT !.auth = t].pend = disk.pend
<1>1. worker \in [step: WorkerSteps, token: Token] /\ disk \in [auth: Nat, pend: Token]
  BY DEF TypeOK
<1> QED BY <1>1, TokenAssumption DEF Token

\* An answered rotation that succeeded returned a token.
LEMMA RotateTarget ==
    ASSUME TypeOK, ControlInv, NEW r \in Requests, At(r, "rotate", "answered"), req[r].answer = "ok"
    PROVE  req[r].target \in Nat
BY DEF At, ControlInv, ReqControl, Answered, Busy

\* Sending a rotate, a confirm or a heartbeat keeps the types.
LEMMA WorkerSendType ==
    ASSUME TypeOK, ControlInv, Rotate \/ Confirm \/ Heartbeat
    PROVE  TypeOK'
<1>t. RowType /\ AgentType /\ HistoryType
  BY TypeParts
<1>1. CASE Rotate
  <2>1. ReqType'
    BY <1>t, <1>1, SendFacts DEF Rotate, AgentType
  <2>2. AgentType'
    BY <1>t, <1>1, AgentFields, WorkFacts DEF Rotate, AgentType, WorkerSteps
  <2> QED BY <1>t, <1>1, <2>1, <2>2, TypePartsNext, RowKept, HistoryKept DEF Rotate
<1>2. CASE Confirm
  <2>0. worker.token \in Nat
    BY <1>2 DEF Confirm, ControlInv
  <2>1. ReqType'
    BY <1>2, <2>0, SendFacts DEF Confirm
  <2>2. AgentType'
    BY <1>t, <1>2, AgentFields, WorkFacts DEF Confirm, AgentType, WorkerSteps
  <2> QED BY <1>t, <1>2, <2>1, <2>2, TypePartsNext, RowKept, HistoryKept DEF Confirm
<1>3. CASE Heartbeat
  <2>1. ReqType'
    BY <1>t, <1>3, SendFacts DEF Heartbeat, AgentType
  <2> QED BY <1>t, <1>3, <2>1, TypePartsNext, RowKept, AgentKept, HistoryKept DEF Heartbeat
<1> QED BY <1>1, <1>2, <1>3

\* Receiving an answer, or giving up on one, keeps the types.
LEMMA WorkerReceiveType ==
    ASSUME TypeOK, ControlInv, NEW r \in Requests,
           RotateAnswered(r) \/ ConfirmAnswered(r) \/ HeartbeatAnswered(r) \/ GiveUp(r)
    PROVE  TypeOK'
<1>t. RowType /\ AgentType /\ HistoryType
  BY TypeParts
<1>1. CASE RotateAnswered(r)
  <2>1. ReqType'
    BY <1>1, ReceiveFacts DEF RotateAnswered
  <2>2. At(r, "rotate", "answered")
    BY <1>1 DEF RotateAnswered, Receive
  <2>3. CASE req[r].answer = "ok"
    <3>1. req[r].target \in Nat
      BY <2>2, <2>3, RotateTarget
    <3>2. worker' \in [step: WorkerSteps, token: Token]
      BY <1>1, <2>3, <3>1, AgentFields, WorkFacts DEF RotateAnswered, WorkerSteps
    <3>3. mem' \in Nat /\ disk' \in [auth: Nat, pend: Token]
      BY <1>t, <1>1, <2>3, <3>1, AgentFields DEF RotateAnswered, AgentType
    <3>4. AgentType'
      BY <1>t, <1>1, <3>2, <3>3 DEF RotateAnswered, AgentType
    <3> QED BY <1>t, <1>1, <2>1, <3>4, TypePartsNext, RowKept, HistoryKept DEF RotateAnswered
  <2>4. CASE req[r].answer # "ok"
    <3>1. AgentType'
      BY <1>t, <1>1, <2>4, AgentFields, WorkFacts DEF RotateAnswered, AgentType, WorkerSteps
    <3> QED BY <1>t, <1>1, <2>1, <3>1, TypePartsNext, RowKept, HistoryKept DEF RotateAnswered
  <2> QED BY <2>3, <2>4
<1>2. CASE ConfirmAnswered(r)
  <2>1. ReqType'
    BY <1>2, ReceiveFacts DEF ConfirmAnswered
  <2>2. worker' \in [step: WorkerSteps, token: Token] /\ disk' \in [auth: Nat, pend: Token]
    BY <1>t, <1>2, AgentFields, WorkFacts DEF ConfirmAnswered, AgentType, WorkerSteps
  <2>3. retry' \in BOOLEAN
    BY <1>t, <1>2, Zenon DEF ConfirmAnswered, AgentType
  <2>4. AgentType'
    BY <1>t, <1>2, <2>2, <2>3 DEF ConfirmAnswered, AgentType
  <2>5. HistoryType'
    BY <1>t, <1>2 DEF ConfirmAnswered, Fault, HistoryType, historyVars
  <2> QED BY <1>t, <1>2, <2>1, <2>4, <2>5, TypePartsNext, RowKept DEF ConfirmAnswered
<1>3. CASE HeartbeatAnswered(r)
  <2>1. ReqType'
    BY <1>3, ReceiveFacts DEF HeartbeatAnswered
  <2>2. AgentType'
    BY <1>t, <1>3, AgentFields, WorkFacts DEF HeartbeatAnswered, AgentType, WorkerSteps
  <2> QED BY <1>t, <1>3, <2>1, <2>2, TypePartsNext, RowKept, HistoryKept DEF HeartbeatAnswered
<1>4. CASE GiveUp(r)
  <2>1. ReqType'
    BY <1>4, AbandonedFacts DEF GiveUp, TypeOK, ReqType
  <2>2. AgentType'
    BY <1>t, <1>4, AgentFields, WorkFacts DEF GiveUp, AgentType, WorkerSteps
  <2>3. HistoryType'
    BY <1>t, <1>4 DEF GiveUp, Fault, HistoryType, historyVars
  <2> QED BY <1>t, <1>4, <2>1, <2>2, <2>3, TypePartsNext, RowKept DEF GiveUp
<1> QED BY <1>1, <1>2, <1>3, <1>4

\* The agent's writes to disk and memory keep the types.
LEMMA WorkerDiskType ==
    ASSUME TypeOK, ControlInv, StageOnDisk \/ PromoteOnDisk \/ SwapMemory \/ Reconcile
    PROVE  TypeOK'
<1>t. RowType /\ ReqType /\ AgentType /\ HistoryType
  BY TypeParts
<1>1. CASE StageOnDisk
  <2>1. worker' \in [step: WorkerSteps, token: Token] /\ disk' \in [auth: Nat, pend: Token]
    BY <1>t, <1>1, AgentFields, WorkFacts DEF StageOnDisk, AgentType, WorkerSteps
  <2>2. retry' \in BOOLEAN
    BY <1>t, <1>1, Zenon DEF StageOnDisk, AgentType
  <2>3. holes' \subseteq Holes /\ faults' \in Nat
    BY <1>t, <1>1 DEF StageOnDisk, Fault, HistoryType, Holes
  <2>4. RowType' /\ ReqType'
    BY <1>t, <1>1, RowKept DEF StageOnDisk, ReqType
  <2>5. AgentType' /\ HistoryType'
    BY <1>t, <1>1, <2>1, <2>2, <2>3 DEF StageOnDisk, AgentType, HistoryType
  <2> QED BY <2>4, <2>5, TypePartsNext
<1>2. CASE PromoteOnDisk
  <2>0. worker.token \in Nat
    BY <1>2 DEF PromoteOnDisk, ControlInv
  <2>1. worker' \in [step: WorkerSteps, token: Token] /\ disk' \in [auth: Nat, pend: Token]
    BY <1>t, <1>2, <2>0, AgentFields, WorkFacts DEF PromoteOnDisk, AgentType, WorkerSteps
  <2>2. retry' \in BOOLEAN
    BY <1>t, <1>2, Zenon DEF PromoteOnDisk, AgentType
  <2>3. holes' \subseteq Holes /\ faults' \in Nat
    BY <1>t, <1>2 DEF PromoteOnDisk, Fault, HistoryType, Holes
  <2>4. RowType' /\ ReqType'
    BY <1>t, <1>2, RowKept DEF PromoteOnDisk, ReqType
  <2>5. AgentType' /\ HistoryType'
    BY <1>t, <1>2, <2>1, <2>2, <2>3 DEF PromoteOnDisk, AgentType, HistoryType
  <2> QED BY <2>4, <2>5, TypePartsNext
<1>3. CASE SwapMemory
  <2>0. worker.token \in Nat
    BY <1>3 DEF SwapMemory, ControlInv
  <2>1. worker' \in [step: WorkerSteps, token: Token]
    BY <1>3, AgentFields, WorkFacts DEF SwapMemory, WorkerSteps
  <2>2. AgentType'
    BY <1>t, <1>3, <2>0, <2>1 DEF SwapMemory, AgentType
  <2>3. ReqType'
    BY <1>t, <1>3 DEF SwapMemory, ReqType
  <2> QED BY <1>t, <1>3, <2>2, <2>3, TypePartsNext, RowKept, HistoryKept DEF SwapMemory
<1>4. CASE Reconcile
  <2>1. worker' \in [step: WorkerSteps, token: Token]
    BY <1>4, AgentFields, WorkFacts DEF Reconcile, WorkerSteps
  <2>2. retry' \in BOOLEAN
    BY <1>t, <1>4, Zenon DEF Reconcile, AgentType
  <2>3. holes' \subseteq Holes /\ faults' \in Nat
    <3>1. holes' = holes \/ holes' = holes \cup {"unread"}
      BY <1>4, Zenon DEF Reconcile
    <3>2. faults' = faults \/ faults' = faults + 1
      BY <1>4, Zenon DEF Reconcile, Fault
    <3>3. holes \subseteq Holes /\ faults \in Nat
      BY <1>t DEF HistoryType
    <3>4. holes \cup {"unread"} \subseteq Holes /\ faults + 1 \in Nat
      BY <3>3 DEF Holes
    <3> QED BY <3>1, <3>2, <3>3, <3>4
  <2>4. RowType' /\ ReqType'
    BY <1>t, <1>4, RowKept DEF Reconcile, ReqType
  <2>5. AgentType' /\ HistoryType'
    BY <1>t, <1>4, <2>1, <2>2, <2>3 DEF Reconcile, AgentType, HistoryType
  <2> QED BY <2>4, <2>5, TypePartsNext
<1> QED BY <1>1, <1>2, <1>3, <1>4

\* A fresh credential set keeps the row and the history typed.
LEMMA ResetType ==
    ASSUME TypeOK, Reset
    PROVE  RowType' /\ revoked' \subseteq Nat /\ minted + 1 \in Nat
<1>1. minted \in Nat /\ NoToken \in Token
  BY DEF TypeOK, Token
<1>2. minted' \in Nat /\ current' \in Nat /\ revoked' \subseteq Nat
  BY <1>1 DEF Reset
<1>3. pending' \in Token /\ previous' \in Token
  BY <1>1 DEF Reset
<1>4. staged' \in BOOLEAN /\ grace' \in BOOLEAN /\ due' \in BOOLEAN
  BY Zenon DEF Reset
<1> QED BY <1>1, <1>2, <1>3, <1>4 DEF RowType

\* The operator's reset and lapsing deadlines keep the types.
LEMMA OperatorType ==
    ASSUME TypeOK, AdminRotate \/ LapsePending \/ LapseGrace \/ FallDue
    PROVE  TypeOK'
<1>t. RowType /\ ReqType /\ AgentType /\ HistoryType
  BY TypeParts
<1>1. CASE AdminRotate
  <2>1. HistoryType'
    BY <1>t, <1>1, ResetType, AgentFields DEF AdminRotate, Event, HistoryType
  <2>2. ReqType'
    BY <1>t, <1>1 DEF AdminRotate, ReqType
  <2> QED BY <1>t, <1>1, <2>1, <2>2, ResetType, AgentKept, TypePartsNext DEF AdminRotate
<1>3. CASE LapsePending \/ LapseGrace \/ FallDue
  <2>1. RowType'
    BY <1>t, <1>3, Zenon DEF LapsePending, LapseGrace, FallDue, RowType
  <2>2. ReqType' /\ UNCHANGED <<agentVars, enroller, historyVars, faults>>
    BY <1>t, <1>3 DEF LapsePending, LapseGrace, FallDue, ReqType
  <2> QED BY <1>t, <2>1, <2>2, AgentKept, HistoryKept, TypePartsNext
<1> QED BY <1>1, <1>3

EnrollerType == [step: {"none", "sent", "checked", "answered"}, token: Token, pend: Token]

\* The enroll command's record, field by field, and the file a save writes.
LEMMA EnrollFields ==
    ASSUME TypeOK
    PROVE  /\ enroller.token \in Token /\ enroller.pend \in Token
           /\ \A t \in Nat, p \in Token : /\ Saved(t, p) \in [auth: Nat, pend: Token]
                                        /\ Saved(t, p).auth = t
                                        /\ Saved(t, p).pend \in {p, disk.pend}
<1>1. enroller.token \in Token /\ enroller.pend \in Token
  BY DEF TypeOK
<1>2. disk.pend \in Token
  BY AgentFields
<1>3. ASSUME NEW t \in Nat, NEW p \in Token
      PROVE  /\ Saved(t, p) \in [auth: Nat, pend: Token]
             /\ Saved(t, p).auth = t /\ Saved(t, p).pend \in {p, disk.pend}
  BY <1>2 DEF Saved
<1> QED BY <1>1, <1>3

\* The enroll command goes on with another token.
LEMMA EnrollerMoves ==
    ASSUME TypeOK, NEW st \in {"checked", "answered"}, NEW t \in Token,
           enroller' = [enroller EXCEPT !.step = st, !.token = t]
    PROVE  /\ enroller' \in EnrollerType
           /\ enroller'.step = st /\ enroller'.token = t /\ enroller'.pend = enroller.pend
<1>1. enroller \in EnrollerType
  BY DEF TypeOK, EnrollerType
<1> QED BY <1>1 DEF EnrollerType

\* The enroll command keeps the types.
LEMMA EnrollType ==
    ASSUME TypeOK, EnrollInv,
           EnrollLoads \/ EnrollChecked \/ EnrollResets \/ EnrollSaves \/ EnrollFails
    PROVE  TypeOK'
<1>t. RowType /\ ReqType /\ AgentType /\ HistoryType /\ NoToken \in Token
  BY TypeParts, AgentFields
<1>n. NoEnroll \in EnrollerType
  BY <1>t DEF NoEnroll, EnrollerType
<1>1. CASE EnrollLoads
  <2>1. enroller' \in EnrollerType
    <3>1. PICK t \in {disk.auth, operator} \ {NoToken} :
              enroller' = [step |-> "sent", token |-> t, pend |-> disk.pend]
      BY <1>1 DEF EnrollLoads
    <3>2. t \in Token /\ disk.pend \in Token
      BY <1>t, AgentFields DEF HistoryType
    <3> QED BY <3>1, <3>2 DEF EnrollerType
  <2>2. HistoryType' /\ ReqType'
    BY <1>t, <1>1, <2>1 DEF EnrollLoads, Event, HistoryType, EnrollerType, ReqType
  <2> QED BY <1>t, <1>1, <2>2, RowKept, AgentKept, TypePartsNext DEF EnrollLoads
<1>2. CASE EnrollChecked
  <2>1. enroller' \in EnrollerType
    BY <1>t, <1>n, <1>2, EnrollerMoves DEF EnrollChecked
  <2>2. HistoryType' /\ ReqType'
    BY <1>t, <1>2, <2>1 DEF EnrollChecked, HistoryType, EnrollerType, historyVars, ReqType
  <2> QED BY <1>t, <1>2, <2>2, RowKept, AgentKept, TypePartsNext DEF EnrollChecked
<1>3. CASE EnrollResets
  <2>0. minted + 1 \in Token
    BY <1>3, ResetType, AgentFields DEF EnrollResets
  <2>1. enroller' \in EnrollerType
    BY <1>3, <2>0, EnrollerMoves DEF EnrollResets
  <2>2. HistoryType' /\ ReqType'
    BY <1>t, <1>3, <2>1, ResetType DEF EnrollResets, HistoryType, EnrollerType, ReqType
  <2> QED BY <1>t, <1>3, <2>2, ResetType, AgentKept, TypePartsNext DEF EnrollResets
<1>4. CASE EnrollSaves
  <2>1. disk' \in [auth: Nat, pend: Token]
    BY <1>4, EnrollFields DEF EnrollSaves, EnrollInv
  <2>2. AgentType' /\ HistoryType' /\ ReqType'
    BY <1>t, <1>n, <1>4, <2>1 DEF EnrollSaves, AgentType, HistoryType, EnrollerType,
                                    historyVars, ReqType
  <2> QED BY <1>t, <1>4, <2>2, RowKept, TypePartsNext DEF EnrollSaves
<1>5. CASE EnrollFails
  <2>1. holes' \subseteq Holes
    BY <1>t, <1>5 DEF EnrollFails, HistoryType, Holes
  <2>2. HistoryType' /\ ReqType'
    BY <1>t, <1>n, <1>5, <2>1 DEF EnrollFails, Fault, HistoryType, EnrollerType, ReqType
  <2> QED BY <1>t, <1>5, <2>2, RowKept, AgentKept, TypePartsNext DEF EnrollFails
<1> QED BY <1>1, <1>2, <1>3, <1>4, <1>5

\* Agent restarts and configuration saves keep the types.
LEMMA ProcessType ==
    ASSUME TypeOK, Restart \/ RevealForSave \/ SaveTo
    PROVE  TypeOK'
<1>t. RowType /\ ReqType /\ AgentType /\ HistoryType
  BY TypeParts
<1>1. CASE Restart
  <2>0. worker' \in [step: WorkerSteps, token: Token]
    BY <1>1, AgentFields, WorkFacts DEF Restart, WorkerSteps
  <2>3. retry' \in BOOLEAN
    BY <1>1, Zenon DEF Restart
  <2>1. ReqType' /\ AgentType'
    BY <1>t, <1>1, <2>0, <2>3, BootFacts, AgentFields DEF Restart, AgentType
  <2>2. HistoryType'
    BY <1>t, <1>1 DEF Restart, Fault, HistoryType, historyVars
  <2> QED BY <1>t, <1>1, <2>1, <2>2, RowKept, TypePartsNext DEF Restart
<1>2. CASE RevealForSave
  <2>1. AgentType' /\ HistoryType' /\ ReqType'
    BY <1>t, <1>2, AgentFields DEF RevealForSave, Event, AgentType, HistoryType, ReqType
  <2> QED BY <1>t, <1>2, <2>1, RowKept, TypePartsNext DEF RevealForSave
<1>3. CASE SaveTo
  <2>1. saver \in Nat
    BY <1>3, <1>t DEF SaveTo, AgentType, Token
  <2>2. disk' \in [auth: Nat, pend: Token]
    BY <1>t, <1>3, <2>1, EnrollFields DEF SaveTo, AgentType
  <2>3. AgentType'
    BY <1>t, <1>3, <2>2, AgentFields DEF SaveTo, AgentType
  <2>4. HistoryType' /\ ReqType'
    BY <1>t, <1>3 DEF SaveTo, HistoryType, Holes, ReqType
  <2> QED BY <1>t, <1>3, <2>3, <2>4, RowKept, TypePartsNext DEF SaveTo
<1> QED BY <1>1, <1>2, <1>3

\* The type invariant is inductive, one group of actions per case.
LEMMA TypeInductive ==
    ASSUME TypeOK, ControlInv, EnrollInv, [Next]_vars
    PROVE  TypeOK'
<1>1. CASE UNCHANGED vars
  BY <1>1 DEF vars, rowVars, agentVars, historyVars, TypeOK
<1>2. CASE Worker
  BY <1>2, WorkerSendType, WorkerReceiveType, WorkerDiskType DEF Worker
<1>3. CASE Loop
  BY <1>3, WorkerSendType, WorkerReceiveType DEF Loop
<1> QED BY <1>1, <1>2, <1>3, ServerType, WorkerReceiveType, ProcessType, OperatorType,
           EnrollType DEF Next

-----------------------------------------------------------------------------
(* Control.                                                                *)

\* A request the worker does not wait for, or no longer.
Ownerless(r) == Busy(r) => req[r].from # "worker"

TokenHeld ==
    worker.step \in {"stage", "confirm", "confirming", "promote", "swap"} => worker.token \in Nat

\* One slot changes, and not who waits for it.
LEMMA ControlAtSlot ==
    ASSUME TypeOK, ControlInv, NEW r \in Requests, Others(r), UNCHANGED worker,
           Busy(r)' => ReqControl(r)',
           Busy(r)' /\ req'[r].from = "worker" => Busy(r) /\ req[r].from = "worker"
    PROVE  ControlInv'
<1>1. \A s \in Requests : s # r => req'[s] = req[s]
  BY DEF Others
<1>2. ASSUME NEW s \in Requests, Busy(s)' PROVE ReqControl(s)'
  <2>1. CASE s = r
    BY <1>2, <2>1
  <2>2. CASE s # r
    BY <1>1, <1>2, <2>2 DEF ControlInv, Busy, ReqControl, Answered
  <2> QED BY <2>1, <2>2
<1>3. ASSUME NEW s \in Requests, NEW t \in Requests, Busy(s)', Busy(t)',
             req'[s].from = "worker", req'[t].from = "worker"
      PROVE  s = t
  <2>1. Busy(s) /\ req[s].from = "worker"
    BY <1>1, <1>3 DEF Busy
  <2>2. Busy(t) /\ req[t].from = "worker"
    BY <1>1, <1>3 DEF Busy
  <2> QED BY <2>1, <2>2 DEF ControlInv
<1> QED BY <1>2, <1>3 DEF ControlInv

\* The worker goes on, waiting for no request: it keeps what it knows of the others.
LEMMA ControlUnwaited ==
    ASSUME TypeOK, ControlInv, TokenHeld',
           \A s \in Requests : Ownerless(s)' /\ (Busy(s)' => req'[s] = req[s] \/ AbandonedFrom(s))
    PROVE  ControlInv'
<1>1. ASSUME NEW s \in Requests, Busy(s)' PROVE ReqControl(s)'
  <2>1. Ownerless(s)' /\ (req'[s] = req[s] \/ AbandonedFrom(s))
    BY <1>1
  <2>2. CASE req'[s] = req[s]
    BY <1>1, <2>1, <2>2 DEF ControlInv, Busy, Ownerless, ReqControl, Answered
  <2>3. CASE AbandonedFrom(s)
    <3>1. req'[s] # Free
      BY <1>1 DEF Busy, Free
    <3>2. Busy(s) /\ ReqControl(s)
      BY <2>3, <3>1 DEF AbandonedFrom, ControlInv, Busy
    <3> QED BY <2>3, <3>1, <3>2 DEF AbandonedFrom, ReqControl, Answered
  <2> QED BY <2>1, <2>2, <2>3
<1> QED BY <1>1 DEF ControlInv, Ownerless, TokenHeld

\* When the worker is at none of its waits, no request is waited for by it.
LEMMA NobodyWaits ==
    ASSUME ControlInv, worker.step \notin {"rotating", "confirming"}, NEW s \in Requests
    PROVE  Ownerless(s)
BY DEF ControlInv, ReqControl, Ownerless

\* What every handler step does to the requests keeps the worker paired with its request.
LEMMA HandlesControl ==
    ASSUME TypeOK, ControlInv, NEW r \in Requests, Busy(r), Handles(r), UNCHANGED worker
    PROVE  ControlInv'
<1>0. ReqControl(r) /\ NoToken \in Token
  BY AgentFields DEF ControlInv
<1>1. ASSUME NEW a \in {"ok", "rotate", "confirm", "refused", "conflict"}, Answer(r, a, NoToken),
             req[r].op = "rotate" => a # "ok"
      PROVE  ControlInv'
  <2>1. CASE req[r].from = "nobody"
    <3>1. Others(r) /\ req'[r] = Free
      BY <1>0, <1>1, <2>1, AnswerFacts
    <3> QED BY <3>1, ControlAtSlot DEF Busy, Free
  <2>2. CASE req[r].from # "nobody"
    <3>1. /\ Others(r) /\ req'[r].op = req[r].op /\ req'[r].from = req[r].from
          /\ req'[r].token = req[r].token /\ req'[r].step = "answered" /\ req'[r].answer = a
      BY <1>0, <1>1, <2>2, AnswerFacts
    <3>2. ReqControl(r)'
      BY <1>0, <1>1, <2>2, <3>1 DEF ReqControl, Answered
    <3> QED BY <3>1, <3>2, ControlAtSlot
  <2> QED BY <2>1, <2>2
<1>2. ASSUME NEW st \in {"update", "read"}, NEW m \in {"none", "current", "pending", "previous"},
             Advances(r, st, m)
      PROVE  ControlInv'
  <2>1. /\ Others(r) /\ req'[r].op = req[r].op /\ req'[r].from = req[r].from
        /\ req'[r].token = req[r].token /\ req'[r].step = st
    BY <1>2, AdvanceFacts
  <2>2. ReqControl(r)'
    BY <1>0, <2>1 DEF ReqControl, Answered
  <2> QED BY <2>1, <2>2, ControlAtSlot
<1>3. CASE /\ GoPromote(r) /\ pending \in Nat
           /\ \/ req[r].op = "confirm" /\ pending = req[r].token
              \/ req[r].op = "heartbeat" /\ req[r].match = "pending"
  <2>1. /\ Others(r) /\ req'[r].op = req[r].op /\ req'[r].from = req[r].from
        /\ req'[r].token = req[r].token /\ req'[r].step = "promote" /\ req'[r].target = pending
    BY <1>3, GoPromoteFacts
  <2>2. ReqControl(r)'
    BY <1>0, <1>3, <2>1 DEF ReqControl, Answered
  <2> QED BY <2>1, <2>2, ControlAtSlot
<1> QED BY <1>1, <1>2, <1>3 DEF Handles

\* A handler that answers with a token has one.
LEMMA AnswersControl ==
    ASSUME TypeOK, ControlInv, NEW r \in Requests, Busy(r), UNCHANGED worker, NEW t \in Token,
           NEW a \in {"ok", "rotate", "confirm", "refused", "conflict"}, Answer(r, a, t),
           req[r].op = "rotate" /\ a = "ok" => t \in Nat
    PROVE  ControlInv'
<1>0. ReqControl(r)
  BY DEF ControlInv
<1>1. CASE req[r].from = "nobody"
  <2>1. Others(r) /\ req'[r] = Free
    BY <1>1, AnswerFacts
  <2> QED BY <2>1, ControlAtSlot DEF Busy, Free
<1>2. CASE req[r].from # "nobody"
  <2>1. /\ Others(r) /\ req'[r].op = req[r].op /\ req'[r].from = req[r].from
        /\ req'[r].token = req[r].token /\ req'[r].step = "answered" /\ req'[r].answer = a
        /\ req'[r].target = t
    BY <1>2, AnswerFacts
  <2>2. ReqControl(r)'
    BY <1>0, <1>2, <2>1 DEF ReqControl, Answered
  <2> QED BY <2>1, <2>2, ControlAtSlot
<1> QED BY <1>1, <1>2

\* Server steps keep the worker paired with its request.
LEMMA ServerControl ==
    ASSUME TypeOK, ControlInv, NEW r \in Requests, Server(r) \/ HandlerFails(r)
    PROVE  ControlInv'
<1> USE DEF At
<1>t. NoToken \in Token /\ minted \in Nat
  BY AgentFields DEF TypeOK
<1>1. CASE Authenticate(r) \/ ReadConfirm(r) \/ ReadHeartbeat(r) \/ HandlerFails(r)
  <2>1. UNCHANGED worker
    BY <1>1 DEF Authenticate, ReadConfirm, ReadHeartbeat, HandlerFails, agentVars
  <2> QED BY <1>1, <2>1, HandlerSteps, HandlesControl
<1>2. CASE Stage(r)
  <2>1. Busy(r) /\ UNCHANGED worker
    BY <1>2 DEF Stage, Busy, agentVars
  <2>2. CASE Answer(r, "ok", minted + 1)
    <3>1. minted + 1 \in Nat /\ minted + 1 \in Token
      BY <1>t DEF Token
    <3> QED BY <2>1, <2>2, <3>1, AnswersControl
  <2>3. CASE Answer(r, "conflict", NoToken)
    BY <1>t, <2>1, <2>3, AnswersControl
  <2> QED BY <1>2, <2>2, <2>3 DEF Stage
<1>3. CASE Promote(r)
  <2>1. Busy(r) /\ UNCHANGED worker
    BY <1>3 DEF Promote, Busy, agentVars
  <2>2. req[r].op # "rotate"
    BY <1>3, <2>1 DEF Promote, ControlInv, ReqControl
  <2> QED BY <1>t, <1>3, <2>1, <2>2, AnswersControl DEF Promote
<1> QED BY <1>1, <1>2, <1>3 DEF Server

\* The request a worker sends is the only one it waits for.
LEMMA SendControl ==
    ASSUME TypeOK, ControlInv, NEW op \in {"rotate", "confirm", "heartbeat"},
           NEW from \in {"worker", "loop"}, NEW t \in Nat, Send(op, from, t), TokenHeld',
           \/ from = "loop" /\ op = "heartbeat" /\ UNCHANGED worker
           \/ /\ from = "worker" /\ worker.step \notin {"rotating", "confirming"}
              /\ \/ op = "rotate" /\ worker'.step = "rotating"
                 \/ op = "confirm" /\ worker'.step = "confirming" /\ worker'.token = t
    PROVE  ControlInv'
<1>1. PICK r \in Requests :
        /\ Others(r) /\ req[r] = Free
        /\ req'[r].op = op /\ req'[r].from = from /\ req'[r].token = t
        /\ req'[r].step = "auth"
  BY SendFacts
<1>2. ReqControl(r)'
  BY <1>1 DEF ReqControl, Answered
<1>3. CASE from = "loop" /\ UNCHANGED worker
  BY <1>1, <1>2, <1>3, ControlAtSlot
<1>4. CASE from = "worker" /\ worker.step \notin {"rotating", "confirming"}
  <2>1. \A s \in Requests : s # r => req'[s] = req[s] /\ Ownerless(s)
    BY <1>1, <1>4, NobodyWaits DEF Others
  <2>2. ASSUME NEW s \in Requests, s # r, Busy(s)' PROVE ReqControl(s)' /\ req'[s].from # "worker"
    BY <2>1, <2>2 DEF ControlInv, ReqControl, Answered, Busy, Ownerless
  <2> QED BY <1>2, <2>2 DEF ControlInv, TokenHeld
<1> QED BY <1>3, <1>4

\* Sending takes a free slot, and the worker has no other request in flight.
LEMMA AgentControl ==
    ASSUME TypeOK, ControlInv, Rotate \/ Confirm \/ Heartbeat
    PROVE  ControlInv'
<1>t. mem \in Nat /\ NoToken \in Token /\ worker.token \in Token
  BY AgentFields DEF TypeOK
<1>1. CASE Rotate
  <2>1. worker'.step = "rotating" /\ TokenHeld'
    BY <1>t, <1>1, WorkFacts DEF Rotate, WorkerSteps, TokenHeld
  <2> QED BY <1>t, <1>1, <2>1, SendControl DEF Rotate
<1>2. CASE Confirm
  <2>1. worker.token \in Nat
    BY <1>2 DEF Confirm, ControlInv
  <2>2. worker'.step = "confirming" /\ worker'.token = worker.token
    BY <1>t, <1>2, WorkFacts DEF Confirm, WorkerSteps
  <2>3. TokenHeld'
    BY <2>1, <2>2 DEF TokenHeld
  <2> QED BY <1>2, <2>1, <2>2, <2>3, SendControl DEF Confirm
<1>3. CASE Heartbeat
  <2>1. UNCHANGED worker
    BY <1>3 DEF Heartbeat, agentVars
  <2>2. TokenHeld'
    BY <2>1 DEF TokenHeld, ControlInv
  <2> QED BY <1>t, <1>3, <2>1, <2>2, SendControl DEF Heartbeat
<1> QED BY <1>1, <1>2, <1>3

\* An answer to the worker is to its only request.
LEMMA WorkersAnswer ==
    ASSUME TypeOK, ControlInv, NEW r \in Requests, NEW op \in {"rotate", "confirm"},
           At(r, op, "answered")
    PROVE  /\ Busy(r) /\ req[r].from = "worker"
           /\ worker.step = IF op = "rotate" THEN "rotating" ELSE "confirming"
           /\ op = "confirm" => req[r].token = worker.token
           /\ \A s \in Requests : s # r => Ownerless(s)
<1>1. Busy(r) /\ ReqControl(r)
  BY DEF At, Busy, ControlInv
<1>2. req[r].from = "worker"
  <2>1. req[r].from \in {"worker", "loop", "nobody"}
    BY <1>1, SlotFacts DEF Request
  <2> QED BY <1>1, <2>1 DEF At, ReqControl
<1>3. \A s \in Requests : s # r => Ownerless(s)
  BY <1>1, <1>2 DEF ControlInv, Ownerless
<1> QED BY <1>1, <1>2, <1>3 DEF At, ReqControl

\* What an answered heartbeat makes of the worker.
LEMMA HeartbeatStarts ==
    ASSUME NEW r \in Requests, HeartbeatAnswered(r)
    PROVE  \/ UNCHANGED worker
           \/ /\ worker.step = "idle" /\ worker'.token = NoToken
              /\ worker'.step \in {"rotate", "reconcile", "idle"}
BY DEF HeartbeatAnswered, Work

\* Receiving an answer frees the request's slot.
LEMMA ReceiveControl ==
    ASSUME TypeOK, ControlInv, NEW r \in Requests,
           RotateAnswered(r) \/ ConfirmAnswered(r) \/ HeartbeatAnswered(r)
    PROVE  ControlInv'
<1>t. NoToken \in Token /\ worker.token \in Token
  BY AgentFields
<1>1. ASSUME NEW op \in {"rotate", "confirm"}, Receive(r, op), TokenHeld' PROVE ControlInv'
  <2>1. Others(r) /\ req'[r] = Free /\ At(r, op, "answered")
    BY <1>1, ReceiveFacts DEF Receive
  <2>2. \A s \in Requests : s # r => Ownerless(s)
    BY <2>1, WorkersAnswer
  <2>3. ASSUME NEW s \in Requests PROVE Ownerless(s)' /\ (Busy(s)' => req'[s] = req[s])
    BY <2>1, <2>2 DEF Ownerless, Busy, Others, Free
  <2> QED BY <1>1, <2>3, ControlUnwaited
<1>2. CASE RotateAnswered(r)
  <2>1. req[r].answer = "ok" => req[r].target \in Nat
    BY <1>2, RotateTarget DEF RotateAnswered, Receive
  <2>2. TokenHeld'
    BY <1>2, <2>1 DEF RotateAnswered, Work, TokenHeld
  <2> QED BY <1>1, <1>2, <2>2 DEF RotateAnswered
<1>3. CASE ConfirmAnswered(r)
  <2>1. worker.step = "confirming"
    BY <1>3, WorkersAnswer DEF ConfirmAnswered, Receive
  <2>2. worker.token \in Nat
    BY <2>1 DEF ControlInv
  <2>3. TokenHeld'
    BY <1>3, <2>2 DEF ConfirmAnswered, Work, TokenHeld
  <2> QED BY <1>1, <1>3, <2>3 DEF ConfirmAnswered
<1>4. CASE HeartbeatAnswered(r)
  <2>1. Others(r) /\ req'[r] = Free
    BY <1>4, ReceiveFacts DEF HeartbeatAnswered
  <2>2. CASE UNCHANGED worker
    BY <2>1, <2>2, ControlAtSlot DEF Busy, Free
  <2>3. CASE worker.step = "idle" /\ worker'.step \in {"rotate", "reconcile", "idle"}
    <3>1. TokenHeld'
      BY <2>3 DEF TokenHeld
    <3>2. ASSUME NEW s \in Requests PROVE Ownerless(s)' /\ (Busy(s)' => req'[s] = req[s])
      BY <2>1, <2>3, NobodyWaits DEF Ownerless, Busy, Others, Free
    <3> QED BY <3>1, <3>2, ControlUnwaited
  <2> QED BY <1>4, <2>2, <2>3, HeartbeatStarts
<1> QED BY <1>2, <1>3, <1>4

\* A request given up, or all of them when the process dies.
LEMMA AbandonedUnowned ==
    ASSUME NEW s \in Requests, AbandonedFrom(s)
    PROVE  Ownerless(s)'
BY DEF AbandonedFrom, Ownerless, Busy, Free

\* Giving up leaves the request without its caller.
LEMMA GiveUpControl ==
    ASSUME TypeOK, ControlInv, NEW r \in Requests, GiveUp(r)
    PROVE  ControlInv'
<1>1. req' = [req EXCEPT ![r] = Abandoned(r)]
  BY DEF GiveUp
<1>2. req'[r] = Abandoned(r) /\ Others(r)
  BY <1>1 DEF TypeOK, Others
<1>3. AbandonedFrom(r)
  BY <1>2, AbandonedFacts
<1>4. CASE req[r].from = "worker"
  <2>1. Busy(r) /\ Work("idle", NoToken)
    BY <1>4 DEF GiveUp, Busy
  <2>2. TokenHeld'
    BY <2>1 DEF Work, TokenHeld
  <2>3. \A s \in Requests : s # r => Ownerless(s)
    BY <1>4, <2>1 DEF ControlInv, Ownerless
  <2>4. ASSUME NEW s \in Requests
        PROVE  Ownerless(s)' /\ (Busy(s)' => req'[s] = req[s] \/ AbandonedFrom(s))
    BY <1>2, <1>3, <2>3, AbandonedUnowned DEF Ownerless, Busy, Others
  <2> QED BY <2>2, <2>4, ControlUnwaited
<1>5. CASE req[r].from # "worker"
  <2>1. UNCHANGED worker /\ Busy(r) /\ ReqControl(r)
    BY <1>5 DEF GiveUp, Busy, ControlInv
  <2>2. Busy(r)' => ReqControl(r)' /\ req'[r].from # "worker"
    BY <1>3, <2>1 DEF AbandonedFrom, Busy, Free, ReqControl, Answered
  <2> QED BY <1>2, <2>1, <2>2, ControlAtSlot
<1> QED BY <1>4, <1>5

\* The agent's writes to disk and memory keep the control invariant.
LEMMA DiskControl ==
    ASSUME TypeOK, ControlInv, StageOnDisk \/ PromoteOnDisk \/ SwapMemory \/ Reconcile
    PROVE  ControlInv'
<1>1. UNCHANGED req /\ worker.step \notin {"rotating", "confirming"}
  BY DEF StageOnDisk, PromoteOnDisk, SwapMemory, Reconcile
<1>2. TokenHeld'
  BY AgentFields DEF StageOnDisk, PromoteOnDisk, SwapMemory, Reconcile, Work, TokenHeld, ControlInv, Token
<1>3. ASSUME NEW s \in Requests PROVE Ownerless(s)' /\ req'[s] = req[s]
  BY <1>1, NobodyWaits DEF Ownerless, Busy
<1> QED BY <1>2, <1>3, ControlUnwaited

\* A booting agent abandons every request of its earlier life.
LEMMA RestartControl ==
    ASSUME TypeOK, ControlInv, Restart
    PROVE  ControlInv'
<1>1. \A s \in Requests : AbandonedFrom(s)
  BY BootFacts DEF Restart
<1>2. TokenHeld'
  BY DEF Restart, Work, TokenHeld
<1> QED BY <1>1, <1>2, AbandonedUnowned, ControlUnwaited

\* A step that leaves requests and worker alone keeps the control invariant.
LEMMA ControlFrame ==
    ASSUME ControlInv, UNCHANGED <<req, worker>>
    PROVE  ControlInv'
BY DEF ControlInv, ReqControl, Busy, Answered

\* The control invariant is inductive.
LEMMA ControlInductive ==
    ASSUME TypeOK, ControlInv, [Next]_vars
    PROVE  ControlInv'
<1>1. CASE UNCHANGED vars
  BY <1>1, ControlFrame DEF vars, agentVars
<1>2. CASE Worker
  BY <1>2, AgentControl, ReceiveControl, DiskControl DEF Worker
<1>3. CASE Loop
  BY <1>3, AgentControl, ReceiveControl DEF Loop
<1>5. CASE RevealForSave \/ SaveTo
  BY <1>5, ControlFrame DEF RevealForSave, SaveTo
<1>6. CASE AdminRotate \/ LapsePending \/ LapseGrace \/ FallDue
  BY <1>6, ControlFrame DEF AdminRotate, LapsePending, LapseGrace, FallDue, agentVars
<1>7. CASE EnrollLoads \/ EnrollChecked \/ EnrollResets \/ EnrollSaves \/ EnrollFails
  BY <1>7, ControlFrame
     DEF EnrollLoads, EnrollChecked, EnrollResets, EnrollSaves, EnrollFails, agentVars
<1> QED BY <1>1, <1>2, <1>3, <1>5, <1>6, <1>7, ServerControl, GiveUpControl, RestartControl DEF Next

-----------------------------------------------------------------------------
(* The row.                                                                *)

\* What a step can do to the row: nothing but a lapse, stage a new token, promote the
\* one staged that a request holds, or replace everything.
Lapses ==
    /\ UNCHANGED <<current, pending, previous, minted, revoked>>
    /\ staged' => staged
Stages ==
    /\ UNCHANGED <<current, previous, revoked>>
    /\ minted' = minted + 1 /\ pending' = minted + 1
Promotes ==
    /\ UNCHANGED <<minted, revoked>>
    /\ pending \in Nat /\ previous' = current /\ current' = pending /\ pending' = NoToken
Resets ==
    /\ minted' = minted + 1 /\ current' = minted + 1
    /\ pending' = NoToken /\ previous' = NoToken /\ revoked' = 0..minted
RowMoves == Lapses \/ Stages \/ Promotes \/ Resets

\* Every step moves the device row in one of the listed ways.
LEMMA EveryRowMove ==
    ASSUME TypeOK, ControlInv, [Next]_vars
    PROVE  RowMoves
<1> USE DEF rowVars, agentVars, historyVars
<1>1. CASE UNCHANGED <<rowVars, revoked>>
  BY <1>1, Zenon DEF RowMoves, Lapses
<1>2. ASSUME NEW r \in Requests, Server(r) \/ HandlerFails(r) \/ GiveUp(r) PROVE RowMoves
  <2>1. CASE Authenticate(r) \/ ReadConfirm(r) \/ ReadHeartbeat(r) \/ HandlerFails(r) \/ GiveUp(r)
    BY <1>1, <2>1 DEF Authenticate, ReadConfirm, ReadHeartbeat, HandlerFails, GiveUp
  <2>2. CASE Stage(r)
    <3>1. CASE UNCHANGED <<minted, pending, staged>>
      BY <1>1, <2>2, <3>1 DEF Stage
    <3>2. CASE minted' = minted + 1 /\ pending' = minted + 1
      BY <2>2, <3>2, Zenon DEF Stage, RowMoves, Stages
    <3> QED BY <2>2, <3>1, <3>2 DEF Stage
  <2>3. CASE Promote(r)
    <3>1. req[r].target \in Nat
      BY <2>3 DEF Promote, ControlInv, ReqControl, Busy
    <3>2. CASE pending = req[r].target /\ current = req[r].expected
      BY <2>3, <3>1, <3>2, Zenon DEF Promote, RowMoves, Promotes
    <3>3. CASE ~(pending = req[r].target /\ current = req[r].expected)
      BY <1>1, <2>3, <3>3 DEF Promote
    <3> QED BY <3>2, <3>3
  <2> QED BY <1>2, <2>1, <2>2, <2>3 DEF Server
<1>3. CASE Worker
  BY <1>1, <1>3 DEF Worker, Rotate, StageOnDisk, Confirm, PromoteOnDisk, SwapMemory, Reconcile,
                    RotateAnswered, ConfirmAnswered
<1>4. CASE Loop
  BY <1>1, <1>4 DEF Loop, Heartbeat, HeartbeatAnswered
<1>5. CASE Restart \/ RevealForSave \/ SaveTo
  BY <1>1, <1>5 DEF Restart, RevealForSave, SaveTo
<1>e. CASE EnrollLoads \/ EnrollChecked \/ EnrollSaves \/ EnrollFails
  BY <1>1, <1>e DEF EnrollLoads, EnrollChecked, EnrollSaves, EnrollFails
<1>6. CASE Reset
  BY <1>6, Zenon DEF Reset, RowMoves, Resets
<1>7. CASE AdminRotate \/ EnrollResets
  BY <1>6, <1>7 DEF AdminRotate, EnrollResets
<1>8. CASE LapsePending \/ LapseGrace \/ FallDue
  BY <1>8, Zenon DEF LapsePending, LapseGrace, FallDue, RowMoves, Lapses
<1>9. CASE UNCHANGED vars
  BY <1>1, <1>9 DEF vars
<1> QED BY <1>2, <1>3, <1>4, <1>5, <1>e, <1>7, <1>8, <1>9 DEF Next

\* Tokens are minted one at a time.
LEMMA MintedGrows ==
    ASSUME TypeOK, RowMoves
    PROVE  /\ minted \in Nat /\ minted' \in Nat /\ minted' \in {minted, minted + 1}
           /\ \A t : Minted(t) => Minted(t)'
<1>1. minted \in Nat /\ minted' \in {minted, minted + 1}
  BY DEF TypeOK, RowMoves, Lapses, Stages, Promotes, Resets
<1> QED BY <1>1 DEF Minted

\* Under the listed row moves no revoked token becomes acceptable again.
LEMMA RevokedInductive ==
    ASSUME TypeOK, MintedInv, RevokedInv, RowMoves
    PROVE  RevokedInv'
<1>1. minted \in Nat /\ current \in Nat /\ revoked \subseteq Nat /\ NoToken \notin Nat /\ pending \in Token
  BY AgentFields DEF TypeOK
<1>2. CASE Lapses
  BY <1>2 DEF Lapses, RevokedInv
<1>3. CASE Stages
  BY <1>1, <1>3 DEF Stages, RevokedInv
<1>4. CASE Promotes
  BY <1>1, <1>4 DEF Promotes, RevokedInv
<1>5. CASE Resets
  BY <1>1, <1>5 DEF Resets, RevokedInv
<1> QED BY <1>2, <1>3, <1>4, <1>5 DEF RowMoves

\* Under the listed row moves the row holds no token later than the last one minted.
LEMMA RowMinted ==
    ASSUME TypeOK, MintedInv, RowMoves
    PROVE  current' <= minted' /\ pending' \in {NoToken, minted'} /\ pending' # current'
<1>1. minted \in Nat /\ current \in Nat /\ NoToken \notin Nat /\ pending \in Token
  BY AgentFields DEF TypeOK
<1>2. CASE Lapses
  BY <1>2 DEF Lapses, MintedInv
<1>3. CASE Stages
  BY <1>1, <1>3 DEF Stages, MintedInv
<1>4. CASE Promotes
  BY <1>1, <1>4 DEF Promotes, MintedInv
<1>5. CASE Resets
  BY <1>1, <1>5 DEF Resets, MintedInv
<1> QED BY <1>2, <1>3, <1>4, <1>5 DEF RowMoves

\* What the agent holds was minted.
AgentMinted ==
    /\ mem <= minted /\ disk.auth <= minted
    /\ Minted(disk.pend) /\ Minted(loaded) /\ Minted(saver) /\ Minted(worker.token)
    /\ Minted(enroller.pend)
SlotMinted(r) == Busy(r) => req[r].token <= minted /\ Minted(req[r].target)

\* The minting invariant, split into the row, the agent and the request slots.
LEMMA MintedParts ==
    MintedInv <=> /\ current <= minted /\ pending \in {NoToken, minted} /\ pending # current
                  /\ AgentMinted /\ \A r \in Requests : SlotMinted(r)
BY DEF MintedInv, AgentMinted, SlotMinted

\* The same split of the next state.
LEMMA MintedPartsNext ==
    MintedInv' <=> /\ current' <= minted' /\ pending' \in {NoToken, minted'} /\ pending' # current'
                   /\ AgentMinted' /\ \A r \in Requests : SlotMinted(r)'
BY DEF MintedInv, AgentMinted, SlotMinted

\* Nothing is forgotten of what was minted.
LEMMA AgentMintedKept ==
    ASSUME TypeOK, AgentMinted, RowMoves, UNCHANGED <<agentVars, enroller>>
    PROVE  AgentMinted'
<1>1. mem \in Nat /\ disk.auth \in Nat
  BY AgentFields DEF TypeOK
<1> QED BY <1>1, MintedGrows DEF AgentMinted, agentVars

\* A slot that stays, is freed or is abandoned names only minted tokens.
LEMMA SlotMintedKept ==
    ASSUME TypeOK, RowMoves, NEW r \in Requests, SlotMinted(r),
           \/ req'[r] = req[r] \/ req'[r] = Free \/ AbandonedFrom(r)
           \/ /\ req'[r].token = req[r].token /\ Busy(r)
              /\ req'[r].target \in Nat => req'[r].target <= minted'
    PROVE  SlotMinted(r)'
<1>1. Busy(r) => req[r].token \in Nat
  BY SlotFacts DEF Request
<1>2. CASE req'[r] = Free
  BY <1>2 DEF SlotMinted, Busy, Free
<1>3. ASSUME Busy(r), req'[r].token = req[r].token,
             req'[r].target = req[r].target \/ (req'[r].target \in Nat => req'[r].target <= minted')
      PROVE  SlotMinted(r)'
  <2>1. req[r].token <= minted /\ Minted(req[r].target)
    BY <1>3 DEF SlotMinted
  <2> QED BY <1>1, <1>3, <2>1, MintedGrows DEF SlotMinted, Minted
<1>4. CASE req'[r] = req[r]
  BY <1>3, <1>4 DEF SlotMinted, Busy
<1>5. CASE AbandonedFrom(r)
  BY <1>2, <1>3, <1>5 DEF AbandonedFrom, Busy
<1> QED BY <1>2, <1>3, <1>4, <1>5

\* Handlers keep a request's token, and answer with a token that was minted.
LEMMA AnswerMinted ==
    ASSUME TypeOK, RowMoves, \A r \in Requests : SlotMinted(r), NEW r \in Requests, Busy(r),
           NEW t \in Token, t \in Nat => t <= minted',
           NEW a \in {"ok", "rotate", "confirm", "refused", "conflict"}, Answer(r, a, t)
    PROVE  \A s \in Requests : SlotMinted(s)'
<1>1. Others(r) /\ (req'[r] = Free \/ (req'[r].token = req[r].token /\ req'[r].target = t))
  BY AnswerFacts
<1> QED BY <1>1, SlotMintedKept DEF Others

\* What a handler step writes into a slot was minted.
LEMMA HandlesMinted ==
    ASSUME TypeOK, MintedInv, RowMoves, NEW r \in Requests, Busy(r), Handles(r)
    PROVE  \A s \in Requests : SlotMinted(s)'
<1>0. (\A s \in Requests : SlotMinted(s)) /\ NoToken \in Token /\ NoToken \notin Nat
  BY MintedParts, AgentFields
<1>1. CASE \E a \in {"ok", "rotate", "confirm", "refused", "conflict"} : Answer(r, a, NoToken)
  BY <1>0, <1>1, AnswerMinted
<1>2. ASSUME NEW st \in {"update", "read"}, NEW m \in {"none", "current", "pending", "previous"},
             Advances(r, st, m)
      PROVE  \A s \in Requests : SlotMinted(s)'
  <2>1. Others(r) /\ req'[r].token = req[r].token /\ req'[r].target = req[r].target
    BY <1>2, AdvanceFacts
  <2>2. req[r].target \in Nat => req[r].target <= minted'
    BY <1>0, MintedGrows DEF SlotMinted, Minted
  <2> QED BY <1>0, <2>1, <2>2, SlotMintedKept DEF Others
<1>3. CASE GoPromote(r)
  <2>1. Others(r) /\ req'[r].token = req[r].token /\ req'[r].target = pending
    BY <1>3, GoPromoteFacts
  <2>2. pending \in Nat => pending <= minted'
    BY <1>0, MintedGrows DEF MintedInv
  <2> QED BY <1>0, <2>1, <2>2, SlotMintedKept DEF Others
<1> QED BY <1>1, <1>2, <1>3 DEF Handles

\* Server steps answer with minted tokens only.
LEMMA ServerMinted ==
    ASSUME TypeOK, ControlInv, MintedInv, RowMoves, NEW r \in Requests, Server(r) \/ HandlerFails(r)
    PROVE  AgentMinted' /\ \A s \in Requests : SlotMinted(s)'
<1> USE DEF At
<1>0. AgentMinted /\ (\A s \in Requests : SlotMinted(s)) /\ NoToken \in Token /\ NoToken \notin Nat
  BY MintedParts, AgentFields
<1>1. CASE Authenticate(r) \/ ReadConfirm(r) \/ ReadHeartbeat(r) \/ HandlerFails(r)
  <2>1. UNCHANGED <<agentVars, enroller>>
    BY <1>1 DEF Authenticate, ReadConfirm, ReadHeartbeat, HandlerFails
  <2> QED BY <1>0, <1>1, <2>1, HandlerSteps, HandlesMinted, AgentMintedKept
<1>2. CASE Stage(r)
  <2>1. Busy(r) /\ UNCHANGED <<agentVars, enroller>>
    BY <1>2 DEF Stage, Busy
  <2>2. CASE minted' = minted + 1 /\ Answer(r, "ok", minted + 1)
    <3>1. minted + 1 \in Token /\ minted + 1 <= minted'
      BY <2>2, MintedGrows DEF Token
    <3> QED BY <1>0, <2>1, <2>2, <3>1, AnswerMinted, AgentMintedKept
  <2>3. CASE Answer(r, "conflict", NoToken)
    BY <1>0, <2>1, <2>3, AnswerMinted, AgentMintedKept
  <2> QED BY <1>2, <2>2, <2>3 DEF Stage
<1>3. CASE Promote(r)
  <2>1. Busy(r) /\ UNCHANGED <<agentVars, enroller>>
    BY <1>3 DEF Promote, Busy
  <2> QED BY <1>0, <1>3, <2>1, AnswerMinted, AgentMintedKept DEF Promote
<1> QED BY <1>1, <1>2, <1>3 DEF Server

\* A new request carries a token that was minted.
LEMMA SendMinted ==
    ASSUME TypeOK, RowMoves, \A r \in Requests : SlotMinted(r),
           NEW op \in {"rotate", "confirm", "heartbeat"}, NEW from \in {"worker", "loop"},
           NEW t \in Nat, t <= minted, Send(op, from, t)
    PROVE  \A s \in Requests : SlotMinted(s)'
<1>1. PICK r \in Requests : Others(r) /\ req'[r].token = t /\ req'[r].target = NoToken
  BY SendFacts
<1>2. SlotMinted(r)'
  BY <1>1, MintedGrows, TokenAssumption DEF SlotMinted, Minted
<1> QED BY <1>1, <1>2, SlotMintedKept DEF Others

\* The agent sends only tokens it was given.
LEMMA AgentSendMinted ==
    ASSUME TypeOK, ControlInv, MintedInv, RowMoves, Rotate \/ Confirm \/ Heartbeat
    PROVE  AgentMinted' /\ \A s \in Requests : SlotMinted(s)'
<1>0. AgentMinted /\ (\A s \in Requests : SlotMinted(s)) /\ NoToken \notin Nat /\ mem \in Nat
      /\ disk.auth \in Nat
  BY MintedParts, AgentFields DEF TypeOK
<1>1. CASE Rotate
  <2>1. AgentMinted'
    BY <1>0, <1>1, MintedGrows DEF Rotate, Work, AgentMinted, Minted
  <2> QED BY <1>0, <1>1, <2>1, SendMinted DEF Rotate, AgentMinted
<1>2. CASE Confirm
  <2>1. AgentMinted'
    BY <1>0, <1>2, MintedGrows DEF Confirm, Work, AgentMinted
  <2>2. worker.token \in Nat /\ worker.token <= minted
    BY <1>0, <1>2 DEF Confirm, ControlInv, AgentMinted, Minted
  <2> QED BY <1>0, <1>2, <2>1, <2>2, SendMinted DEF Confirm
<1>3. CASE Heartbeat
  BY <1>0, <1>3, SendMinted, AgentMintedKept DEF Heartbeat, AgentMinted
<1> QED BY <1>1, <1>2, <1>3

\* What the agent learns from an answer was minted.
LEMMA AgentReceiveMinted ==
    ASSUME TypeOK, ControlInv, MintedInv, RowMoves, NEW r \in Requests,
           RotateAnswered(r) \/ ConfirmAnswered(r) \/ HeartbeatAnswered(r) \/ GiveUp(r)
    PROVE  AgentMinted' /\ \A s \in Requests : SlotMinted(s)'
<1>0. AgentMinted /\ (\A s \in Requests : SlotMinted(s)) /\ NoToken \notin Nat /\ mem \in Nat
      /\ disk.auth \in Nat
  BY MintedParts, AgentFields DEF TypeOK
<1>1. \A s \in Requests : SlotMinted(s)'
  <2>1. CASE RotateAnswered(r) \/ ConfirmAnswered(r) \/ HeartbeatAnswered(r)
    BY <1>0, <2>1, ReceiveFacts, SlotMintedKept
       DEF RotateAnswered, ConfirmAnswered, HeartbeatAnswered, Others
  <2>2. CASE GiveUp(r)
    <3>1. req' = [req EXCEPT ![r] = Abandoned(r)]
      BY <2>2 DEF GiveUp
    <3>2. AbandonedFrom(r) /\ Others(r)
      BY <3>1, AbandonedFacts DEF TypeOK, Others
    <3> QED BY <1>0, <3>2, SlotMintedKept DEF Others
  <2> QED BY <2>1, <2>2
<1>2. CASE RotateAnswered(r)
  <2>1. req[r].answer = "ok" => req[r].target \in Nat /\ req[r].target <= minted
    BY <1>0, <1>2, RotateTarget DEF RotateAnswered, Receive, At, SlotMinted, Minted, Busy
  <2>2. CASE req[r].answer = "ok" /\ Work("stage", req[r].target) /\ UNCHANGED <<mem, disk>>
    BY <1>0, <1>1, <1>2, <2>1, <2>2, MintedGrows DEF RotateAnswered, Work, AgentMinted, Minted
  <2>3. CASE /\ req[r].answer = "ok" /\ mem' = req[r].target
             /\ disk' = [disk EXCEPT !.auth = req[r].target] /\ Work("idle", NoToken)
    <3>1. disk'.auth = req[r].target /\ disk'.pend = disk.pend
      BY <2>1, <2>3, AgentFields
    <3> QED BY <1>0, <1>1, <1>2, <2>1, <2>3, <3>1, MintedGrows
            DEF RotateAnswered, Work, AgentMinted, Minted
  <2>4. CASE Work("idle", NoToken) /\ UNCHANGED <<mem, disk>>
    BY <1>0, <1>1, <1>2, <2>4, MintedGrows DEF RotateAnswered, Work, AgentMinted, Minted
  <2> QED BY <1>2, <2>2, <2>3, <2>4 DEF RotateAnswered
<1>3. CASE ConfirmAnswered(r)
  <2>1. disk'.auth = disk.auth /\ (disk'.pend = disk.pend \/ disk'.pend = NoToken)
    BY <1>3, AgentFields DEF ConfirmAnswered
  <2>2. worker'.token \in {worker.token, NoToken}
    BY <1>3 DEF ConfirmAnswered, Work
  <2> QED BY <1>0, <1>1, <1>3, <2>1, <2>2, MintedGrows DEF ConfirmAnswered, AgentMinted, Minted
<1>4. CASE HeartbeatAnswered(r) \/ GiveUp(r)
  <2>1. worker'.token \in {worker.token, NoToken}
    BY <1>4 DEF HeartbeatAnswered, GiveUp, Work
  <2> QED BY <1>0, <1>1, <1>4, <2>1, MintedGrows DEF HeartbeatAnswered, GiveUp, AgentMinted, Minted
<1> QED BY <1>2, <1>3, <1>4

\* The process starts with tokens that were minted.
LEMMA RestartMinted ==
    ASSUME TypeOK, MintedInv, RowMoves, Restart
    PROVE  AgentMinted' /\ \A s \in Requests : SlotMinted(s)'
<1>0. AgentMinted /\ (\A s \in Requests : SlotMinted(s)) /\ NoToken \notin Nat /\ disk.auth \in Nat
  BY MintedParts, AgentFields
<1>1. \A s \in Requests : SlotMinted(s)'
  BY <1>0, BootFacts, SlotMintedKept DEF Restart
<1> QED BY <1>0, <1>1, MintedGrows DEF Restart, Work, AgentMinted, Minted

\* The enroll command loads and saves tokens that were minted.
LEMMA EnrollMinted ==
    ASSUME TypeOK, MintedInv, EnrollInv, RowMoves,
           EnrollLoads \/ EnrollChecked \/ EnrollResets \/ EnrollSaves \/ EnrollFails
    PROVE  AgentMinted' /\ \A s \in Requests : SlotMinted(s)'
<1>0. AgentMinted /\ (\A s \in Requests : SlotMinted(s)) /\ NoToken \notin Nat /\ disk.auth \in Nat
      /\ NoToken \in Token /\ mem \in Nat
  BY MintedParts, AgentFields DEF TypeOK
<1>1. UNCHANGED <<req, mem, loaded, saver, worker>>
  BY DEF EnrollLoads, EnrollChecked, EnrollResets, EnrollSaves, EnrollFails, agentVars
<1>2. \A s \in Requests : SlotMinted(s)'
  BY <1>0, <1>1, SlotMintedKept
<1>3. enroller'.pend \in {enroller.pend, disk.pend, NoToken}
  <2>1. minted + 1 \in Token
    BY DEF TypeOK, Token
  <2>2. CASE EnrollChecked \/ EnrollResets
    <3>1. CASE enroller' = [enroller EXCEPT !.step = "checked", !.token = NoToken]
      BY <1>0, <3>1, EnrollerMoves
    <3>2. CASE enroller' = [enroller EXCEPT !.step = "answered", !.token = minted + 1]
      BY <2>1, <3>2, EnrollerMoves
    <3> QED BY <2>2, <3>1, <3>2 DEF EnrollChecked, EnrollResets, NoEnroll
  <2> QED BY <2>2 DEF EnrollLoads, EnrollSaves, EnrollFails, NoEnroll
<1>4. \A t \in {enroller.pend, disk.pend, loaded, saver, worker.token, NoToken} : Minted(t)'
  BY <1>0, MintedGrows DEF AgentMinted, Minted
<1>5. CASE EnrollSaves
  <2>1. enroller.step = "answered" /\ enroller.token \in Nat /\ enroller.token <= minted
    BY <1>5 DEF EnrollSaves, EnrollInv
  <2>2. disk'.auth = enroller.token /\ disk'.pend \in {enroller.pend, disk.pend}
    BY <1>5, <2>1, EnrollFields DEF EnrollSaves
  <2>3. mem' <= minted' /\ disk'.auth <= minted'
    BY <1>0, <1>1, <2>1, <2>2, MintedGrows DEF AgentMinted
  <2> QED BY <1>1, <1>2, <1>3, <1>4, <2>2, <2>3 DEF AgentMinted
<1>6. CASE EnrollLoads \/ EnrollChecked \/ EnrollResets \/ EnrollFails
  <2>1. disk' = disk
    BY <1>6 DEF EnrollLoads, EnrollChecked, EnrollResets, EnrollFails, agentVars
  <2>2. mem' <= minted' /\ disk'.auth <= minted'
    BY <1>0, <1>1, <2>1, MintedGrows DEF AgentMinted
  <2> QED BY <1>1, <1>2, <1>3, <1>4, <2>1, <2>2 DEF AgentMinted
<1> QED BY <1>5, <1>6

\* What the agent writes to disk and memory was minted.
LEMMA AgentDiskMinted ==
    ASSUME TypeOK, ControlInv, MintedInv, RowMoves,
           \/ StageOnDisk \/ PromoteOnDisk \/ SwapMemory \/ Reconcile
           \/ RevealForSave \/ SaveTo
    PROVE  AgentMinted' /\ \A s \in Requests : SlotMinted(s)'
<1>0. AgentMinted /\ (\A s \in Requests : SlotMinted(s)) /\ NoToken \notin Nat /\ mem \in Nat
      /\ disk.auth \in Nat /\ saver \in Token
  BY MintedParts, AgentFields DEF TypeOK
<1>1. \A s \in Requests : SlotMinted(s)'
  BY <1>0, SlotMintedKept DEF StageOnDisk, PromoteOnDisk, SwapMemory, Reconcile, RevealForSave, SaveTo
<1>2. CASE StageOnDisk
  <2>1. disk'.auth = disk.auth /\ disk'.pend \in {disk.pend, worker.token}
    BY <1>2, AgentFields DEF StageOnDisk
  <2>2. worker'.token \in {worker.token, NoToken}
    BY <1>2 DEF StageOnDisk, Work
  <2> QED BY <1>0, <1>1, <1>2, <2>1, <2>2, MintedGrows DEF StageOnDisk, AgentMinted, Minted
<1>3. CASE PromoteOnDisk
  <2>1. worker.token \in Nat /\ worker.token <= minted
    BY <1>0, <1>3 DEF PromoteOnDisk, ControlInv, AgentMinted, Minted
  <2>2. disk'.auth \in {disk.auth, worker.token} /\ disk'.pend \in {disk.pend, NoToken}
    BY <1>3 DEF PromoteOnDisk
  <2>3. worker'.token = worker.token
    BY <1>3 DEF PromoteOnDisk, Work
  <2> QED BY <1>0, <1>1, <1>3, <2>1, <2>2, <2>3, MintedGrows DEF PromoteOnDisk, AgentMinted, Minted
<1>4. CASE SwapMemory
  <2>1. worker.token \in Nat /\ worker.token <= minted
    BY <1>0, <1>4 DEF SwapMemory, ControlInv, AgentMinted, Minted
  <2> QED BY <1>0, <1>1, <1>4, <2>1, MintedGrows DEF SwapMemory, Work, AgentMinted, Minted
<1>5. CASE Reconcile
  <2>1. worker'.token \in {disk.pend, NoToken}
    BY <1>5 DEF Reconcile, Work
  <2> QED BY <1>0, <1>1, <1>5, <2>1, MintedGrows DEF Reconcile, AgentMinted, Minted
<1>6. CASE RevealForSave
  BY <1>0, <1>1, <1>6, MintedGrows DEF RevealForSave, AgentMinted, Minted
<1>7. CASE SaveTo
  <2>1. disk'.auth = saver /\ disk'.pend \in {loaded, disk.pend} /\ saver \in Nat
    BY <1>0, <1>7 DEF SaveTo, Saved, Token
  <2> QED BY <1>0, <1>1, <1>7, <2>1, MintedGrows DEF SaveTo, AgentMinted, Minted
<1> QED BY <1>2, <1>3, <1>4, <1>5, <1>6, <1>7

\* The minting invariant is inductive.
LEMMA MintedInductive ==
    ASSUME TypeOK, ControlInv, MintedInv, EnrollInv, RowMoves, [Next]_vars
    PROVE  MintedInv'
<1> SUFFICES AgentMinted' /\ \A s \in Requests : SlotMinted(s)'
  BY RowMinted, MintedPartsNext
<1>0. AgentMinted /\ (\A s \in Requests : SlotMinted(s)) /\ NoToken \notin Nat /\ disk.auth \in Nat
  BY MintedParts, AgentFields
<1>1. CASE UNCHANGED <<req, agentVars, enroller>>
  BY <1>0, <1>1, AgentMintedKept, SlotMintedKept
<1>2. CASE UNCHANGED vars \/ AdminRotate \/ LapsePending \/ LapseGrace \/ FallDue
  BY <1>1, <1>2 DEF vars, AdminRotate, LapsePending, LapseGrace, FallDue
<1>3. CASE Worker \/ Loop
  BY <1>3, AgentSendMinted, AgentReceiveMinted, AgentDiskMinted DEF Worker, Loop
<1> QED BY <1>2, <1>3, ServerMinted, AgentReceiveMinted, AgentDiskMinted, RestartMinted,
           EnrollMinted DEF Next

-----------------------------------------------------------------------------
(* Between an enrollment's commit and its save.                            *)

\* What was revoked stays revoked.
LEMMA RevokedGrows ==
    ASSUME TypeOK, RevokedInv, RowMoves
    PROVE  /\ revoked \subseteq revoked'
           /\ \A t : Dead(t) => Dead(t)'
<1>1. revoked \subseteq revoked'
  <2>1. CASE Resets
    <3>1. \A t \in revoked : t \in 0..minted
      BY DEF TypeOK, RevokedInv
    <3> QED BY <2>1, <3>1 DEF Resets
  <2> QED BY <2>1 DEF RowMoves, Lapses, Stages, Promotes
<1> QED BY <1>1 DEF Dead

\* A slot that stays, is freed, abandoned or answered with no new token stays dead.
LEMMA SlotDeadKept ==
    ASSUME TypeOK, RevokedInv, RowMoves, NEW r \in Requests, SlotDead(r),
           \/ req'[r] = req[r] \/ req'[r] = Free \/ AbandonedFrom(r)
           \/ /\ Busy(r) /\ req'[r].token = req[r].token
              /\ req'[r].target \in {req[r].target, NoToken}
    PROVE  SlotDead(r)'
<1>1. CASE req'[r] = Free
  BY <1>1 DEF SlotDead, Busy, Free
<1>2. ASSUME Busy(r), req'[r].token = req[r].token, req'[r].target \in {req[r].target, NoToken}
      PROVE  SlotDead(r)'
  BY <1>2, RevokedGrows DEF SlotDead, Dead
<1>3. CASE req'[r] = req[r]
  BY <1>2, <1>3 DEF SlotDead, Busy
<1>4. CASE AbandonedFrom(r)
  BY <1>1, <1>2, <1>4 DEF AbandonedFrom, Busy
<1> QED BY <1>1, <1>2, <1>3, <1>4

\* With nothing staged, and no request that holds the current token, the server hands
\* out no token.
LEMMA ServerDead ==
    ASSUME TypeOK, ControlInv, RevokedInv, RowMoves, pending = NoToken,
           \A s \in Requests : SlotDead(s), NEW r \in Requests, Server(r) \/ HandlerFails(r)
    PROVE  /\ UNCHANGED <<current, pending, revoked, operator, agentVars, enroller>>
           /\ \A s \in Requests : SlotDead(s)'
<1> USE DEF At
<1>0. NoToken \in Token /\ NoToken \notin Nat
  BY AgentFields
<1>a. ASSUME NEW a \in {"ok", "rotate", "confirm", "refused", "conflict"}, Busy(r),
             Answer(r, a, NoToken)
      PROVE  \A s \in Requests : SlotDead(s)'
  <2>1. Others(r) /\ (req'[r] = Free \/ (req'[r].token = req[r].token /\ req'[r].target = NoToken))
    BY <1>0, <1>a, AnswerFacts
  <2> QED BY <1>a, <2>1, SlotDeadKept DEF Others
<1>1. CASE Authenticate(r) \/ ReadConfirm(r) \/ ReadHeartbeat(r) \/ HandlerFails(r)
  <2>1. UNCHANGED <<current, pending, revoked, operator, agentVars, enroller>>
    BY <1>1 DEF Authenticate, ReadConfirm, ReadHeartbeat, HandlerFails, rowVars, historyVars
  <2>2. Busy(r) /\ Handles(r)
    BY <1>1, HandlerSteps
  <2>3. ASSUME NEW st \in {"update", "read"}, NEW m \in {"none", "current", "pending", "previous"},
               Advances(r, st, m)
        PROVE  \A s \in Requests : SlotDead(s)'
    <3>1. Others(r) /\ req'[r].token = req[r].token /\ req'[r].target = req[r].target
      BY <2>2, <2>3, AdvanceFacts
    <3> QED BY <2>2, <3>1, SlotDeadKept DEF Others
  <2> QED BY <1>0, <1>a, <2>1, <2>2, <2>3 DEF Handles
<1>2. CASE Stage(r)
  <2>1. Busy(r) /\ current # req[r].token
    BY <1>2 DEF Stage, Busy, SlotDead, RevokedInv
  <2>2. /\ Answer(r, "conflict", NoToken)
        /\ UNCHANGED <<current, pending, revoked, operator, agentVars, enroller>>
    BY <1>2, <2>1 DEF Stage, historyVars
  <2> QED BY <1>a, <2>1, <2>2
<1>3. CASE Promote(r)
  <2>1. Busy(r) /\ pending # req[r].target
    BY <1>0, <1>3 DEF Promote, ControlInv, ReqControl, Busy
  <2>2. /\ \E a \in {"confirm", "conflict"} : Answer(r, a, NoToken)
        /\ UNCHANGED <<current, pending, revoked, operator, agentVars, enroller>>
    BY <1>3, <2>1 DEF Promote
  <2> QED BY <1>a, <2>1, <2>2
<1> QED BY <1>1, <1>2, <1>3 DEF Server

\* The agent, left with revoked tokens, only passes them on.
LEMMA AgentStaysDead ==
    ASSUME TypeOK, ControlInv, RevokedInv, RowMoves, UNCHANGED revoked,
           AgentDead, \A s \in Requests : SlotDead(s),
           \/ Worker \/ Loop \/ Restart \/ RevealForSave \/ SaveTo
           \/ \E r \in Requests : GiveUp(r)
    PROVE  AgentDead' /\ \A s \in Requests : SlotDead(s)'
<1>0. NoToken \in Token /\ NoToken \notin Nat /\ mem \in Nat /\ Dead(NoToken)
      /\ (worker.token \in Nat => worker.token \in revoked)
  BY AgentFields DEF TypeOK, AgentDead, Dead
<1>k. \A t : Dead(t) => Dead(t)'
  BY RevokedGrows
<1>1. ASSUME NEW op \in {"rotate", "confirm", "heartbeat"}, NEW from \in {"worker", "loop"},
             NEW t \in Nat, t \in revoked, Send(op, from, t)
      PROVE  \A s \in Requests : SlotDead(s)'
  <2>1. PICK r \in Requests : Others(r) /\ req'[r].token = t /\ req'[r].target = NoToken
    BY <1>1, SendFacts
  <2>2. SlotDead(r)'
    BY <1>1, <2>1 DEF SlotDead, Dead
  <2> QED BY <2>1, <2>2, SlotDeadKept DEF Others
<1>2. CASE Rotate \/ Confirm \/ Heartbeat
  <2>1. worker'.token \in {worker.token, NoToken} /\ UNCHANGED <<mem, disk, loaded, saver>>
    BY <1>2 DEF Rotate, Confirm, Heartbeat, Work, agentVars
  <2>2. AgentDead'
    BY <1>0, <2>1 DEF AgentDead, Dead
  <2>3. CASE Rotate \/ Heartbeat
    BY <1>0, <1>1, <2>2, <2>3 DEF Rotate, Heartbeat, AgentDead
  <2>4. CASE Confirm
    <3>1. worker.token \in Nat
      BY <2>4 DEF Confirm, ControlInv
    <3> QED BY <1>0, <1>1, <2>2, <2>4, <3>1 DEF Confirm
  <2> QED BY <1>2, <2>3, <2>4
<1>3. ASSUME NEW r \in Requests, RotateAnswered(r) \/ ConfirmAnswered(r) \/ HeartbeatAnswered(r)
      PROVE  AgentDead' /\ \A s \in Requests : SlotDead(s)'
  <2>1. \A s \in Requests : SlotDead(s)'
    BY <1>3, ReceiveFacts, SlotDeadKept
       DEF RotateAnswered, ConfirmAnswered, HeartbeatAnswered, Others
  <2>2. CASE RotateAnswered(r)
    <3>1. req[r].answer = "ok" => req[r].target \in Nat /\ req[r].target \in revoked
      <4>1. At(r, "rotate", "answered") /\ Busy(r)
        BY <2>2 DEF RotateAnswered, Receive, At, Busy
      <4> QED BY <1>0, <4>1, RotateTarget DEF SlotDead, Dead
    <3>2. worker'.token = NoToken \/ (req[r].answer = "ok" /\ worker'.token = req[r].target)
      BY <2>2 DEF RotateAnswered, Work
    <3>3. /\ mem' = mem \/ (req[r].answer = "ok" /\ mem' = req[r].target)
          /\ disk' = disk \/ (/\ req[r].answer = "ok"
                              /\ disk' = [disk EXCEPT !.auth = req[r].target])
          /\ UNCHANGED <<loaded, saver>>
      BY <2>2 DEF RotateAnswered
    <3>4. disk'.pend = disk.pend /\ (disk'.auth = disk.auth \/ disk'.auth \in revoked)
      BY <3>1, <3>3, AgentFields
    <3> QED BY <1>0, <2>1, <3>1, <3>2, <3>3, <3>4 DEF AgentDead, Dead
  <2>3. CASE ConfirmAnswered(r)
    <3>1. disk'.auth = disk.auth /\ (disk'.pend = disk.pend \/ disk'.pend = NoToken)
      BY <2>3, AgentFields DEF ConfirmAnswered
    <3>2. worker'.token \in {worker.token, NoToken} /\ UNCHANGED <<mem, loaded, saver>>
      BY <2>3 DEF ConfirmAnswered, Work
    <3> QED BY <1>0, <2>1, <3>1, <3>2 DEF AgentDead, Dead
  <2>4. CASE HeartbeatAnswered(r)
    <3>1. worker'.token \in {worker.token, NoToken} /\ UNCHANGED <<mem, disk, loaded, saver>>
      BY <2>4 DEF HeartbeatAnswered, Work
    <3> QED BY <1>0, <2>1, <3>1 DEF AgentDead, Dead
  <2> QED BY <1>3, <2>2, <2>3, <2>4
<1>4. ASSUME NEW r \in Requests, GiveUp(r)
      PROVE  AgentDead' /\ \A s \in Requests : SlotDead(s)'
  <2>1. req' = [req EXCEPT ![r] = Abandoned(r)]
    BY <1>4 DEF GiveUp
  <2>2. AbandonedFrom(r) /\ Others(r)
    BY <2>1, AbandonedFacts DEF TypeOK, Others
  <2>3. worker'.token \in {worker.token, NoToken} /\ UNCHANGED <<mem, disk, loaded, saver>>
    BY <1>4 DEF GiveUp, Work
  <2>4. AgentDead'
    BY <1>0, <2>3 DEF AgentDead, Dead
  <2> QED BY <2>2, <2>4, SlotDeadKept DEF Others
<1>5. CASE Restart
  <2>1. \A s \in Requests : SlotDead(s)'
    BY <1>5, BootFacts, SlotDeadKept DEF Restart
  <2>2. /\ mem' = disk.auth /\ loaded' = disk.pend /\ disk' = disk
        /\ saver' = NoToken /\ worker'.token = NoToken
    BY <1>5 DEF Restart, Work
  <2> QED BY <1>0, <2>1, <2>2 DEF AgentDead, Dead
<1>6. CASE StageOnDisk \/ PromoteOnDisk \/ SwapMemory \/ Reconcile \/ RevealForSave \/ SaveTo
  <2>1. \A s \in Requests : SlotDead(s)'
    BY <1>6, SlotDeadKept
       DEF StageOnDisk, PromoteOnDisk, SwapMemory, Reconcile, RevealForSave, SaveTo
  <2>2. CASE StageOnDisk
    <3>1. disk'.auth = disk.auth /\ disk'.pend \in {disk.pend, worker.token}
      BY <2>2, AgentFields DEF StageOnDisk
    <3>2. worker'.token \in {worker.token, NoToken} /\ UNCHANGED <<mem, loaded, saver>>
      BY <2>2 DEF StageOnDisk, Work
    <3> QED BY <1>0, <2>1, <3>1, <3>2 DEF AgentDead, Dead
  <2>3. CASE PromoteOnDisk
    <3>1. disk'.auth \in {disk.auth, worker.token} /\ disk'.pend \in {disk.pend, NoToken}
      BY <2>3 DEF PromoteOnDisk
    <3>2. worker'.token = worker.token /\ UNCHANGED <<mem, loaded, saver>> /\ worker.token \in Nat
      BY <2>3 DEF PromoteOnDisk, Work, ControlInv
    <3> QED BY <1>0, <2>1, <3>1, <3>2 DEF AgentDead, Dead
  <2>4. CASE SwapMemory
    <3>1. /\ mem' = worker.token /\ worker.token \in Nat /\ worker'.token = NoToken
          /\ UNCHANGED <<disk, loaded, saver>>
      BY <2>4 DEF SwapMemory, Work, ControlInv
    <3> QED BY <1>0, <2>1, <3>1 DEF AgentDead, Dead
  <2>5. CASE Reconcile
    <3>1. worker'.token \in {disk.pend, NoToken} /\ UNCHANGED <<mem, disk, loaded, saver>>
      BY <2>5 DEF Reconcile, Work
    <3> QED BY <1>0, <2>1, <3>1 DEF AgentDead, Dead
  <2>6. CASE RevealForSave
    <3>1. saver' = mem /\ UNCHANGED <<mem, disk, loaded, worker>>
      BY <2>6 DEF RevealForSave
    <3> QED BY <1>0, <2>1, <3>1 DEF AgentDead, Dead
  <2>7. CASE SaveTo
    <3>1. saver \in Nat /\ loaded \in Token
      BY <2>7 DEF SaveTo, TypeOK, Token
    <3>2. /\ disk'.auth = saver /\ disk'.pend \in {loaded, disk.pend} /\ saver' = NoToken
          /\ UNCHANGED <<mem, loaded, worker>>
      BY <2>7, <3>1, EnrollFields DEF SaveTo
    <3> QED BY <1>0, <2>1, <3>1, <3>2 DEF AgentDead, Dead
  <2> QED BY <1>6, <2>2, <2>3, <2>4, <2>5, <2>6, <2>7
<1> QED BY <1>2, <1>3, <1>4, <1>5, <1>6 DEF Worker, Loop

\* The enrollment's reset revokes every token the agent can hold.
LEMMA ResetKills ==
    ASSUME TypeOK, MintedInv, EnrollResets
    PROVE  AgentDead' /\ (\A s \in Requests : SlotDead(s)') /\ Dead(enroller.pend)'
<1>1. /\ minted \in Nat /\ revoked' = 0..minted /\ UNCHANGED <<req, agentVars>>
      /\ enroller'.pend = enroller.pend
  <2>1. minted \in Nat /\ minted + 1 \in Token
    BY DEF TypeOK, Token
  <2> QED BY <2>1, EnrollerMoves DEF EnrollResets, Reset
<1>2. \A t \in Token : Minted(t) => t \in 0..minted \/ t = NoToken
  BY <1>1 DEF Minted, Token
<1>3. ASSUME NEW s \in Requests PROVE SlotDead(s)'
  <2>1. Busy(s) => /\ req[s].token \in Nat /\ req[s].target \in Token
                   /\ req[s].token <= minted /\ Minted(req[s].target)
    BY SlotFacts DEF Request, MintedInv
  <2> QED BY <1>1, <1>2, <2>1 DEF SlotDead, Busy, Dead
<1>4. AgentDead'
  <2>1. /\ mem \in Nat /\ mem <= minted /\ disk.auth \in Nat /\ disk.auth <= minted
        /\ disk.pend \in Token /\ loaded \in Token /\ saver \in Token /\ worker.token \in Token
        /\ Minted(disk.pend) /\ Minted(loaded) /\ Minted(saver) /\ Minted(worker.token)
    BY AgentFields DEF TypeOK, MintedInv
  <2> QED BY <1>1, <1>2, <2>1 DEF AgentDead, Dead, agentVars
<1>5. Dead(enroller.pend)'
  BY <1>1, <1>2, EnrollFields DEF Dead, MintedInv
<1> QED BY <1>3, <1>4, <1>5

\* What holds between an enrollment's commit and its save is inductive.
LEMMA EnrollInductive ==
    ASSUME TypeOK, ControlInv, MintedInv, RevokedInv, EnrollInv, RowMoves, [Next]_vars
    PROVE  EnrollInv'
<1> SUFFICES ASSUME enroller'.step = "answered" PROVE EnrollInv'
  BY DEF EnrollInv
<1>1. CASE EnrollResets
  <2>1. /\ minted \in Nat /\ current' = minted + 1 /\ pending' = NoToken /\ minted' = minted + 1
        /\ enroller'.token = minted + 1
    <3>1. minted \in Nat /\ minted + 1 \in Token
      BY DEF TypeOK, Token
    <3> QED BY <1>1, <3>1, EnrollerMoves DEF EnrollResets, Reset
  <2> QED BY <1>1, <2>1, ResetKills DEF EnrollInv
<1>2. ASSUME UNCHANGED enroller, AgentDead', \A s \in Requests : SlotDead(s)',
             pending' = NoToken, current' \in {enroller.token, operator'}
      PROVE  EnrollInv'
  BY <1>2, RevokedGrows, MintedGrows DEF EnrollInv
<1>3. ASSUME UNCHANGED enroller
      PROVE  /\ pending = NoToken /\ current \in {enroller.token, operator}
             /\ AgentDead /\ \A s \in Requests : SlotDead(s)
  BY <1>3 DEF EnrollInv
<1>4. ASSUME NEW r \in Requests, Server(r) \/ HandlerFails(r) PROVE EnrollInv'
  <2>0. UNCHANGED enroller
    BY <1>4 DEF Server, Authenticate, Stage, ReadConfirm, ReadHeartbeat, Promote, HandlerFails
  <2>1. /\ UNCHANGED <<current, pending, revoked, operator, agentVars, enroller>>
        /\ \A s \in Requests : SlotDead(s)'
    BY <1>3, <1>4, <2>0, ServerDead
  <2>2. AgentDead'
    BY <1>3, <2>1 DEF AgentDead, Dead, agentVars
  <2> QED BY <1>2, <1>3, <2>1, <2>2
<1>5. CASE Worker \/ Loop \/ Restart \/ RevealForSave \/ SaveTo \/ \E r \in Requests : GiveUp(r)
  <2>1. UNCHANGED <<enroller, current, pending, operator, revoked>>
    <3>1. CASE Worker
      BY <3>1 DEF Worker, Rotate, StageOnDisk, Confirm, PromoteOnDisk, SwapMemory, Reconcile,
                  RotateAnswered, ConfirmAnswered, rowVars, historyVars
    <3>2. CASE Loop
      BY <3>2 DEF Loop, Heartbeat, HeartbeatAnswered, rowVars, historyVars
    <3>3. CASE Restart \/ RevealForSave \/ SaveTo \/ \E r \in Requests : GiveUp(r)
      BY <3>3 DEF Restart, RevealForSave, SaveTo, GiveUp, rowVars, historyVars
    <3> QED BY <1>5, <3>1, <3>2, <3>3
  <2> QED BY <1>2, <1>3, <1>5, <2>1, AgentStaysDead
<1>6. CASE AdminRotate \/ LapsePending \/ LapseGrace \/ FallDue \/ UNCHANGED vars
  <2>1. UNCHANGED <<enroller, req, agentVars>>
    BY <1>6 DEF AdminRotate, LapsePending, LapseGrace, FallDue, vars
  <2>2. AgentDead' /\ \A s \in Requests : SlotDead(s)'
    <3>1. \A s \in Requests : SlotDead(s)'
      BY <1>3, <2>1, SlotDeadKept
    <3> QED BY <1>3, <2>1, <3>1, RevokedGrows DEF AgentDead, agentVars
  <2>3. pending' = NoToken /\ current' \in {enroller.token, operator'}
    BY <1>3, <1>6, <2>1 DEF AdminRotate, Reset, LapsePending, LapseGrace, FallDue, vars, rowVars,
                          historyVars
  <2> QED BY <1>2, <2>1, <2>2, <2>3
<1>7. CASE EnrollLoads \/ EnrollChecked \/ EnrollSaves \/ EnrollFails
  <2>1. NoToken \in Token /\ NoEnroll.step = "none"
    BY AgentFields DEF NoEnroll
  <2>2. CASE EnrollChecked
    BY <2>1, <2>2, EnrollerMoves DEF EnrollChecked
  <2> QED BY <1>7, <2>1, <2>2 DEF EnrollLoads, EnrollSaves, EnrollFails
<1> QED BY <1>1, <1>4, <1>5, <1>6, <1>7 DEF Next

-----------------------------------------------------------------------------
(* Durability.                                                             *)

\* A build does not change, and what happened stays on record.
LEMMA HolesGrow ==
    ASSUME TypeOK, [Next]_vars
    PROVE  kind' = kind /\ holes \subseteq holes'
<1> USE DEF agentVars, historyVars
<1>1. ASSUME NEW r \in Requests, Server(r) \/ HandlerFails(r) \/ GiveUp(r)
      PROVE  kind' = kind /\ holes \subseteq holes'
  <2>1. CASE Promote(r)
    <3>1. holes' = holes \/ holes' = holes \cup {"late"}
      BY <2>1, Zenon DEF Promote
    <3> QED BY <2>1, <3>1 DEF Promote
  <2> QED BY <1>1, <2>1 DEF Server, Authenticate, ReadConfirm, ReadHeartbeat, HandlerFails, GiveUp, Stage
<1>2. CASE Worker
  <2>1. CASE Reconcile
    <3>1. holes' = holes \/ holes' = holes \cup {"unread"}
      BY <2>1, Zenon DEF Reconcile
    <3> QED BY <2>1, <3>1 DEF Reconcile
  <2>2. CASE StageOnDisk
    BY <2>2 DEF StageOnDisk
  <2>3. CASE PromoteOnDisk
    BY <2>3 DEF PromoteOnDisk
  <2> QED BY <1>2, <2>1, <2>2, <2>3
          DEF Worker, Rotate, Confirm, SwapMemory, RotateAnswered, ConfirmAnswered
<1>3. CASE Loop
  BY <1>3 DEF Loop, Heartbeat, HeartbeatAnswered
<1>4. CASE Restart \/ RevealForSave \/ SaveTo
  BY <1>4 DEF Restart, RevealForSave, SaveTo
<1>5. CASE AdminRotate \/ LapsePending \/ LapseGrace \/ FallDue
  BY <1>5 DEF AdminRotate, LapsePending, LapseGrace, FallDue
<1>6. CASE UNCHANGED vars
  BY <1>6 DEF vars
<1>7. CASE EnrollLoads \/ EnrollChecked \/ EnrollResets \/ EnrollSaves \/ EnrollFails
  BY <1>7 DEF EnrollLoads, EnrollChecked, EnrollResets, EnrollSaves, EnrollFails
<1> QED BY <1>1, <1>2, <1>3, <1>4, <1>5, <1>6, <1>7 DEF Next

\* No step repairs a lost write: a sound state has sound predecessors.
LEMMA SoundBefore ==
    ASSUME TypeOK, [Next]_vars, Sound'
    PROVE  Sound
BY HolesGrow DEF Sound

\* The typed fields and bounds that the arguments below compare.
LEMMA Numbers ==
    ASSUME TypeOK, MintedInv
    PROVE  /\ minted \in Nat /\ current \in Nat /\ mem \in Nat /\ disk.auth \in Nat
           /\ current <= minted /\ mem <= minted /\ disk.auth <= minted
           /\ NoToken \notin Nat /\ pending \in {NoToken, minted} /\ pending # current
           /\ \A r \in Requests : Busy(r) => req[r].token \in Nat /\ req[r].token <= minted
           /\ worker.token \in Nat => worker.token <= minted
<1>1. \A r \in Requests : Busy(r) => req[r].token \in Nat
  BY SlotFacts DEF Request
<1> QED BY <1>1, AgentFields DEF TypeOK, MintedInv, Minted

\* A slot that keeps its request, or loses it, in a step that leaves row and agent alone.
SameRequest(r) == req'[r] = Free \/ (req'[r].op = req[r].op /\ req'[r].token = req[r].token)

\* Requests that stay the same or are not confirms keep what is known of the confirms.
LEMMA ConfirmTokens ==
    ASSUME TypeOK, \A s \in Requests : req'[s] = req[s] \/ SameRequest(s) \/ req'[s].op # "confirm"
    PROVE  \A s \in Requests : req'[s].op = "confirm" =>
               req[s].op = "confirm" /\ req'[s].token = req[s].token
BY DEF SameRequest, Free

\* All that a handler that only reads leaves alone.
RestStays == UNCHANGED <<current, pending, staged, agentVars, operator, revoked, enroller>>

\* Row, agent and operator's token stay: only one slot is to be looked at.
LEMMA DurableAtSlot ==
    ASSUME TypeOK, DurableInv, NEW r \in Requests, Others(r), SameRequest(r), RestStays,
           Busy(r)' => ReqDurable(r)'
    PROVE  DurableInv'
<1> USE DEF agentVars, RestStays
<1>1. \A s \in Requests : s # r => req'[s] = req[s]
  BY DEF Others
<1>2. \A s \in Requests : req'[s].op = "confirm" =>
          req[s].op = "confirm" /\ req'[s].token = req[s].token
  BY <1>1, ConfirmTokens
<1>3. ASSUME NEW s \in Requests, Busy(s)' PROVE ReqDurable(s)'
  <2>1. CASE s = r
    BY <1>3, <2>1
  <2>2. CASE s # r
    <3>1. req'[s] = req[s] /\ ReqDurable(s)
      BY <1>1, <1>3, <2>2 DEF DurableInv, Busy
    <3> QED BY <1>2, <3>1 DEF ReqDurable, Answered
  <2> QED BY <2>1, <2>2
<1>4. StageNewer'
  BY <1>2 DEF DurableInv, StageNewer
<1>5. WorkerDurable'
  BY DEF DurableInv, WorkerDurable, OnDisk, Dead
<1>6. Enrolled' = Enrolled
  BY DEF Enrolled
<1> QED BY <1>3, <1>4, <1>5, <1>6 DEF DurableInv

\* A handler step that leaves row and agent alone keeps the durability invariant.
LEMMA HandlesDurable ==
    ASSUME TypeOK, MintedInv, DurableInv, NEW r \in Requests, Busy(r), Handles(r), RestStays
    PROVE  DurableInv'
<1>0. ReqDurable(r) /\ req[r].token \in Nat /\ NoToken \in Token /\ NoToken \notin Nat
      /\ pending # current
  BY Numbers, AgentFields DEF DurableInv
<1>1. ASSUME NEW a \in {"ok", "rotate", "confirm", "refused", "conflict"}, Answer(r, a, NoToken),
             req[r].op = "rotate" => a # "ok",
             req[r].op = "confirm" /\ a = "ok" => pending = NoToken /\ current = req[r].token,
             req[r].op = "confirm" /\ a = "refused" =>
                /\ ~(req[r].token = pending /\ staged)
                /\ req[r].token # current \/ req[r].token = pending
      PROVE  DurableInv'
  <2>1. CASE req[r].from = "nobody"
    <3>1. Others(r) /\ req'[r] = Free
      BY <1>0, <1>1, <2>1, AnswerFacts
    <3> QED BY <3>1, DurableAtSlot DEF SameRequest, Busy, Free
  <2>2. CASE req[r].from # "nobody"
    <3>1. /\ Others(r) /\ req'[r].op = req[r].op /\ req'[r].token = req[r].token
          /\ req'[r].match = req[r].match /\ req'[r].step = "answered" /\ req'[r].answer = a
      BY <1>0, <1>1, <2>2, AnswerFacts
    <3>2. ReqDurable(r)'
      BY <1>0, <1>1, <3>1 DEF ReqDurable, Answered, RestStays, agentVars
    <3> QED BY <3>1, <3>2, DurableAtSlot DEF SameRequest
  <2> QED BY <2>1, <2>2
<1>2. ASSUME NEW st \in {"update", "read"}, NEW m \in {"none", "current", "pending", "previous"},
             Advances(r, st, m)
      PROVE  DurableInv'
  <2>1. /\ Others(r) /\ req'[r].op = req[r].op /\ req'[r].token = req[r].token
        /\ req'[r].match = m /\ req'[r].step = st
    BY <1>2, AdvanceFacts
  <2>2. req[r].op = "heartbeat" => m # "pending"
    BY <1>0, <1>2, MatchFacts DEF Advances, ReqDurable
  <2>3. ReqDurable(r)'
    BY <1>0, <2>1, <2>2 DEF ReqDurable, Answered, RestStays, agentVars
  <2> QED BY <2>1, <2>3, DurableAtSlot DEF SameRequest
<1>3. CASE /\ GoPromote(r) /\ pending \in Nat
           /\ \/ req[r].op = "confirm" /\ pending = req[r].token
              \/ req[r].op = "heartbeat" /\ req[r].match = "pending"
  <2>1. /\ Others(r) /\ req'[r].op = req[r].op /\ req'[r].token = req[r].token
        /\ req'[r].match = req[r].match /\ req'[r].step = "promote"
    BY <1>3, GoPromoteFacts
  <2>2. ReqDurable(r)'
    BY <1>0, <1>3, <2>1 DEF ReqDurable, Answered, RestStays, agentVars
  <2> QED BY <2>1, <2>2, DurableAtSlot DEF SameRequest
<1> QED BY <1>1, <1>2, <1>3 DEF Handles

\* rotate-token: the new token is newer than any in flight.
LEMMA StageDurable ==
    ASSUME TypeOK, ControlInv, MintedInv, DurableInv, NEW r \in Requests, Stage(r)
    PROVE  DurableInv'
<1> USE DEF At
<1>0. Busy(r) /\ req[r].op = "rotate" /\ NoToken \in Token
  BY AgentFields DEF Stage, Busy
<1>1. CASE Answer(r, "conflict", NoToken) /\ UNCHANGED <<minted, pending, staged>>
  <2>1. RestStays
    BY <1>1 DEF Stage, historyVars, RestStays
  <2>2. Handles(r)
    BY <1>0, <1>1 DEF Handles
  <2> QED BY <1>0, <2>1, <2>2, HandlesDurable
<1>2. CASE pending' = minted + 1 /\ Answer(r, "ok", minted + 1)
  <2>1. UNCHANGED <<current, agentVars, operator, revoked, enroller>> /\ Enrolled' = Enrolled
    BY DEF Stage, historyVars, Enrolled
  <2>2. minted \in Nat /\ minted + 1 \in Token
    BY Numbers DEF Token
  <2>3. /\ Others(r)
        /\ \/ req'[r] = Free
           \/ /\ req'[r].op = req[r].op /\ req'[r].token = req[r].token
              /\ req'[r].answer = "ok" /\ req'[r].step = "answered" /\ req'[r].target = minted + 1
    BY <1>0, <1>2, <2>2, AnswerFacts
  <2>4. \A s \in Requests : req'[s].op = "confirm" =>
            req[s].op = "confirm" /\ req'[s].token = req[s].token
    BY <2>3, ConfirmTokens DEF SameRequest, Others
  <2>5. \A s \in Requests : req[s].op = "confirm" => req[s].token \in Nat /\ req[s].token < minted + 1
    BY <2>2, Numbers DEF Busy
  <2>6. ASSUME NEW s \in Requests, Busy(s)' PROVE ReqDurable(s)'
    <3>1. CASE s = r
      <4>1. req'[r].op = "rotate" /\ req'[r].target = minted + 1
        BY <1>0, <1>2, <2>3, <2>6, <3>1 DEF Busy, Free
      <4> QED BY <2>4, <2>5, <3>1, <4>1 DEF ReqDurable
    <3>2. CASE s # r
      <4>1. req'[s] = req[s] /\ Busy(s) /\ ReqDurable(s)
        BY <2>3, <2>6, <3>2 DEF Others, DurableInv, Busy
      <4>2. req[s].token # pending'
        BY <1>2, <2>2, <4>1, Numbers
      <4> QED BY <2>1, <2>4, <4>1, <4>2 DEF ReqDurable, Answered, agentVars
    <3> QED BY <3>1, <3>2
  <2>7. StageNewer'
    BY <2>1, <2>4 DEF DurableInv, StageNewer, agentVars
  <2>8. WorkerDurable'
    <3>1. worker.step \in {"promote", "swap"} => worker.token # pending'
      BY <1>2, <2>2, Numbers DEF ControlInv
    <3> QED BY <2>1, <3>1 DEF DurableInv, WorkerDurable, OnDisk, Dead, agentVars
  <2>9. mem' # pending' /\ disk'.auth # pending'
    BY <1>2, <2>1, <2>2, Numbers DEF agentVars
  <2> QED BY <2>1, <2>6, <2>7, <2>8, <2>9 DEF DurableInv, agentVars
<1> QED BY <1>1, <1>2 DEF Stage

\* promotePendingAgentCredentials: the token it makes current is the one staged on disk.
LEMMA PromoteDurable ==
    ASSUME TypeOK, ControlInv, MintedInv, RevokedInv, DurableInv, NEW r \in Requests,
           Promote(r), Sound'
    PROVE  DurableInv'
<1>0. Busy(r) /\ ReqControl(r) /\ ReqDurable(r) /\ NoToken \in Token
  BY AgentFields DEF Promote, Busy, ControlInv, DurableInv
<1>1. req[r].op = "confirm" /\ req[r].target = req[r].token
  <2>1. req[r].op \in {"rotate", "confirm", "heartbeat"}
    BY <1>0, SlotFacts DEF Request
  <2> QED BY <1>0, <2>1 DEF Promote, ReqControl, ReqDurable
<1>2. CASE pending # req[r].target \/ current # req[r].expected
  <2>1. RestStays /\ Answer(r, "conflict", NoToken)
    BY <1>1, <1>2 DEF Promote, RestStays
  <2>2. Handles(r)
    BY <1>1, <2>1 DEF Handles
  <2> QED BY <1>0, <2>1, <2>2, HandlesDurable
<1>3. CASE pending = req[r].target /\ current = req[r].expected
  <2>1. /\ current' = pending /\ pending' = NoToken /\ Answer(r, "ok", NoToken)
        /\ UNCHANGED <<agentVars, operator, revoked, enroller>>
    BY <1>1, <1>3 DEF Promote
  <2>2. staged
    <3>1. holes' = IF staged THEN holes ELSE holes \cup {"late"}
      BY <1>3 DEF Promote
    <3>2. "late" \notin holes'
      BY DEF Sound
    <3> QED BY <3>1, <3>2
  <2>3. /\ pending = req[r].token /\ disk.pend = pending /\ pending \in Nat
        /\ \A t : OnDisk(t) => t = pending
    <3>1. pending = req[r].token /\ disk.pend = pending /\ pending \in Nat
      BY <1>0, <1>1, <1>3, <2>2, Numbers DEF ReqDurable
    <3>2. ~Dead(disk.pend)
      BY <3>1, TokenAssumption DEF Dead, RevokedInv
    <3> QED BY <3>1, <3>2 DEF OnDisk
  <2>4. /\ Others(r)
        /\ \/ req'[r] = Free
           \/ /\ req'[r].op = req[r].op /\ req'[r].token = req[r].token
              /\ req'[r].answer = "ok" /\ req'[r].step = "answered"
    BY <1>0, <2>1, AnswerFacts
  <2>5. \A s \in Requests : req'[s].op = "confirm" =>
            req[s].op = "confirm" /\ req'[s].token = req[s].token
    BY <2>4, ConfirmTokens DEF SameRequest, Others
  <2>6. NoToken \notin Nat /\ mem \in Nat /\ disk.auth \in Nat
    BY Numbers
  <2>7. ASSUME NEW s \in Requests, Busy(s)' PROVE ReqDurable(s)'
    <3>1. CASE s = r
      <4>1. req'[r].op = "confirm" /\ req'[r].token = req[r].token /\ req'[r].answer = "ok"
        BY <1>1, <2>4, <2>7, <3>1 DEF Busy, Free
      <4> QED BY <2>1, <2>3, <2>6, <3>1, <4>1 DEF ReqDurable, Answered
    <3>2. CASE s # r
      <4>1. req'[s] = req[s] /\ Busy(s) /\ ReqDurable(s) /\ req[s].token \in Nat
        BY <2>4, <2>7, <3>2, Numbers DEF Others, DurableInv, Busy
      <4>2. ~(req[s].op = "confirm" /\ Answered(s, "ok"))
        <5> SUFFICES ASSUME req[s].op = "confirm", Answered(s, "ok") PROVE FALSE
          OBVIOUS
        <5>1. worker.step = "confirming" /\ req[s].token = worker.token
          BY WorkersAnswer DEF At, Answered
        <5>2. worker.token = pending
          BY <2>3, <5>1 DEF DurableInv, WorkerDurable
        <5> QED BY <2>3, <4>1, <5>1, <5>2 DEF ReqDurable
      <4>3. req[s].op = "confirm" /\ Answered(s, "refused") => req[s].token # pending
        BY <2>2, <4>1 DEF ReqDurable
      <4> QED BY <2>1, <2>5, <2>6, <4>1, <4>2, <4>3 DEF ReqDurable, Answered, agentVars
    <3> QED BY <3>1, <3>2
  <2>8. StageNewer'
    BY <2>1, <2>5 DEF DurableInv, StageNewer, agentVars
  <2>9. WorkerDurable'
    <3>1. worker.step \in {"promote", "swap"} => worker.token \in Nat
      BY DEF ControlInv
    <3>2. worker.step # "promote"
      BY <2>3 DEF DurableInv, WorkerDurable
    <3> QED BY <2>1, <2>6, <3>1, <3>2 DEF DurableInv, WorkerDurable, OnDisk, Dead, agentVars
  <2> QED BY <2>1, <2>3, <2>6, <2>7, <2>8, <2>9 DEF DurableInv, agentVars
<1> QED BY <1>2, <1>3

\* A step of the agent: the row stays, and requests are kept, lost or abandoned.
RowStays == UNCHANGED <<current, pending, staged, operator, revoked>>
SlotStays(s) == Busy(s)' => req'[s] = req[s] \/ AbandonedFrom(s)

\* Confirms whose slots stay keep the tokens they carry.
LEMMA StayingConfirms ==
    ASSUME \A s \in Requests : SlotStays(s)
    PROVE  \A s \in Requests : req'[s].op = "confirm" =>
               req[s].op = "confirm" /\ req'[s].token = req[s].token
<1> SUFFICES ASSUME NEW s \in Requests, req'[s].op = "confirm"
             PROVE  req[s].op = "confirm" /\ req'[s].token = req[s].token
  OBVIOUS
<1>1. Busy(s)' /\ req'[s] # Free
  BY DEF Busy, Free
<1> QED BY <1>1 DEF SlotStays, AbandonedFrom

\* An agent step keeps durability if it keeps the current token at hand and never uses a pending one.
LEMMA AgentDurable ==
    ASSUME TypeOK, DurableInv, RowStays, \A s \in Requests : SlotStays(s),
           current \in {disk'.auth, disk'.pend, operator, Enrolled'}, mem' # pending,
           disk'.auth # pending,
           \A s \in Requests : req[s].op = "confirm" /\ req[s].token = pending /\ staged =>
               disk'.pend = pending,
           WorkerDurable', StageNewer'
    PROVE  DurableInv'
<1>1. \A s \in Requests : req'[s].op = "confirm" =>
          req[s].op = "confirm" /\ req'[s].token = req[s].token
  BY StayingConfirms
<1>2. ASSUME NEW s \in Requests, Busy(s)' PROVE ReqDurable(s)'
  <2>0. req'[s] # Free
    BY <1>2 DEF Busy, Free
  <2>1. CASE req'[s] = req[s]
    <3>1. ReqDurable(s)
      BY <1>2, <2>1 DEF DurableInv, Busy
    <3> QED BY <1>1, <2>1, <3>1 DEF ReqDurable, Answered, RowStays
  <2>2. CASE AbandonedFrom(s)
    <3>1. ReqDurable(s)
      BY <2>0, <2>2 DEF DurableInv, Busy, AbandonedFrom
    <3> QED BY <2>0, <2>2, <3>1 DEF ReqDurable, Answered, RowStays, AbandonedFrom
  <2> QED BY <1>2, <2>1, <2>2 DEF SlotStays
<1> QED BY <1>2 DEF DurableInv, RowStays

\* ... that leaves the file and the token in memory alone.
LEMMA IdleDurable ==
    ASSUME TypeOK, DurableInv, RowStays, \A s \in Requests : SlotStays(s),
           UNCHANGED <<disk, mem, enroller>>, WorkerDurable', StageNewer'
    PROVE  DurableInv'
<1>1. \A s \in Requests : req[s].op = "confirm" /\ req[s].token = pending /\ staged =>
          disk'.pend = pending
  BY DEF DurableInv, ReqDurable, Busy
<1>2. Enrolled' = Enrolled
  BY DEF Enrolled
<1> QED BY <1>1, <1>2, AgentDurable DEF DurableInv

\* A worker with no token has nothing to keep.
LEMMA WorkerRests ==
    ASSUME worker'.step \in {"idle", "reconcile", "rotate", "rotating"}
    PROVE  WorkerDurable' /\ StageNewer'
BY DEF WorkerDurable, StageNewer

\* A step that leaves worker and disk alone keeps what the worker knows of its staged token.
LEMMA WorkerStays ==
    ASSUME DurableInv, RowStays, \A s \in Requests : SlotStays(s), UNCHANGED <<worker, disk>>
    PROVE  WorkerDurable' /\ StageNewer'
<1>1. \A s \in Requests : req'[s].op = "confirm" =>
          req[s].op = "confirm" /\ req'[s].token = req[s].token
  BY StayingConfirms
<1> QED BY <1>1 DEF WorkerDurable, OnDisk, Dead, StageNewer, DurableInv, RowStays

\* What stands in for a staged token on disk is neither current nor pending.
LEMMA OnDiskFacts ==
    ASSUME TypeOK, RevokedInv, NEW t, OnDisk(t)
    PROVE  /\ disk.pend = t \/ disk.pend # current
           /\ disk.pend = t \/ pending = NoToken \/ disk.pend # pending
           /\ t = pending => disk.pend = t
<1>1. current # NoToken
  BY TokenAssumption DEF TypeOK
<1> QED BY <1>1 DEF OnDisk, Dead, RevokedInv

\* Receiving an answer keeps the durability invariant.
LEMMA ReceiveDurable ==
    ASSUME TypeOK, ControlInv, MintedInv, RevokedInv, DurableInv, Sound, NEW r \in Requests,
           RotateAnswered(r) \/ ConfirmAnswered(r) \/ HeartbeatAnswered(r)
    PROVE  DurableInv'
<1>0. RowStays /\ UNCHANGED enroller /\ Enrolled' = Enrolled
  BY DEF RotateAnswered, ConfirmAnswered, HeartbeatAnswered, RowStays, rowVars, historyVars, Enrolled
<1>1. \A s \in Requests : SlotStays(s)
  BY ReceiveFacts DEF RotateAnswered, ConfirmAnswered, HeartbeatAnswered, SlotStays, Others, Busy, Free
<1>2. CASE RotateAnswered(r)
  <2>1. UNCHANGED <<disk, mem>>
    BY <1>2 DEF RotateAnswered, Sound
  <2>2. CASE Work("idle", NoToken)
    BY <1>0, <1>1, <2>1, <2>2, WorkerRests, IdleDurable DEF Work
  <2>3. CASE req[r].answer = "ok" /\ Work("stage", req[r].target)
    <3>1. worker'.step = "stage" /\ worker'.token = req[r].target
      BY <2>3 DEF Work
    <3>2. WorkerDurable'
      BY <3>1 DEF WorkerDurable
    <3>3. \A s \in Requests : req[s].op = "confirm" => req[s].token < req[r].target
      BY <1>2, <2>3 DEF RotateAnswered, Receive, At, DurableInv, ReqDurable, Busy, Answered
    <3>4. StageNewer'
      BY <1>1, <3>1, <3>3, StayingConfirms DEF StageNewer
    <3> QED BY <1>0, <1>1, <2>1, <3>2, <3>4, IdleDurable
  <2> QED BY <1>2, <2>2, <2>3 DEF RotateAnswered, Sound
<1>3. CASE ConfirmAnswered(r)
  <2>0. At(r, "confirm", "answered") /\ mem' = mem
    BY <1>3 DEF ConfirmAnswered, Receive
  <2>1. /\ Busy(r) /\ worker.step = "confirming" /\ req[r].token = worker.token /\ ReqDurable(r)
    BY <2>0, WorkersAnswer DEF DurableInv
  <2>2. OnDisk(worker.token)
    BY <2>1 DEF DurableInv, WorkerDurable
  <2>3. CASE req[r].answer = "ok" /\ Work("promote", worker.token) /\ UNCHANGED disk
    <3>1. worker'.step = "promote" /\ worker'.token = worker.token
      BY <2>3 DEF Work
    <3>2. req[r].token # pending /\ (req[r].token = current \/ req[r].token \in revoked)
      BY <2>0, <2>1, <2>3 DEF At, ReqDurable, Answered
    <3>3. WorkerDurable' /\ StageNewer'
      BY <1>0, <2>1, <2>2, <2>3, <3>1, <3>2 DEF WorkerDurable, StageNewer, RowStays, OnDisk, Dead
    <3> QED BY <1>0, <1>1, <2>0, <2>3, <3>3, IdleDurable
  <2>4. CASE Work("idle", NoToken) /\ UNCHANGED disk
    BY <1>0, <1>1, <2>0, <2>4, WorkerRests, IdleDurable DEF Work
  <2>5. CASE /\ req[r].answer = "refused" /\ Work("idle", NoToken)
             /\ disk' = [disk EXCEPT !.pend = NoToken]
    <3>1. disk'.auth = disk.auth /\ disk'.pend = NoToken
      BY <2>5, AgentFields
    <3>2. req[r].token # current /\ ~(req[r].token = pending /\ staged)
      BY <2>0, <2>1, <2>5 DEF At, ReqDurable, Answered
    <3>3. current \in {disk'.auth, operator, Enrolled'}
      BY <1>0, <2>1, <2>2, <3>1, <3>2, OnDiskFacts DEF DurableInv
    <3>4. ASSUME NEW s \in Requests, req[s].op = "confirm", req[s].token = pending, staged
          PROVE  FALSE
      <4>1. disk.pend = pending /\ pending # NoToken
        BY <3>4, Numbers DEF DurableInv, ReqDurable, Busy
      <4> QED BY <2>1, <2>2, <3>2, <3>4, <4>1, OnDiskFacts
    <3>5. WorkerDurable' /\ StageNewer'
      BY <2>5, WorkerRests DEF Work
    <3> QED BY <1>0, <1>1, <2>0, <3>1, <3>3, <3>4, <3>5, AgentDurable DEF DurableInv
  <2> QED BY <1>3, <2>3, <2>4, <2>5 DEF ConfirmAnswered
<1>4. CASE HeartbeatAnswered(r)
  <2>1. UNCHANGED <<disk, mem>>
    BY <1>4 DEF HeartbeatAnswered
  <2>2. CASE UNCHANGED worker
    BY <1>0, <1>1, <2>1, <2>2, WorkerStays, IdleDurable
  <2>3. CASE worker'.step \in {"rotate", "reconcile", "idle"}
    BY <1>0, <1>1, <2>1, <2>3, WorkerRests, IdleDurable
  <2> QED BY <1>4, <2>2, <2>3, HeartbeatStarts
<1> QED BY <1>2, <1>3, <1>4

\* Giving up on an answer keeps the durability invariant.
LEMMA GiveUpDurable ==
    ASSUME TypeOK, ControlInv, DurableInv, NEW r \in Requests, GiveUp(r)
    PROVE  DurableInv'
<1>0. RowStays /\ UNCHANGED <<disk, mem, enroller>>
  BY DEF GiveUp, RowStays, rowVars, historyVars
<1>1. \A s \in Requests : SlotStays(s)
  <2>1. req' = [req EXCEPT ![r] = Abandoned(r)]
    BY DEF GiveUp
  <2>2. AbandonedFrom(r) /\ \A s \in Requests : s # r => req'[s] = req[s]
    BY <2>1, AbandonedFacts DEF TypeOK
  <2> QED BY <2>2 DEF SlotStays
<1>2. CASE UNCHANGED worker
  BY <1>0, <1>1, <1>2, WorkerStays, IdleDurable
<1>3. CASE Work("idle", NoToken)
  BY <1>0, <1>1, <1>3, WorkerRests, IdleDurable DEF Work
<1> QED BY <1>2, <1>3 DEF GiveUp

\* Staging, promoting, swapping and reconciling keep the durability invariant in sound states.
LEMMA DiskDurable ==
    ASSUME TypeOK, ControlInv, MintedInv, RevokedInv, DurableInv, Sound',
           StageOnDisk \/ PromoteOnDisk \/ SwapMemory \/ Reconcile
    PROVE  DurableInv'
<1>0. RowStays /\ UNCHANGED enroller /\ Enrolled' = Enrolled
  BY DEF StageOnDisk, PromoteOnDisk, SwapMemory, Reconcile, RowStays, rowVars, historyVars, Enrolled
<1>1. \A s \in Requests : SlotStays(s)
  BY DEF StageOnDisk, PromoteOnDisk, SwapMemory, Reconcile, SlotStays
<1>2. CASE StageOnDisk
  <2>0. worker.token \in Nat /\ worker.token <= minted /\ minted \in Nat /\ mem' = mem
    BY <1>2, Numbers DEF StageOnDisk, ControlInv
  <2>1. WorkerDurable' /\ StageNewer'
    <3>1. CASE Work("idle", NoToken)
      BY <3>1, WorkerRests DEF Work
    <3>2. CASE Work("confirm", worker.token) /\ disk' = [disk EXCEPT !.pend = worker.token]
      <4>1. disk'.pend = worker.token
        BY <3>2, AgentFields
      <4> QED BY <3>2, <4>1 DEF Work, WorkerDurable, OnDisk, StageNewer
    <3> QED BY <1>2, <3>1, <3>2 DEF StageOnDisk
  <2>2. CASE UNCHANGED disk
    BY <1>0, <1>1, <2>0, <2>1, <2>2, IdleDurable
  <2>3. CASE disk' = [disk EXCEPT !.pend = worker.token] /\ disk'.pend # disk.pend
    <3>1. disk'.auth = disk.auth /\ disk'.pend = worker.token
      BY <2>3, AgentFields
    <3>2. disk.pend # current
      <4>1. "restaged" \notin holes'
        BY DEF Sound
      <4> QED BY <1>2, <2>3, <4>1 DEF StageOnDisk
    <3>3. \A s \in Requests : ~(req[s].op = "confirm" /\ req[s].token = pending)
      <4> SUFFICES ASSUME NEW s \in Requests, req[s].op = "confirm", req[s].token = pending
                   PROVE  FALSE
        OBVIOUS
      <4>1. req[s].token < worker.token /\ req[s].token \in Nat
        BY <1>2, Numbers DEF StageOnDisk, DurableInv, StageNewer, Busy
      <4>2. pending = minted
        BY <4>1, Numbers
      <4> QED BY <2>0, <4>1, <4>2
    <3> QED BY <1>0, <1>1, <2>0, <2>1, <3>1, <3>2, <3>3, AgentDurable DEF DurableInv
  <2>4. disk' = disk \/ disk' = [disk EXCEPT !.pend = worker.token]
    BY <1>2 DEF StageOnDisk
  <2>5. CASE disk' = [disk EXCEPT !.pend = worker.token] /\ disk'.pend = disk.pend
    <3>1. disk' = disk
      BY <2>5 DEF TypeOK
    <3> QED BY <2>2, <3>1
  <2> QED BY <2>2, <2>3, <2>4, <2>5
<1>3. CASE PromoteOnDisk
  <2>0. /\ OnDisk(worker.token) /\ worker.token # pending /\ mem' = mem
        /\ worker.token = current \/ worker.token \in revoked
    BY <1>3 DEF PromoteOnDisk, DurableInv, WorkerDurable
  <2>1. WorkerDurable' /\ StageNewer'
    BY <1>0, <1>3, <2>0 DEF PromoteOnDisk, Work, WorkerDurable, StageNewer, RowStays
  <2>2. CASE UNCHANGED disk
    BY <1>0, <1>1, <2>0, <2>1, <2>2, IdleDurable
  <2>3. CASE disk' = [auth |-> worker.token, pend |-> NoToken]
    <3>1. disk'.auth = worker.token
      BY <2>3
    <3>2. ASSUME NEW s \in Requests, req[s].op = "confirm", req[s].token = pending, staged
          PROVE  FALSE
      <4>1. disk.pend = pending /\ pending # NoToken
        BY <3>2, Numbers DEF DurableInv, ReqDurable, Busy
      <4> QED BY <2>0, <4>1, OnDiskFacts
    <3>3. CASE worker.token = current
      BY <1>0, <1>1, <2>0, <2>1, <3>1, <3>2, <3>3, AgentDurable DEF DurableInv
    <3>4. CASE worker.token # current /\ disk' # disk
      <4>1. worker.token \in revoked /\ disk.pend # current
        BY <2>0, <3>4, OnDiskFacts
      <4>2. disk.auth # current
        <5>1. "overwritten" \notin holes'
          BY DEF Sound
        <5> QED BY <1>3, <3>4, <4>1, <5>1 DEF PromoteOnDisk
      <4>3. current \in {operator, Enrolled'}
        BY <1>0, <4>1, <4>2 DEF DurableInv
      <4> QED BY <1>0, <1>1, <2>0, <2>1, <3>1, <3>2, <4>3, AgentDurable DEF DurableInv
    <3> QED BY <2>2, <3>3, <3>4
  <2> QED BY <1>3, <2>2, <2>3 DEF PromoteOnDisk
<1>4. CASE SwapMemory
  <2>1. mem' # pending /\ disk' = disk /\ WorkerDurable' /\ StageNewer'
    BY <1>4, WorkerRests DEF SwapMemory, Work, DurableInv, WorkerDurable
  <2>2. \A s \in Requests : req[s].op = "confirm" /\ req[s].token = pending /\ staged =>
            disk'.pend = pending
    BY <2>1 DEF DurableInv, ReqDurable, Busy
  <2> QED BY <1>0, <1>1, <2>1, <2>2, AgentDurable DEF DurableInv
<1>5. CASE Reconcile
  <2>1. UNCHANGED <<disk, mem>>
    BY <1>5 DEF Reconcile
  <2>2. CASE Work("idle", NoToken)
    BY <1>0, <1>1, <2>1, <2>2, WorkerRests, IdleDurable DEF Work
  <2>3. CASE Work("confirm", disk.pend)
    <3>1. WorkerDurable' /\ StageNewer'
      BY <2>1, <2>3 DEF Work, WorkerDurable, OnDisk, StageNewer
    <3> QED BY <1>0, <1>1, <2>1, <3>1, IdleDurable
  <2> QED BY <1>5, <2>2, <2>3 DEF Reconcile
<1> QED BY <1>2, <1>3, <1>4, <1>5

\* The agent's new request: a heartbeat with the token in memory, a confirmation of the
\* token on disk, sent when no new token is on its way.
LEMMA SendDurable ==
    ASSUME TypeOK, DurableInv, NEW op \in {"rotate", "confirm", "heartbeat"},
           NEW from \in {"worker", "loop"}, NEW t \in Nat, Send(op, from, t), RowStays,
           UNCHANGED <<disk, mem, enroller>>,
           op = "heartbeat" => t # pending,
           op = "confirm" => /\ t = pending => disk.pend = t
                             /\ \A s \in Requests : ~(req[s].op = "rotate" /\ Answered(s, "ok")),
           WorkerDurable', worker'.step = "stage" => UNCHANGED worker /\ op # "confirm"
    PROVE  DurableInv'
<1>1. PICK r \in Requests :
        /\ Others(r) /\ req'[r].op = op /\ req'[r].token = t
        /\ req'[r].match = "none" /\ req'[r].step = "auth"
  BY SendFacts
<1>2. \A s \in Requests : s # r => req'[s] = req[s]
  BY <1>1 DEF Others
<1>3. ReqDurable(r)'
  BY <1>1 DEF ReqDurable, Answered, RowStays
<1>4. ASSUME NEW s \in Requests, s # r, Busy(s)' PROVE ReqDurable(s)'
  <2>1. req'[s] = req[s] /\ ReqDurable(s)
    BY <1>2, <1>4 DEF DurableInv, Busy
  <2>2. req[s].op = "rotate" /\ Answered(s, "ok") =>
            \A x \in Requests : req'[x].op = "confirm" => req'[x].token < req[s].target
    BY <1>1, <1>2, <2>1 DEF ReqDurable
  <2> QED BY <2>1, <2>2 DEF ReqDurable, Answered, RowStays
<1>5. StageNewer'
  BY <1>1, <1>2 DEF StageNewer, DurableInv
<1>6. Enrolled' = Enrolled
  BY DEF Enrolled
<1> QED BY <1>3, <1>4, <1>5, <1>6 DEF DurableInv, RowStays

\* Sending keeps the durability invariant.
LEMMA AgentSendDurable ==
    ASSUME TypeOK, ControlInv, RevokedInv, DurableInv, Rotate \/ Confirm \/ Heartbeat
    PROVE  DurableInv'
<1>0. RowStays /\ UNCHANGED <<disk, mem, enroller>>
  BY DEF Rotate, Confirm, Heartbeat, RowStays, rowVars, historyVars, agentVars
<1>t. mem \in Nat /\ mem # pending
  BY DEF TypeOK, DurableInv
<1>1. CASE Rotate
  <2>1. worker'.step = "rotating" /\ WorkerDurable'
    BY <1>1, WorkerRests DEF Rotate, Work
  <2> QED BY <1>0, <1>t, <1>1, <2>1, SendDurable DEF Rotate
<1>2. CASE Confirm
  <2>1. /\ worker.token \in Nat /\ OnDisk(worker.token) /\ worker.step = "confirm"
        /\ worker.token = pending => disk.pend = worker.token
    BY <1>2, OnDiskFacts DEF Confirm, ControlInv, DurableInv, WorkerDurable
  <2>2. worker'.step = "confirming" /\ worker'.token = worker.token
    BY <1>2 DEF Confirm, Work
  <2>3. WorkerDurable'
    BY <1>0, <2>1, <2>2 DEF WorkerDurable, OnDisk, Dead, RowStays
  <2>4. \A s \in Requests : ~(req[s].op = "rotate" /\ Answered(s, "ok"))
    BY <2>1, WorkersAnswer DEF At, Answered
  <2> QED BY <1>0, <1>2, <2>1, <2>2, <2>3, <2>4, SendDurable DEF Confirm
<1>3. CASE Heartbeat
  <2>1. UNCHANGED worker /\ Send("heartbeat", "loop", mem)
    BY <1>3 DEF Heartbeat, agentVars
  <2>2. WorkerDurable'
    BY <1>0, <2>1 DEF WorkerDurable, OnDisk, Dead, DurableInv, RowStays
  <2> QED BY <1>0, <1>t, <2>1, <2>2, SendDurable
<1> QED BY <1>1, <1>2, <1>3

\* A restart goes on with the token on disk.
LEMMA RestartDurable ==
    ASSUME TypeOK, DurableInv, Restart
    PROVE  DurableInv'
<1>0. RowStays /\ Enrolled' = Enrolled
  BY DEF Restart, RowStays, rowVars, historyVars, Enrolled
<1>1. \A s \in Requests : SlotStays(s)
  BY BootFacts DEF Restart, SlotStays
<1>2. disk' = disk /\ mem' = disk.auth
  BY DEF Restart
<1>3. WorkerDurable' /\ StageNewer'
  BY WorkerRests DEF Restart, Work
<1>4. \A s \in Requests : req[s].op = "confirm" /\ req[s].token = pending /\ staged =>
          disk'.pend = pending
  BY <1>2 DEF DurableInv, ReqDurable, Busy
<1> QED BY <1>0, <1>1, <1>2, <1>3, <1>4, AgentDurable DEF DurableInv

\* An operator's rotation or an enrollment: whoever was answered holds the new token, and
\* all that the agent and its requests hold is revoked.
LEMMA ResetDurable ==
    ASSUME TypeOK, ControlInv, MintedInv, RevokedInv, DurableInv, RowMoves, Reset,
           UNCHANGED <<req, agentVars>>, current' \in {operator', Enrolled'}
    PROVE  DurableInv'
<1>0. minted \in Nat /\ NoToken \notin Nat /\ mem \in Nat /\ disk.auth \in Nat
  BY Numbers
<1>1. current' = minted + 1 /\ pending' = NoToken /\ revoked' = 0..minted
  BY DEF Reset
<1>2. UNCHANGED <<req, mem, disk, worker>>
  BY DEF agentVars
<1>3. WorkerDurable' /\ StageNewer'
  <2>1. worker.step \in {"promote", "swap"} =>
            worker.token \in Nat /\ worker.token <= minted /\ worker.token \in 0..minted
    BY <1>0, Numbers DEF ControlInv
  <2>2. OnDisk(worker.token) => OnDisk(worker.token)'
    BY <1>2, RevokedGrows DEF OnDisk
  <2>3. StageNewer'
    BY <1>2 DEF StageNewer, DurableInv
  <2> QED BY <1>0, <1>1, <1>2, <2>1, <2>2, <2>3 DEF WorkerDurable, DurableInv
<1>4. ASSUME NEW s \in Requests, Busy(s)' PROVE ReqDurable(s)'
  <2>1. Busy(s) /\ ReqDurable(s) /\ req[s].token \in Nat /\ req[s].token <= minted
    BY <1>2, <1>4, Numbers DEF DurableInv, Busy
  <2>2. req[s].token # current' /\ req[s].token # pending' /\ req[s].token \in revoked'
    BY <1>0, <1>1, <2>1
  <2> QED BY <1>2, <2>1, <2>2 DEF ReqDurable, Answered
<1> QED BY <1>0, <1>1, <1>2, <1>3, <1>4 DEF DurableInv

\* The enroll command's save: the file gets the current token, and the staged token it
\* keeps or puts back is revoked like the one the worker holds.
LEMMA EnrollSavesDurable ==
    ASSUME TypeOK, ControlInv, MintedInv, EnrollInv, DurableInv, EnrollSaves
    PROVE  DurableInv'
<1>0. /\ pending = NoToken /\ enroller.token \in Nat /\ NoToken \notin Nat
      /\ current \in {enroller.token, operator}
      /\ Dead(enroller.pend) /\ Dead(disk.pend) /\ Dead(worker.token)
  BY Numbers DEF EnrollSaves, EnrollInv, AgentDead
<1>1. disk'.auth = enroller.token /\ disk'.pend \in {enroller.pend, disk.pend}
  BY <1>0, EnrollFields DEF EnrollSaves
<1>2. RowStays /\ UNCHANGED <<req, mem, worker>>
  BY DEF EnrollSaves, RowStays, rowVars, historyVars
<1>3. WorkerDurable' /\ StageNewer'
  <2>1. worker.step \in {"confirm", "confirming", "promote"} => worker.token \in revoked
    BY <1>0 DEF ControlInv, Dead
  <2>2. worker.step \in {"confirm", "confirming", "promote"} => OnDisk(worker.token)'
    BY <1>0, <1>1, <1>2, <2>1 DEF OnDisk, Dead, RowStays
  <2> QED BY <1>2, <2>2 DEF WorkerDurable, StageNewer, DurableInv, RowStays
<1>4. \A s \in Requests : ~(req[s].op = "confirm" /\ req[s].token = pending)
  BY <1>0, Numbers DEF Busy
<1>5. mem' # pending /\ disk'.auth # pending /\ \A s \in Requests : SlotStays(s)
  BY <1>0, <1>1, <1>2 DEF SlotStays, DurableInv
<1> QED BY <1>0, <1>1, <1>2, <1>3, <1>4, <1>5, AgentDurable

\* Nothing changes but that a window closes, or that the enroll command goes on.
LEMMA LapseDurable ==
    ASSUME TypeOK, DurableInv, staged' => staged,
           UNCHANGED <<current, pending, req, mem, disk, worker, operator, revoked>>,
           current \in {disk.auth, disk.pend, operator, Enrolled'}
    PROVE  DurableInv'
<1>1. ASSUME NEW s \in Requests, Busy(s)' PROVE ReqDurable(s)'
  <2>1. ReqDurable(s)
    BY <1>1 DEF DurableInv, Busy
  <2> QED BY <2>1, Zenon DEF ReqDurable, Answered
<1> QED BY <1>1 DEF DurableInv, WorkerDurable, OnDisk, Dead, StageNewer

\* The enroll command, step by step.
LEMMA EnrollDurable ==
    ASSUME TypeOK, ControlInv, MintedInv, RevokedInv, EnrollInv, DurableInv, RowMoves, Sound',
           EnrollLoads \/ EnrollChecked \/ EnrollResets \/ EnrollSaves \/ EnrollFails
    PROVE  DurableInv'
<1>0. current # NoToken /\ NoToken \in Token /\ minted + 1 \in Token
  BY Numbers DEF Token
<1>1. CASE EnrollResets
  <2>1. enroller'.step = "answered" /\ enroller'.token = minted + 1
    BY <1>0, <1>1, EnrollerMoves DEF EnrollResets
  <2>2. current' = Enrolled'
    BY <1>1, <2>1 DEF EnrollResets, Reset, Enrolled
  <2> QED BY <1>1, <2>2, ResetDurable DEF EnrollResets
<1>2. CASE EnrollLoads \/ EnrollChecked \/ EnrollFails
  <2>1. UNCHANGED <<current, pending, staged, req, mem, disk, worker, operator, revoked>>
    BY <1>2 DEF EnrollLoads, EnrollChecked, EnrollFails, rowVars, agentVars, historyVars
  <2>2. current # Enrolled
    <3>1. CASE EnrollLoads \/ EnrollChecked
      BY <1>0, <3>1 DEF EnrollLoads, EnrollChecked, Enrolled
    <3>2. CASE EnrollFails
      <4>1. "unsaved" \notin holes'
        BY DEF Sound
      <4> QED BY <3>2, <4>1 DEF EnrollFails
    <3> QED BY <1>2, <3>1, <3>2
  <2> QED BY <2>1, <2>2, LapseDurable DEF DurableInv
<1> QED BY <1>1, <1>2, EnrollSavesDurable

\* The durability invariant is inductive over sound states.
LEMMA DurableInductive ==
    ASSUME TypeOK, ControlInv, MintedInv, RevokedInv, EnrollInv, DurableInv, RowMoves,
           Sound, [Next]_vars, Sound'
    PROVE  DurableInv'
<1>1. ASSUME NEW r \in Requests, Server(r) \/ HandlerFails(r) PROVE DurableInv'
  <2>1. CASE Authenticate(r) \/ ReadConfirm(r) \/ ReadHeartbeat(r) \/ HandlerFails(r)
    <3>1. RestStays
      BY <2>1 DEF Authenticate, ReadConfirm, ReadHeartbeat, HandlerFails, rowVars, historyVars,
                  RestStays
    <3>2. Busy(r) /\ Handles(r)
      BY <2>1, HandlerSteps
    <3> QED BY <3>1, <3>2, HandlesDurable
  <2> QED BY <1>1, <2>1, StageDurable, PromoteDurable DEF Server
<1>2. CASE Worker
  BY <1>2, AgentSendDurable, DiskDurable, ReceiveDurable DEF Worker
<1>3. CASE Loop
  BY <1>3, AgentSendDurable, ReceiveDurable DEF Loop
<1>e. UNCHANGED enroller => current \in {disk.auth, disk.pend, operator, Enrolled'}
  BY DEF DurableInv, Enrolled
<1>4. CASE SaveTo
  <2>1. disk' = disk
    <3>1. "saved" \notin holes'
      BY DEF Sound
    <3> QED BY <1>4, <3>1 DEF SaveTo
  <2> QED BY <1>e, <1>4, <2>1, LapseDurable DEF SaveTo, rowVars
<1>5. CASE RevealForSave
  BY <1>e, <1>5, LapseDurable DEF RevealForSave, rowVars
<1>6. CASE LapsePending \/ LapseGrace \/ FallDue
  <2>1. UNCHANGED <<current, pending, req, mem, disk, worker, operator, revoked, enroller>>
    BY <1>6 DEF LapsePending, LapseGrace, FallDue, agentVars, historyVars
  <2>2. staged' => staged
    BY <1>6, Zenon DEF LapsePending, LapseGrace, FallDue
  <2> QED BY <1>e, <2>1, <2>2, LapseDurable
<1>7. CASE UNCHANGED vars
  BY <1>e, <1>7, LapseDurable DEF vars, rowVars, agentVars, historyVars
<1>8. CASE AdminRotate
  BY <1>8, ResetDurable DEF AdminRotate, Reset
<1> QED BY <1>1, <1>2, <1>3, <1>4, <1>5, <1>6, <1>7, <1>8, GiveUpDurable, RestartDurable,
           EnrollDurable DEF Next

-----------------------------------------------------------------------------
(* The theorems.                                                           *)

\* The initial state satisfies the inductive invariant.
LEMMA InitInductive == Init => IndInv
<1> SUFFICES ASSUME Init PROVE IndInv
  OBVIOUS
<1>0. NoToken \notin Nat /\ NoToken \in Token /\ 0 \in Nat /\ 0 \in Token
  BY TokenAssumption DEF Token
<1>1. TypeOK
  BY <1>0 DEF Init, TypeOK, Idle, WorkerSteps, NoEnroll
<1>2. \A r \in Requests : req[r].op = "none"
  BY DEF Init, Free
<1>3. worker.step = "idle" /\ worker.token = NoToken
  BY DEF Init, Idle
<1>4. ControlInv
  BY <1>2, <1>3 DEF ControlInv, Busy
<1>5. MintedInv
  BY <1>0, <1>2, <1>3 DEF Init, MintedInv, Minted, Busy, NoEnroll
<1>6. RevokedInv
  BY DEF Init, RevokedInv
<1>7. DurableInv
  BY <1>0, <1>2, <1>3 DEF Init, DurableInv, Busy, WorkerDurable, StageNewer
<1>8. EnrollInv
  BY DEF Init, NoEnroll, EnrollInv
<1> QED BY <1>1, <1>4, <1>5, <1>6, <1>7, <1>8 DEF IndInv

\* Every step keeps the inductive invariant.
LEMMA StepInductive == IndInv /\ [Next]_vars => IndInv'
<1> SUFFICES ASSUME IndInv, [Next]_vars PROVE IndInv'
  OBVIOUS
<1>1. TypeOK /\ ControlInv /\ MintedInv /\ RevokedInv /\ EnrollInv /\ (Sound => DurableInv)
  BY DEF IndInv
<1>2. TypeOK' /\ ControlInv' /\ RowMoves
  BY <1>1, TypeInductive, ControlInductive, EveryRowMove
<1>3. MintedInv' /\ RevokedInv' /\ EnrollInv'
  BY <1>1, <1>2, MintedInductive, RevokedInductive, EnrollInductive
<1>4. Sound' => DurableInv'
  BY <1>1, <1>2, SoundBefore, DurableInductive
<1> QED BY <1>2, <1>3, <1>4 DEF IndInv

\* The inductive invariant holds in every reachable state.
LEMMA Invariance == Spec => []IndInv
BY InitInductive, StepInductive, PTL DEF Spec

\* The device's row, the requests in the server and the agent keep their types
\* through every handler, crash and reset: in particular a staged or returned token is
\* a token wherever the agent writes one as its own.
THEOREM TypeCorrect == Spec => []TypeOK
<1>1. IndInv => TypeOK
  BY DEF IndInv
<1> QED BY <1>1, Invariance, PTL

\* Whatever rotation, confirmation or heartbeat was in flight when an operator's
\* rotation or a re-enrollment revoked a token, the token never authenticates again:
\* promotePendingAgentCredentials makes current only what the row still holds as
\* pending, which every revocation clears.
THEOREM RevokedDead == Spec => []RevokedStaysDead
<1>1. IndInv => RevokedStaysDead
  BY MatchFacts DEF IndInv, RevokedInv, RevokedStaysDead
<1> QED BY <1>1, Invariance, PTL

\* A two-phase agent has the server's current token on disk at every crash point,
\* however many requests it gave up on are still running, unless an operator or a running
\* enroll command holds it, and except in the cases CurrentIsDurable names:
\* StagePendingCredentials writes before confirmTokenRotation asks, what it writes over is
\* older than anything a request can still promote, and between an enrollment's commit and
\* its save nothing the agent holds can be staged or promoted.
THEOREM CurrentDurable == Spec => []CurrentIsDurable
<1>1. IndInv => CurrentIsDurable
  BY DEF IndInv, Sound, DurableInv, CurrentIsDurable
<1> QED BY <1>1, Invariance, PTL
=============================================================================
