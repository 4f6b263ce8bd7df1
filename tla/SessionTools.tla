---------------------------- MODULE SessionTools ----------------------------
(***************************************************************************)
(* The tool calls of one AI session and the intents their post-tool hooks  *)
(* settle.  The pre-tool hook that wins a release leaves the intent's id   *)
(* in the session's one slot (pendingIntentBySession); the post-tool hook  *)
(* takes it from there after its own database writes.  The handler waits   *)
(* ten seconds for the hook and then returns, while the hook runs on.      *)
(*                                                                         *)
(* A call starts only when the handler of the one before has returned:     *)
(* nothing here depends on the SDK running two handlers at once.           *)
(***************************************************************************)
EXTENDS Naturals

CONSTANTS
    Calls,    \* the session's tool calls; each of tier 3 has an intent of its own
    Sealed,   \* those whose handler passes the intent's id to its hook
    Vision,   \* screenshot tools, none of them Sealed
    NoCall    \* an empty slot, not a call

VARIABLES
    handler,  \* makeHandler's step, per call
    hook,     \* the post-tool hook's step, per call
    result,   \* what the tool returned, as the hook was told
    target,   \* the intent the hook took from its argument or from the slot
    slot,     \* pendingIntentBySession's entry for the session
    intent,   \* status of each call's intent
    settledBy \* history: the call whose hook settled the intent

vars == <<handler, hook, result, target, slot, intent, settledBy>>

Outcomes == {"completed", "failed"}

TypeOK ==
    /\ handler \in [Calls -> {"new", "pre", "tool", "post", "returned"}]
    /\ hook \in [Calls -> {"none", "writing", "reading", "settling", "done"}]
    /\ result \in [Calls -> Outcomes]
    /\ {slot} \cup {target[c] : c \in Calls} \subseteq Calls \cup {NoCall}
    /\ intent \in [Calls -> {"approved", "executing", "closed"} \cup Outcomes]
    /\ settledBy \in [Calls -> Calls \cup {NoCall}]

Init ==
    /\ handler = [c \in Calls |-> "new"]
    /\ hook = [c \in Calls |-> "none"]
    /\ result = [c \in Calls |-> "failed"]
    /\ target = [c \in Calls |-> NoCall]
    /\ slot = NoCall
    /\ intent = [c \in Calls |-> "approved"]
    /\ settledBy = [c \in Calls |-> NoCall]

Step(c, from, to) == handler[c] = from /\ handler' = [handler EXCEPT ![c] = to]
HookStep(c, from, to) == hook[c] = from /\ hook' = [hook EXCEPT ![c] = to]

(* The handler awaits the hook, which it tells how the tool ended. *)
CallHook(c, outcome) ==
    /\ HookStep(c, "none", "writing")
    /\ result' = [result EXCEPT ![c] = outcome]
    /\ UNCHANGED target

StartCall(c) ==
    /\ \A d \in Calls : handler[d] \in {"new", "returned"}
    /\ Step(c, "new", "pre")
    /\ UNCHANGED <<hook, result, target, slot, intent, settledBy>>

(* The pre-tool hook wins the release and revalidates it: the tool runs. *)
WinRelease(c) ==
    /\ Step(c, "pre", "tool")
    /\ intent[c] = "approved" /\ intent' = [intent EXCEPT ![c] = "executing"]
    /\ slot' = c
    /\ UNCHANGED <<hook, result, target, settledBy>>

(* The pre-tool hook refuses the call.  Its intent is closed (denied,      *)
(* expired, or failed by the revalidation) or the durable worker won the   *)
(* release and executes it.  The post-tool hook runs all the same.         *)
RefuseCall(c) ==
    /\ Step(c, "pre", "post")
    /\ \E s \in {"closed", "executing"} : intent' = [intent EXCEPT ![c] = s]
    /\ CallHook(c, "failed")
    /\ UNCHANGED <<slot, settledBy>>

(* The tool returns, throws or runs out of its own time. *)
ToolEnds(c, outcome) ==
    /\ Step(c, "tool", "post")
    /\ CallHook(c, outcome)
    /\ UNCHANGED <<slot, intent, settledBy>>

(* A screenshot tool whose answer does not parse: no hook runs. *)
VisionUnparsed(c) ==
    /\ c \in Vision
    /\ Step(c, "tool", "returned")
    /\ UNCHANGED <<hook, result, target, slot, intent, settledBy>>

(* The hook stores the tool's result and its execution record. *)
HookWrites(c) ==
    /\ HookStep(c, "writing", "reading")
    /\ UNCHANGED <<handler, result, target, slot, intent, settledBy>>

(* The hook takes the intent it will settle; the entry is deleted whatever *)
(* it holds.  A call refused, or one whose tool threw, passes no sealed    *)
(* result.                                                                 *)
HookTakes(c) ==
    LET own == c \in Sealed /\ result[c] = "completed"
        id == IF own THEN c ELSE slot
    IN  /\ HookStep(c, "reading", IF id = NoCall THEN "done" ELSE "settling")
        /\ target' = [target EXCEPT ![c] = id]
        /\ slot' = NoCall
        /\ UNCHANGED <<handler, result, intent, settledBy>>

(* transitionIntent(id, 'executing', ...): a lost CAS changes nothing. *)
HookSettles(c) ==
    LET i == target[c]
    IN  /\ HookStep(c, "settling", "done")
        /\ IF intent[i] = "executing"
           THEN /\ intent' = [intent EXCEPT ![i] = result[c]]
                /\ settledBy' = [settledBy EXCEPT ![i] = c]
           ELSE UNCHANGED <<intent, settledBy>>
        /\ UNCHANGED <<handler, result, target, slot>>

(* The handler returns: the hook has ended, or ten seconds have passed. *)
HandlerReturns(c) ==
    /\ Step(c, "post", "returned")
    /\ UNCHANGED <<hook, result, target, slot, intent, settledBy>>

Next ==
    \E c \in Calls :
        \/ StartCall(c) \/ WinRelease(c) \/ RefuseCall(c)
        \/ \E o \in Outcomes : ToolEnds(c, o)
        \/ VisionUnparsed(c) \/ HandlerReturns(c)
        \/ HookWrites(c) \/ HookTakes(c) \/ HookSettles(c)

Spec == Init /\ [][Next]_vars

(* What aiAgentSdk.ts:51-55 claims of the slot: one pending id per session *)
(* is sufficient, that is, the intent a post-tool hook settles is the one  *)
(* its own tool ran under.                                                 *)
SettledByOwnCall == \A c \in Calls : settledBy[c] \in {NoCall, c}
=============================================================================
