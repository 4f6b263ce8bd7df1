--------------------------- MODULE IntentContract ---------------------------
(***************************************************************************)
(* What the approval layer promises its users, without rows, transactions, *)
(* approvers or workers: an action is performed at most once, only after   *)
(* it was approved and then begun; what was withdrawn (rejected, cancelled *)
(* or expired) or refused (begun and then not executed) is never           *)
(* performed; what is recorded stays.                                      *)
(*                                                                         *)
(* A durable execution is settled only once it has been performed.  An     *)
(* inline one, by a chat session, may be reported before: it may still be  *)
(* performed then, and so may one that was given up as lost.               *)
(***************************************************************************)
EXTENDS Naturals

CONSTANT Intents

VARIABLES phase, performed

contractVars == <<phase, performed>>

Begun == {"executing", "inline"}
Open == {"pending", "approved"} \cup Begun
Phases == {"none"} \cup Open \cup {"withdrawn", "refused", "settled", "reported", "lost"}

Init ==
    /\ phase = [i \in Intents |-> "none"]
    /\ performed = [i \in Intents |-> 0]

Become(i, from, to) ==
    /\ phase[i] \in from
    /\ phase' = [phase EXCEPT ![i] = to]
    /\ UNCHANGED performed

\* One open intent per idempotency key; without approvers it is withdrawn at once.
Submit(i) ==
    /\ \A j \in Intents : phase[j] \notin Open
    /\ Become(i, {"none"}, "pending") \/ Become(i, {"none"}, "withdrawn")

Approve(i) == Become(i, {"pending"}, "approved")
Begin(i) == \E kind \in Begun : Become(i, {"approved"}, kind)
Settle(i) == performed[i] = 1 /\ Become(i, {"executing"}, "settled")
Report(i) == Become(i, {"inline"}, "reported")
Refuse(i) == performed[i] = 0 /\ Become(i, Begun, "refused")
Lose(i) == Become(i, Begun, "lost")

Withdraw(S) ==
    /\ \A i \in S : phase[i] \in {"pending", "approved"}
    /\ phase' = [i \in Intents |-> IF i \in S THEN "withdrawn" ELSE phase[i]]
    /\ UNCHANGED performed

Perform(i) ==
    /\ phase[i] \in Begun \cup {"reported", "lost"}
    /\ performed[i] = 0
    /\ performed' = [performed EXCEPT ![i] = 1]
    /\ UNCHANGED phase

Next ==
    \/ \E i \in Intents :
          \/ Submit(i) \/ Approve(i) \/ Begin(i) \/ Perform(i)
          \/ Settle(i) \/ Report(i) \/ Refuse(i) \/ Lose(i)
    \/ \E S \in SUBSET Intents : Withdraw(S)

Spec == Init /\ [][Next]_contractVars
=============================================================================
