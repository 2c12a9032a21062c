--------------------------- MODULE ProofLifecycle ---------------------------
(***************************************************************************)
(* What the agent promises a client about one request, in the words of its *)
(* own API description (src/api/boundless_agent_api.rs):                   *)
(*   preparing -> submitted -> in_progress -> completed/failed             *)
(* plus the two liberties the code takes: a failed request may be tried    *)
(* again from the start, and a finished request may be forgotten.          *)
(* A request that is under way is never forgotten, a completed one never   *)
(* changes its outcome, and no request moves backwards.                    *)
(***************************************************************************)
CONSTANT Requests

VARIABLE phase            \* [Requests -> Phases]

Phases == {"none", "preparing", "submitted", "in_progress", "completed", "failed"}

UnderWay == {"preparing", "submitted", "in_progress"}

Finished == {"completed", "failed"}

Init == phase = [r \in Requests |-> "none"]

Moves(r, from, to) ==
    /\ phase[r] \in from
    /\ phase' = [phase EXCEPT ![r] = to]

Accept(r)   == Moves(r, {"none", "failed"}, "preparing")
Submit(r)   == Moves(r, {"preparing"}, "submitted")
Progress(r) == Moves(r, {"submitted"}, "in_progress")
Complete(r) == Moves(r, {"submitted", "in_progress"}, "completed")
Fail(r)     == Moves(r, UnderWay, "failed")

\* Clean-up removes several requests at once, finished ones only.
Forget(S) ==
    /\ \A r \in S : phase[r] \in Finished
    /\ phase' = [r \in Requests |-> IF r \in S THEN "none" ELSE phase[r]]

Next ==
    \/ \E r \in Requests : 
         Accept(r) \/ Submit(r) \/ Progress(r) \/ Complete(r) \/ Fail(r)
    \/ \E S \in SUBSET Requests : Forget(S)

Spec == Init /\ [][Next]_phase
=============================================================================
