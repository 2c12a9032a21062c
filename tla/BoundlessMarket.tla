-------------------------- MODULE BoundlessMarket --------------------------
(***************************************************************************)
(* The Boundless Market as the agent sees it.  The market is external: it  *)
(* is modelled from how src/boundless.rs uses it (submit_request_*,        *)
(* get_status, get_request_fulfillment), never from its own code.          *)
(*                                                                         *)
(* A market request is created at most once by each submission task of the *)
(* agent (its retries resend the same ProofRequest), so a market request   *)
(* is named by the submission that created it.                             *)
(***************************************************************************)

CONSTANT Submissions      \* the submission tasks, and the market requests they create

VARIABLE market           \* [Submissions -> MarketStates]

MarketStates == {"absent", "open", "locked", "fulfilled", "expired"}

MarketType == market \in [Submissions -> MarketStates]

MarketInit == market = [s \in Submissions |-> "absent"]

\* A request the market can still lock, fulfil, and charge for.
Unsettled(s) == market[s] \in {"open", "locked"}

Becomes(s, state) == market' = [market EXCEPT ![s] = state]

\* The market accepts the request of submission s.
MarketAccepts(s) == market[s] = "absent" /\ Becomes(s, "open")

\* A prover commits to the request.
MarketLocks(s) == market[s] = "open" /\ Becomes(s, "locked")

\* A proof is delivered, with or without a lock before it.
MarketFulfills(s) == Unsettled(s) /\ Becomes(s, "fulfilled")

\* The request passes its deadline with no proof.
MarketExpires(s) == Unsettled(s) /\ Becomes(s, "expired")

MarketMoves(s) == MarketLocks(s) \/ MarketFulfills(s) \/ MarketExpires(s)
=============================================================================
