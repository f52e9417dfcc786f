-------------------------- MODULE MCAlertLifecycle --------------------------
(* Instances of AlertLifecycle for TLC. *)
EXTENDS AlertLifecycle, TLC

Consider(requests, operations, overlap, alerts) ==
    [requests |-> requests, operations |-> operations, overlap |-> overlap, alerts |-> alerts]

\* Requests that overlap, on a few operations; every operation, in turns.
MCSettings == {Consider({"high", "healthy"}, {"acknowledge", "events"}, TRUE, 2),
               Consider(AllRequests, AllOperations, FALSE, 3)}

\* Silence, with everything that competes with the loop.
MCSilence == {Consider({"healthy"}, {"acknowledge"}, TRUE, 3)}

Symmetry == Permutations(Ids) \cup Permutations(AgentTxns)
=============================================================================
