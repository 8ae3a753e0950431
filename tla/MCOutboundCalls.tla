-------------------------- MODULE MCOutboundCalls --------------------------
(* OutboundCalls for TLC: the ids of calls are interchangeable. *)
EXTENDS OutboundCalls, TLC

\* Bound: turns and edits are tried without faults, and in calls without names,
\* as they have nothing to do with the names in greetings.
MCNext == Next /\ (turns' = 0 \/ (faults' = 0 /\ named = {}))
MCSpec == Init /\ [][MCNext]_vars

Symmetry == Permutations(Calls)

=============================================================================
