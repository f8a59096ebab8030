----------------------------- MODULE MCIntegration -----------------------------
(* Two publishers and two handlers of one subscription.                         *)
EXTENDS IntegrationFlow, TLC

\* One event for the subscription, and one without the trace that a publication needs.
Event(i, traced) == [id |-> i, traced |-> traced, mappable |-> TRUE]
TwoSources == {Event("e", TRUE), Event("u", FALSE)}

Alike == Permutations(Publishers) \cup Permutations(Handlers)

ASSUME InstanceAssumption == BoundsAssumption
=============================================================================
