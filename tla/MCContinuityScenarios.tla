----------------------- MODULE MCContinuityScenarios ------------------------
(* Values of the constants of ContinuityScenarios for TLC. *)
EXTENDS ContinuityScenarios, TLC

CONSTANTS p1, p2, p3, q1, q2

\* Checkpoint files with one or two checkpoints on their chain: first ones,
\* successors, stale ones and ones of another chain.
Chains(bodies) == {<<b>> : b \in bodies} \cup {<<b, b>> : b \in bodies}
MCInputs == [ticket : Tickets, chain : Chains(Bodies)]
MCFreeInputs == [ticket : Tickets, chain : Chains(FreeBodies)]

MCSymmetry == Permutations({p1, p2, p3}) \cup Permutations({q1, q2})
=============================================================================
