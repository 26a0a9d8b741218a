----------------------- MODULE MCAllocationScenarios ------------------------
(* Values of the constants of AllocationScenarios for TLC. *)
EXTENDS AllocationScenarios, TLC

CONSTANTS a1, a2, a3

MCSymmetry == Permutations({a1, a2, a3})
=============================================================================
