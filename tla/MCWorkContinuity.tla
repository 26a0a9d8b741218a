-------------------------- MODULE MCWorkContinuity --------------------------
(* Values of the constants of WorkContinuity for TLC. *)
EXTENDS WorkContinuity, TLC

CONSTANTS p1, p2, p3, t1, t2, s1, s2, b1, b2

\* Checkpoint files with one or two checkpoints on their chain: first ones,
\* successors, stale ones and ones of another chain.
MCInputs ==
    [ticket : Tickets, chain : {<<b>> : b \in Bodies} \cup {<<b, b>> : b \in Bodies}]

MCSymmetry == Permutations({p1, p2, p3})
=============================================================================
