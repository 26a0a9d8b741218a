---------------------------- MODULE MCChangeLease ---------------------------
(* Values of the constants of ChangeLease for TLC. *)
EXTENDS ChangeLease, TLC

CONSTANTS a1, a2, c1, c2, h1, h2, r1, r2

\* One usable replacement receipt and three that each miss one condition.
MCReplacements ==
    {[ref |-> r1, valid |-> TRUE, outcome |-> "accepted", after |-> "merged"],
     [ref |-> r1, valid |-> TRUE, outcome |-> "rejected", after |-> "merged"],
     [ref |-> r2, valid |-> TRUE, outcome |-> "accepted", after |-> "expired"],
     [ref |-> r2, valid |-> FALSE, outcome |-> "accepted", after |-> "closed"]}

MCSymmetry ==
    Permutations({a1, a2}) \cup Permutations({c1, c2}) \cup Permutations({h1, h2})
=============================================================================
