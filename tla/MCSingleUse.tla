----------------------------- MODULE MCSingleUse ------------------------------
(* Values of the constants of SingleUse for TLC. *)
EXTENDS SingleUse

CONSTANTS g1, g2, ann, bob, cid, r1, r2

MCRecipientsOf == [p \in {"p", "q"} |-> IF p = "p" THEN <<ann, bob>> ELSE <<bob, cid>>]
MCPlanOf == [g \in {g1, g2} |-> IF g = g1 THEN "p" ELSE "q"]
MCLastMoment == [g \in {g1, g2} |-> IF g = g1 THEN 1 ELSE 2]

\* One usable replacement receipt and three that each miss one condition.
MCReplacements ==
    {[ref |-> r1, valid |-> TRUE, outcome |-> "accepted", after |-> "merged"],
     [ref |-> r1, valid |-> TRUE, outcome |-> "rejected", after |-> "merged"],
     [ref |-> r2, valid |-> TRUE, outcome |-> "accepted", after |-> "expired"],
     [ref |-> r2, valid |-> FALSE, outcome |-> "accepted", after |-> "closed"]}
==============================================================================
