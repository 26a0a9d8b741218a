------------------------- MODULE MCGovernedDelivery --------------------------
EXTENDS GovernedDelivery

\* Two tickets of one workstream with a component in common, one of them with
\* two contracts to choose from; a shared path only integration may change.
MCTicket == {"t1", "t2"}
MCPath == {"a", "b", "s"}
MCOwned == [w \in {"application", "integration"} |->
              IF w = "application" THEN {{"a", "b"}} ELSE {{"s"}, {"a"}}]

Intent(w, patterns, forbidden, depends, delivery) ==
  [schema |-> "v3", workstream |-> w, allowed |-> patterns, forbidden |-> forbidden,
   dependsOn |-> depends, conflictsWith |-> {}, integration |-> NoTicket, delivery |-> delivery]
Contract(components) == [components |-> components, files |-> 2, movesData |-> FALSE]

At(status, workflow, plan) == [status |-> status, workflow |-> workflow, plan |-> plan]

MCMaxPaths == [t \in MCTicket |-> IF t = "t1" THEN 2 ELSE 1]

MCPlans ==
  [t \in MCTicket |->
     IF t = "t1"
     THEN {At(s, "EDIT", Intent("application", {{"a", "b"}}, {{"b"}}, {}, NoDelivery))
             : s \in {"IN_PROGRESS", "BLOCKED"}}
     ELSE {At("IN_PROGRESS", "EDIT", Intent("application", {{"a"}}, {}, {}, Contract({{"a"}}))),
           At("IN_PROGRESS", "PUBLICATION", Intent("integration", {{"s"}}, {}, {"t1"}, Contract({{"s"}})))}]
==============================================================================
