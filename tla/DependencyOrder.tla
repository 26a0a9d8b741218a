--------------------------- MODULE DependencyOrder ---------------------------
(***************************************************************************)
(* The three searches of the repository over a graph of dependencies: the  *)
(* depth-first search for one cycle (governance_check.py), for all of them *)
(* (remediation_intent.py) and the rounds of ready processes               *)
(* (ticket-readiness.mjs).  A graph gives each node the sequence of its    *)
(* dependencies; those that are not nodes are passed over.  A search is a  *)
(* loop over its state, the calls of a recursion a stack in it.            *)
(***************************************************************************)
EXTENDS Naturals, Sequences, FiniteSets, SequencesExt

\* What can be come to from a node: what is in every set of nodes that holds its dependencies
\* and those of all it holds.
Closed(graph, S) == \A n \in S : ToSet(graph[n]) \cap DOMAIN graph \subseteq S

Reaches(graph, from) ==
  {m \in DOMAIN graph : \A S \in SUBSET DOMAIN graph :
     ToSet(graph[from]) \cap DOMAIN graph \subseteq S /\ Closed(graph, S) => m \in S}

OnCycle(graph) == {n \in DOMAIN graph : n \in Reaches(graph, n)}

From(trail, n) == SubSeq(trail, CHOOSE i \in 1..Len(trail) : trail[i] = n, Len(trail))

------------------------------------------------------------------------------
(* find_dependency_cycle, _cycles: depth first. The trail has the nodes whose *)
(* visit is not over. A node is marked as visited here when it is left, as in *)
(* the first of the two; where it is marked when it is entered, it is asked   *)
(* for on the trail before.                                                   *)

\* How far each list has been gone through: the order, and the dependencies of
\* each node of the trail.
Searches(graph) ==
  {s \in [trail : Seq(DOMAIN graph), next : Seq(Nat), visited : SUBSET DOMAIN graph,
          cycles : Seq(Seq(DOMAIN graph))] : Len(s.next) = Len(s.trail) + 1}

Start == [trail |-> <<>>, next |-> <<1>>, visited |-> {}, cycles |-> <<>>]

List(graph, order, trail, i) == IF i = 1 THEN order ELSE graph[trail[i - 1]]

\* The next one of the innermost list; its node has been visited when there is none.
Visit(graph, order, s) ==
  LET depth == Len(s.trail)
      list  == List(graph, order, s.trail, depth + 1)
      at    == s.next[depth + 1]
      n     == list[at]
      on    == [s EXCEPT !.next[depth + 1] = at + 1]
  IN  IF at > Len(list)
      THEN [trail |-> SubSeq(s.trail, 1, depth - 1), next |-> SubSeq(s.next, 1, depth),
            visited |-> s.visited \cup {s.trail[depth]}, cycles |-> s.cycles]
      ELSE IF n \in ToSet(s.trail)
      THEN [on EXCEPT !.cycles = Append(@, Append(From(s.trail, n), n))]
      ELSE IF n \notin DOMAIN graph \/ n \in s.visited THEN on
      ELSE [on EXCEPT !.trail = Append(@, n), !.next = Append(@, 1)]

\* One cycle is enough, or all lists are at their end.
SearchEnds(order, one, s) ==
  \/ one /\ s.cycles # <<>>
  \/ s.trail = <<>> /\ s.next[1] > Len(order)

Search(graph, order, one) ==
  LET search[s \in Searches(graph)] ==
        IF SearchEnds(order, one, s) THEN s ELSE search[Visit(graph, order, s)]
  IN  search[Start].cycles

\* find_dependency_cycle hands on the trail with the node that it has come back to, and
\* then adds this node again.
Reported(found) == IF found = <<>> THEN <<>> ELSE Append(found[1], Last(found[1]))

\* Mutant: only the first node is started from.
FindCycleFromFirst(graph, order) ==
  Reported(Search(graph, IF order = <<>> THEN <<>> ELSE <<Head(order)>>, TRUE))

FindCycle(graph, order) == Reported(Search(graph, order, TRUE))

Cycles(graph, order) == Search(graph, order, FALSE)

------------------------------------------------------------------------------
(* orderedProcesses: a round goes through all processes, by id, and takes     *)
(* those whose dependencies were complete when it began.                      *)

Rounds(graph) ==
  [taken : Seq(DOMAIN graph), completed : SUBSET DOMAIN graph, at : Nat \ {0}]

Round(graph, order, s) ==
  LET n == order[s.at] IN
  IF s.at > Len(order)
  THEN [taken |-> s.taken, completed |-> ToSet(s.taken), at |-> 1]
  ELSE [taken |-> IF n \notin s.completed /\ ToSet(graph[n]) \subseteq s.completed
                  THEN Append(s.taken, n) ELSE s.taken,
        completed |-> s.completed, at |-> s.at + 1]

\* All are taken, or a whole round took none.
RoundsEnd(order, s) ==
  s.at > Len(order) /\ (Len(s.taken) = Len(order) \/ ToSet(s.taken) = s.completed)

Taken(graph, order) ==
  LET rounds[s \in Rounds(graph)] ==
        IF RoundsEnd(order, s) THEN s ELSE rounds[Round(graph, order, s)]
  IN  rounds[[taken |-> <<>>, completed |-> {}, at |-> 1]].taken

OrderedProcesses(graph, order) ==
  IF /\ \A n \in DOMAIN graph : ToSet(graph[n]) \subseteq DOMAIN graph
     /\ Len(Taken(graph, order)) = Len(order)
  THEN [ok |-> TRUE, processes |-> Taken(graph, order)]
  ELSE [ok |-> FALSE, processes |-> <<>>]

------------------------------------------------------------------------------
\* A trail along the edges that ends where it began.
IsRound(graph, trail) ==
  /\ Len(trail) > 1 /\ trail[1] = Last(trail)
  /\ \A i \in 1..Len(trail) - 1 : trail[i + 1] \in ToSet(graph[trail[i]])
==============================================================================
