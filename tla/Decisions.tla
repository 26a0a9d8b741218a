------------------------------ MODULE Decisions ------------------------------
(***************************************************************************)
(* The pure decisions of the checkers, asked one question at a time: what a  *)
(* coordination check answers about two patterns, and what the searches over *)
(* dependencies answer about a graph.                                        *)
(***************************************************************************)
EXTENDS PathPatterns, DependencyOrder

CONSTANTS Letters,           \* what names are written with
          Patterns, Paths,   \* patterns asked about, paths they are tried on
          Nodes, Missing,    \* tickets (in order) of a graph, and one there is no record of
          Prerequisites      \* what a ticket may name as its dependencies

\* A pattern that was split at its slashes has a segment.
QuestionAssumption ==
  /\ \A p \in Patterns : p \in Seq(Segments(Letters)) /\ p # <<>>
  /\ Paths \subseteq Seq(Seq(Letters))
  /\ Nodes \in Seq(ToSet(Nodes)) /\ Len(Nodes) = Cardinality(ToSet(Nodes))
  /\ Prerequisites \subseteq Seq(ToSet(Nodes) \cup {Missing})

VARIABLE question

Nothing == [kind |-> "nothing"]

AskPatterns ==
  \E p, q \in Patterns : question' = [kind |-> "patterns", first |-> p, second |-> q]

AskGraph ==
  \E graph \in [ToSet(Nodes) -> Prerequisites] :
    question' = [kind |-> "graph", graph |-> graph]

QuestionInit == question = Nothing
QuestionNext == question = Nothing /\ (AskPatterns \/ AskGraph)

------------------------------------------------------------------------------
Shared(p, q) == {x \in Paths : Matches(x, p) /\ Matches(x, q)}

\* Two scopes that have a path in common are never taken for disjoint, so an
\* overlap of active tickets is found before there is a file in it.
OverlapIsSound ==
  question.kind = "patterns" =>
    /\ Shared(question.first, question.second) # {} =>
         PatternsMayOverlap(question.first, question.second)
    /\ PatternsMayOverlap(question.first, question.second)
         = PatternsMayOverlap(question.second, question.first)

\* A claim that counts as inside what a workstream owns holds no other path,
\* when it has no globstar of its own.
CoverageIsSound ==
  question.kind = "patterns" =>
    LET p == question.first owner == question.second IN
    CoveredBy(p, owner) /\ Globstar \notin ToSet(p) =>
      \A x \in Paths : Matches(x, p) => Matches(x, owner)

\* Both searches find a cycle just when there is one, and what they answer is
\* a way through the graph back to where it began, which the first of them says twice.
CyclesAreFound ==
  question.kind = "graph" =>
    LET graph == question.graph one == FindCycle(graph, Nodes) all == Cycles(graph, Nodes) IN
    /\ (one # <<>>) <=> (OnCycle(graph) # {})
    /\ (all # <<>>) <=> (OnCycle(graph) # {})
    /\ one # <<>> => IsRound(graph, Front(one)) /\ Last(one) = one[1]
    /\ \A c \in ToSet(all) : IsRound(graph, c)

\* Processes are ordered just when every dependency is there and none is
\* circular, and then each comes once, after what it depends on.
ProcessesAreOrdered ==
  question.kind = "graph" =>
    LET graph == question.graph answer == OrderedProcesses(graph, Nodes) IN
    /\ answer.ok <=> /\ \A n \in DOMAIN graph : ToSet(graph[n]) \subseteq DOMAIN graph
                     /\ OnCycle(graph) = {}
    /\ answer.ok =>
         /\ Len(answer.processes) = Len(Nodes) /\ ToSet(answer.processes) = ToSet(Nodes)
         /\ \A i \in 1..Len(Nodes) :
              ToSet(graph[answer.processes[i]]) \subseteq {answer.processes[j] : j \in 1..i-1}
==============================================================================
