------------------------- MODULE StandaloneToolsProofs ------------------------
(***************************************************************************)
(* Proofs about the tools that run on their own, for any tickets, files,   *)
(* people, steps, documents and packages.  A behaviour is of one tool, so  *)
(* each invariant is kept by the steps of its own tool, and the others     *)
(* leave its variables alone.                                              *)
(***************************************************************************)
EXTENDS StandaloneTools, Sequences, FiniteSetTheorems, TLAPS

-----------------------------------------------------------------------------
(* Decisions: an overlap is found, what is covered is inside, and graphs   *)
(* are searched.                                                           *)

\* What DecisionsProofs shows of patterns and graphs.
Answered == INSTANCE DecisionsProofs

\* Decisions and DecisionsProofs mean the same by their operators on patterns.
LEMMA SamePatterns ==
  /\ \A L : Questions!Segments(L) = Answered!Segments(L)
  /\ \A x, p : Questions!Matches(x, p) = Answered!Matches(x, p)
  /\ \A p, q : Questions!PatternsMayOverlap(p, q) = Answered!PatternsMayOverlap(p, q)
  /\ \A p, q : Questions!CoveredBy(p, q) = Answered!CoveredBy(p, q)
  /\ Questions!Globstar = Answered!Globstar
  /\ \A s : Questions!ToSet(s) = Answered!ToSet(s)
<1>1. Questions!Globstar = Answered!Globstar
  BY DEF Questions!Globstar, Answered!Globstar
<1>2. \A s : Questions!ToSet(s) = Answered!ToSet(s)
  BY DEF Questions!ToSet, Answered!ToSet
<1>3. \A L : Questions!Segments(L) = Answered!Segments(L)
  BY <1>1 DEF Questions!Segments, Answered!Segments
<1>4. \A x, p : Questions!Matches(x, p) = Answered!Matches(x, p)
  BY DEF Questions!Matches, Answered!Matches, Questions!Places, Answered!Places,
      Questions!Globstar, Answered!Globstar, Questions!NameMatches, Answered!NameMatches,
      Questions!Magic, Answered!Magic, Questions!IsPrefix, Answered!IsPrefix,
      Questions!IsSuffix, Answered!IsSuffix, Questions!Reverse, Answered!Reverse
<1>5. \A p, q : Questions!PatternsMayOverlap(p, q) = Answered!PatternsMayOverlap(p, q)
  BY DEF Questions!PatternsMayOverlap, Answered!PatternsMayOverlap, Questions!SegmentsMayOverlap,
      Answered!SegmentsMayOverlap, Questions!Places, Answered!Places, Questions!Globstar,
      Answered!Globstar, Questions!NameMatches, Answered!NameMatches, Questions!Magic,
      Answered!Magic, Questions!IsPrefix, Answered!IsPrefix, Questions!IsSuffix,
      Answered!IsSuffix, Questions!Reverse, Answered!Reverse
<1>6. \A s, t : Questions!SegmentCoveredBy(s, t) = Answered!SegmentCoveredBy(s, t)
  BY DEF Questions!SegmentCoveredBy, Answered!SegmentCoveredBy, Questions!Glob, Answered!Glob,
      Questions!NameMatches, Answered!NameMatches, Questions!Magic, Answered!Magic,
      Questions!IsPrefix, Answered!IsPrefix, Questions!IsSuffix, Answered!IsSuffix,
      Questions!Reverse, Answered!Reverse
<1>7. \A s : Questions!Magic(s) = Answered!Magic(s) /\ Questions!Last(s) = Answered!Last(s)
  BY DEF Questions!Magic, Answered!Magic, Questions!Last, Answered!Last
<1>8. \A p, q : Questions!CoveredBy(p, q) = Answered!CoveredBy(p, q)
  BY <1>1, <1>2, <1>4, <1>6, <1>7 DEF Questions!CoveredBy, Answered!CoveredBy
<1> QED BY <1>1, <1>2, <1>3, <1>4, <1>5, <1>8

\* The questions that are asked.
QuestionIsAsked ==
  \/ question = Questions!Nothing
  \/ \E p, q \in Patterns : question = [kind |-> "patterns", first |-> p, second |-> q]
  \/ \E g \in [Questions!ToSet(Nodes) -> Prerequisites] : question = [kind |-> "graph", graph |-> g]

LEMMA QuestionsAreAsked == ToolsSpec => [](topic = "questions" => QuestionIsAsked)
<1>1. ToolsInit => (topic = "questions" => QuestionIsAsked)
  BY DEF ToolsInit, Questions!QuestionInit, QuestionIsAsked
<1>2. (topic = "questions" => QuestionIsAsked) /\ [ToolsNext]_toolVars
        => (topic = "questions" => QuestionIsAsked)'
  <2> SUFFICES ASSUME topic = "questions" => QuestionIsAsked, [ToolsNext]_toolVars,
                      topic' = "questions"
               PROVE  QuestionIsAsked'
    OBVIOUS
  <2>1. CASE UNCHANGED toolVars
    BY <2>1 DEF toolVars, questionsVars, QuestionIsAsked
  <2>2. CASE ToolsNext
    <3>1. topic = "questions" /\ Questions!QuestionNext
      BY <2>2 DEF ToolsNext
    <3>2. CASE Questions!AskPatterns
      BY <3>2 DEF Questions!AskPatterns, QuestionIsAsked
    <3>3. CASE Questions!AskGraph
      BY <3>3 DEF Questions!AskGraph, QuestionIsAsked
    <3> QED BY <3>1, <3>2, <3>3 DEF Questions!QuestionNext
  <2> QED BY <2>1, <2>2
<1> QED BY <1>1, <1>2, PTL DEF ToolsSpec

\* Two scopes with a path in common are never taken for disjoint, whichever is named first, and
\* a scope that is taken for covered has no path outside its owner's (patterns_may_overlap,
\* pattern_covered_by): for patterns of any length over any letters.
THEOREM PatternsStaySound == ToolsSpec => []PatternsAreSound
<1>1. (topic = "questions" => QuestionIsAsked) => PatternsAreSound
  <2> SUFFICES ASSUME topic = "questions", QuestionIsAsked
               PROVE  Questions!OverlapIsSound /\ Questions!CoverageIsSound
    BY DEF PatternsAreSound
  <2> SUFFICES ASSUME NEW p \in Patterns, NEW q \in Patterns,
                      question = [kind |-> "patterns", first |-> p, second |-> q]
               PROVE  Questions!OverlapIsSound /\ Questions!CoverageIsSound
    BY DEF QuestionIsAsked, Questions!Nothing, Questions!OverlapIsSound, Questions!CoverageIsSound
  <2>1. /\ p \in Seq(Answered!Segments(Letters)) /\ q \in Seq(Answered!Segments(Letters))
        /\ q # <<>> /\ \A x \in Paths : x \in Seq(Seq(Letters))
    BY ToolsAssumption, SamePatterns DEF Questions!QuestionAssumption
  <2>2. ASSUME NEW x \in Paths, Questions!Matches(x, p), Questions!Matches(x, q)
        PROVE  Questions!PatternsMayOverlap(p, q)
    <3>1. Answered!Matches(x, p) /\ Answered!Matches(x, q)
      BY <2>2, SamePatterns
    <3>2. Answered!PatternsMayOverlap(p, q)
      BY <2>1, <3>1, Answered!SharedPathsOverlap
    <3> QED BY <3>2, SamePatterns
  <2>3. Questions!PatternsMayOverlap(p, q) = Questions!PatternsMayOverlap(q, p)
    <3>1. Answered!PatternsMayOverlap(p, q) = Answered!PatternsMayOverlap(q, p)
      BY <2>1, Answered!OverlapIsMutual
    <3> QED BY <3>1, SamePatterns
  <2>4. ASSUME Questions!CoveredBy(p, q), Questions!Globstar \notin Questions!ToSet(p),
               NEW x \in Paths, Questions!Matches(x, p)
        PROVE  Questions!Matches(x, q)
    <3>1. /\ Answered!CoveredBy(p, q) /\ Answered!Globstar \notin Answered!ToSet(p)
          /\ Answered!Matches(x, p)
      BY <2>4, SamePatterns
    <3>2. Answered!Matches(x, q)
      BY <2>1, <3>1, Answered!CoveredPathsMatch
    <3> QED BY <3>2, SamePatterns
  <2>5. question.first = p /\ question.second = q
    OBVIOUS
  <2>6. Questions!OverlapIsSound
    BY <2>2, <2>3, <2>5 DEF Questions!OverlapIsSound, Questions!Shared
  <2>7. Questions!CoverageIsSound
    BY <2>4, <2>5 DEF Questions!CoverageIsSound
  <2> QED BY <2>6, <2>7
<1> QED BY <1>1, QuestionsAreAsked, PTL

\* The same of their operators on graphs.
LEMMA SameSearches ==
  /\ \A g, o : Questions!FindCycle(g, o) = Answered!FindCycle(g, o)
  /\ \A g, o : Questions!Cycles(g, o) = Answered!Cycles(g, o)
  /\ \A g, o : Questions!OrderedProcesses(g, o) = Answered!OrderedProcesses(g, o)
  /\ \A g : Questions!OnCycle(g) = Answered!OnCycle(g)
  /\ \A g, c : Questions!IsRound(g, c) = Answered!IsRound(g, c)
  /\ \A s : Questions!Front(s) = Answered!Front(s) /\ Questions!Last(s) = Answered!Last(s)
  /\ \A S : Questions!Cardinality(S) = Answered!Cardinality(S)
<1>1. \A g, o, b : Questions!Search(g, o, b) = Answered!Search(g, o, b)
  BY DEF Questions!Search, Answered!Search, Questions!Searches, Answered!Searches,
      Questions!SearchEnds, Answered!SearchEnds, Questions!Visit, Answered!Visit,
      Questions!List, Answered!List, Questions!From, Answered!From, Questions!Start, Answered!Start,
      Questions!ToSet, Answered!ToSet
<1>2. \A f : Questions!Reported(f) = Answered!Reported(f)
  BY DEF Questions!Reported, Answered!Reported, Questions!Last, Answered!Last
<1>3. \A g, o : /\ Questions!FindCycle(g, o) = Answered!FindCycle(g, o)
               /\ Questions!Cycles(g, o) = Answered!Cycles(g, o)
  BY <1>1, <1>2 DEF Questions!FindCycle, Answered!FindCycle, Questions!Cycles, Answered!Cycles
<1>4. \A g, o : Questions!Taken(g, o) = Answered!Taken(g, o)
  BY DEF Questions!Taken, Answered!Taken, Questions!Rounds, Answered!Rounds, Questions!Round,
      Answered!Round, Questions!RoundsEnd, Answered!RoundsEnd, Questions!ToSet, Answered!ToSet
<1>5. \A g, o : Questions!OrderedProcesses(g, o) = Answered!OrderedProcesses(g, o)
  BY <1>4 DEF Questions!OrderedProcesses, Answered!OrderedProcesses, Questions!ToSet, Answered!ToSet
<1>6. \A g : Questions!OnCycle(g) = Answered!OnCycle(g)
  BY DEF Questions!OnCycle, Answered!OnCycle, Questions!Reaches, Answered!Reaches,
      Questions!Closed, Answered!Closed, Questions!ToSet, Answered!ToSet
<1>7. \A g, c : Questions!IsRound(g, c) = Answered!IsRound(g, c)
  BY DEF Questions!IsRound, Answered!IsRound, Questions!Last, Answered!Last,
      Questions!ToSet, Answered!ToSet
<1>8. \A s : Questions!Front(s) = Answered!Front(s) /\ Questions!Last(s) = Answered!Last(s)
  BY DEF Questions!Front, Answered!Front, Questions!Last, Answered!Last
<1>9. \A S : Questions!Cardinality(S) = Answered!Cardinality(S)
  BY DEF Questions!Cardinality, Answered!Cardinality, Questions!IsFiniteSet, Answered!IsFiniteSet
<1> QED BY <1>3, <1>5, <1>6, <1>7, <1>8, <1>9

\* Every search over dependencies finds the cycles there are and no others, and an order of
\* processes has each after what it depends on (find_dependency_cycle, _cycles,
\* orderedProcesses): for graphs of any size over any tickets, and the searches come to an end.
THEOREM GraphsStaySearched == ToolsSpec => []GraphsAreSearched
<1>1. (topic = "questions" => QuestionIsAsked) => GraphsAreSearched
  <2> SUFFICES ASSUME topic = "questions", QuestionIsAsked
               PROVE  Questions!CyclesAreFound /\ Questions!ProcessesAreOrdered
    BY DEF GraphsAreSearched
  <2> SUFFICES ASSUME NEW g \in [Questions!ToSet(Nodes) -> Prerequisites],
                      question = [kind |-> "graph", graph |-> g]
               PROVE  Questions!CyclesAreFound /\ Questions!ProcessesAreOrdered
    BY DEF QuestionIsAsked, Questions!Nothing, Questions!CyclesAreFound, Questions!ProcessesAreOrdered
  <2>1. Questions!ToSet(Nodes) = Answered!ToSet(Nodes)
    BY SamePatterns
  <2>2. Nodes \in Seq(Questions!ToSet(Nodes)) /\ Len(Nodes) = Questions!Cardinality(Questions!ToSet(Nodes))
        /\ Prerequisites \subseteq Seq(Questions!ToSet(Nodes) \cup {Missing})
    BY ToolsAssumption DEF Questions!QuestionAssumption
  <2>3. Nodes \in Seq(Answered!ToSet(Nodes)) /\ Len(Nodes) = Answered!Cardinality(Answered!ToSet(Nodes))
        /\ Prerequisites \subseteq Seq(Answered!ToSet(Nodes) \cup {Missing})
        /\ g \in [Answered!ToSet(Nodes) -> Prerequisites]
    BY <2>1, <2>2, SameSearches
  <2>4. Answered!IsGraph(g, Nodes) /\ Answered!NoneTwice(Nodes)
    BY <2>3, Answered!ListedIsGraph
  <2>5. LET one == Answered!FindCycle(g, Nodes)
            all == Answered!Cycles(g, Nodes) IN
        /\ one # <<>> <=> Answered!OnCycle(g) # {}
        /\ all # <<>> <=> Answered!OnCycle(g) # {}
        /\ one # <<>> => Answered!IsRound(g, Answered!Front(one)) /\ Answered!Last(one) = one[1]
        /\ \A c \in Answered!ToSet(all) : Answered!IsRound(g, c)
    BY <2>4, Answered!SearchesFindCycles
  <2>6. LET answer == Answered!OrderedProcesses(g, Nodes) IN
        /\ answer.ok <=> /\ \A n \in DOMAIN g : Answered!ToSet(g[n]) \subseteq DOMAIN g
                         /\ Answered!OnCycle(g) = {}
        /\ answer.ok =>
             /\ Len(answer.processes) = Len(Nodes)
             /\ Answered!ToSet(answer.processes) = Answered!ToSet(Nodes)
             /\ \A i \in 1..Len(Nodes) :
                  Answered!ToSet(g[answer.processes[i]]) \subseteq {answer.processes[j] : j \in 1..i-1}
    BY <2>4, Answered!RoundsOrderProcesses
  <2>7. question.graph = g
    OBVIOUS
  <2>8. Questions!CyclesAreFound
    <3>1. /\ Questions!FindCycle(g, Nodes) = Answered!FindCycle(g, Nodes)
          /\ Questions!Cycles(g, Nodes) = Answered!Cycles(g, Nodes)
          /\ Questions!OnCycle(g) = Answered!OnCycle(g)
      BY SameSearches
    <3>2. \A s : Questions!ToSet(s) = Answered!ToSet(s)
      BY SamePatterns
    <3> QED BY <2>5, <2>7, <3>1, <3>2, SameSearches DEF Questions!CyclesAreFound
  <2>9. Questions!ProcessesAreOrdered
    <3>1. /\ Questions!OrderedProcesses(g, Nodes) = Answered!OrderedProcesses(g, Nodes)
          /\ Questions!OnCycle(g) = Answered!OnCycle(g)
      BY SameSearches
    <3>2. \A s : Questions!ToSet(s) = Answered!ToSet(s)
      BY SamePatterns
    <3> QED BY <2>6, <2>7, <3>1, <3>2 DEF Questions!ProcessesAreOrdered
  <2> QED BY <2>8, <2>9
<1> QED BY <1>1, QuestionsAreAsked, PTL

-----------------------------------------------------------------------------
(* TicketCurrency: cancelled work is still somebody's.                     *)

\* What was cancelled stays so, nobody succeeds himself, and nothing is cancelled before the
\* labels are given.
CurrencyHolds ==
  /\ tickets \in [Tickets -> [status : {"none", "open", "done", "canceled"},
                              successor : Currency!Named, source : Currency!Named]]
  /\ \A t \in Tickets : tickets[t].status # "none" => tickets[t].successor # t
  /\ \A t \in Tickets : <<t, "superseded">> \in cancelled => tickets[t].status = "canceled"
  /\ Currency!WorkIsNotLost

\* The last ticket of a ring of successors is not cancelled: its successor was, before it.
LEMMA SweepKeeps ==
  ASSUME CurrencyHolds, NEW t \in Tickets, Currency!Sweep(t)
  PROVE  CurrencyHolds'
<1>1. PICK observed \in SUBSET Tickets :
        LET answer == Currency!Currency(t, observed) IN
        /\ answer \in {"superseded", "source over"}
        /\ tickets' = [tickets EXCEPT ![t].status = "canceled"]
        /\ cancelled' = cancelled \cup {<<t, answer>>}
  BY DEF Currency!Sweep
<1> DEFINE answer == Currency!Currency(t, observed)
<1>2. answer = "superseded" => tickets[t].successor \in observed
                               /\ tickets[tickets[t].successor].status # "canceled"
  BY DEF Currency!Currency, Currency!Superseded
<1>3. tickets[t].status = "open"
  BY DEF Currency!Sweep, Currency!Live
<1> HIDE DEF answer
<1>4. /\ tickets' \in [Tickets -> [status : {"none", "open", "done", "canceled"},
                                   successor : Currency!Named, source : Currency!Named]]
      /\ \A u \in Tickets : /\ tickets'[u].successor = tickets[u].successor
                            /\ u # t => tickets'[u].status = tickets[u].status
      /\ tickets'[t].status = "canceled"
  BY <1>1 DEF CurrencyHolds
<1>5. \A u \in Tickets : <<u, "superseded">> \in cancelled' =>
         <<u, "superseded">> \in cancelled \/ (u = t /\ answer = "superseded")
  BY <1>1 DEF answer
<1>6. Currency!WorkIsNotLost'
  <2> SUFFICES ASSUME NEW S \in (SUBSET Tickets) \ {{}},
                      \A u \in S : <<u, "superseded">> \in cancelled',
                      \A u \in S : tickets'[u].successor \in S
               PROVE  FALSE
    BY DEF Currency!WorkIsNotLost
  <2>1. \A u \in S : tickets[u].successor \in S
    BY <1>4
  <2>2. PICK u \in S : <<u, "superseded">> \notin cancelled
    BY <2>1 DEF CurrencyHolds, Currency!WorkIsNotLost
  <2>3. u = t /\ answer = "superseded" /\ t \in S
    BY <1>5, <2>2
  <2>4. tickets[t].successor \in S /\ tickets[t].successor # t
    BY <1>3, <2>1, <2>3 DEF CurrencyHolds
  <2>5. <<tickets[t].successor, "superseded">> \in cancelled
    BY <1>5, <2>4
  <2> QED BY <1>2, <2>3, <2>4, <2>5 DEF CurrencyHolds
<1> QED BY <1>3, <1>4, <1>5, <1>6 DEF CurrencyHolds

LEMMA CurrencyNextHolds ==
  CurrencyHolds /\ (Currency!CurrencyNext \/ UNCHANGED currencyVars) => CurrencyHolds'
<1> SUFFICES ASSUME CurrencyHolds, Currency!CurrencyNext \/ UNCHANGED currencyVars
             PROVE  CurrencyHolds'
  OBVIOUS
<1>1. CASE Currency!Label
  <2>1. PICK successor \in [Tickets -> Currency!Named], source \in [Tickets -> Currency!Named],
             done \in SUBSET Tickets :
          /\ \A t \in Tickets : t \notin {successor[t], source[t]}
          /\ tickets' = [t \in Tickets |->
               [status |-> IF t \in done THEN "done" ELSE "open", successor |-> successor[t],
                source |-> source[t]]]
    BY <1>1 DEF Currency!Label
  <2>2. \A t \in Tickets : <<t, "superseded">> \notin cancelled /\ cancelled' = cancelled
    BY <1>1 DEF Currency!Label, CurrencyHolds
  <2>3. Currency!WorkIsNotLost'
    <3> SUFFICES ASSUME NEW S \in (SUBSET Tickets) \ {{}},
                        \A u \in S : <<u, "superseded">> \in cancelled'
                 PROVE  FALSE
      BY DEF Currency!WorkIsNotLost
    <3>1. PICK u \in S : TRUE
      OBVIOUS
    <3> QED BY <2>2, <3>1
  <2> QED BY <2>1, <2>2, <2>3 DEF CurrencyHolds
<1>2. ASSUME NEW t \in Tickets, Currency!CloseTicket(t) PROVE CurrencyHolds'
  <2>1. /\ tickets' \in [Tickets -> [status : {"none", "open", "done", "canceled"},
                                     successor : Currency!Named, source : Currency!Named]]
        /\ \A u \in Tickets : /\ tickets'[u].successor = tickets[u].successor
                              /\ u # t => tickets'[u].status = tickets[u].status
        /\ tickets[t].status = "open" /\ cancelled' = cancelled
    BY <1>2 DEF CurrencyHolds, Currency!CloseTicket, Currency!Live
  <2>2. Currency!WorkIsNotLost'
    BY <2>1 DEF CurrencyHolds, Currency!WorkIsNotLost
  <2> QED BY <2>1, <2>2 DEF CurrencyHolds
<1>3. CASE UNCHANGED currencyVars
  BY <1>3 DEF currencyVars, CurrencyHolds, Currency!WorkIsNotLost
<1> QED BY <1>1, <1>2, <1>3, SweepKeeps DEF Currency!CurrencyNext

\* Tickets that name each other as successors are never all cancelled for it.
THEOREM CancelledWorkIsNotLost == ToolsSpec => []WorkIsNotLost
<1>1. ToolsInit => (topic = "currency" => CurrencyHolds)
  <2> SUFFICES ASSUME ToolsInit, topic = "currency" PROVE CurrencyHolds
    OBVIOUS
  <2>1. /\ tickets = [t \in Tickets |-> [status |-> "none", successor |-> Unnamed,
                                        source |-> Unnamed]]
        /\ cancelled = {}
    BY DEF ToolsInit, Currency!CurrencyInit
  <2>2. Currency!WorkIsNotLost
    <3> SUFFICES ASSUME NEW S \in (SUBSET Tickets) \ {{}},
                        \A u \in S : <<u, "superseded">> \in cancelled
                 PROVE  FALSE
      BY DEF Currency!WorkIsNotLost
    <3>1. PICK u \in S : TRUE
      OBVIOUS
    <3> QED BY <2>1, <3>1
  <2> QED BY <2>1, <2>2 DEF CurrencyHolds, Currency!Named
<1>2. (topic = "currency" => CurrencyHolds) /\ [ToolsNext]_toolVars
        => (topic = "currency" => CurrencyHolds)'
  BY CurrencyNextHolds DEF ToolsNext, toolVars
<1>3. (topic = "currency" => CurrencyHolds) => WorkIsNotLost
  BY DEF WorkIsNotLost, CurrencyHolds
<1> QED BY <1>1, <1>2, <1>3, PTL DEF ToolsSpec
-----------------------------------------------------------------------------
(* StandardAdoption: what is replaced outside the scope was named.         *)

\* What a consistent candidate replaces outside the scope is what the installed revision put
\* there, nothing, or what a declaration names.
LEMMA ExemptIsNamed ==
  ASSUME NEW head, NEW to, NEW d \in Adoption!Declarations, NEW p,
         Adoption!Consistent(head, installed, to, d),
         p \in Adoption!Exempt(head, installed, to, d)
  PROVE  \/ files[p] = (IF p \in Adoption!Managed(installed) THEN Adoption!Std(installed)
                        ELSE Adoption!NoFile)
         \/ <<p, files[p]>> \in d.takeover
         \/ <<p, Adoption!Std(installed)>> \in d.restoration
         \/ <<p, files[p], head[p]>> \in d.transition
<1>1. CASE /\ p \in Adoption!Changed(head) \cap Adoption!Managed(to)
           /\ ~Adoption!IsOrdinary(p, installed)
  <2>1. Adoption!MayReplace(p, installed, d)
    BY <1>1 DEF Adoption!Consistent
  <2>2. CASE p \in Adoption!Managed(installed)
    BY <2>1, <2>2 DEF Adoption!MayReplace
  <2>3. CASE p \notin Adoption!Managed(installed)
    BY <2>1, <2>3 DEF Adoption!MayReplace
  <2> QED BY <2>2, <2>3
<1>2. ASSUME NEW t \in d.transition, p = t[1]
      PROVE  <<p, files[p], head[p]>> \in d.transition
  <2>1. t[2] = files[p] /\ t[3] = head[p]
    BY <1>2 DEF Adoption!Consistent, Adoption!TransitionHolds
  <2>2. \E q \in ManagedTargets : t = <<q, files[q], Adoption!Own(9)>>
    BY <1>2 DEF Adoption!Declarations, Adoption!Undeclared
  <2>3. t = <<t[1], t[2], t[3]>>
    BY <2>2
  <2> QED BY <1>2, <2>1, <2>3
<1> QED BY <1>1, <1>2 DEF Adoption!Exempt

\* Through any adoptions and edits, of any packages.
THEOREM OwnedFilesAreNamed == ToolsSpec => []OwnedIsNamed
<1>1. ToolsInit => OwnedIsNamed
  BY DEF ToolsInit, OwnedIsNamed, Adoption!OwnedIsNamed, Adoption!AdoptionInit
<1>2. OwnedIsNamed /\ [ToolsNext]_toolVars => OwnedIsNamed'
  <2> SUFFICES ASSUME OwnedIsNamed, [ToolsNext]_toolVars, topic' = "adoption"
               PROVE  silent' = {}
    BY DEF OwnedIsNamed, Adoption!OwnedIsNamed
  <2>1. silent = {} /\ (Adoption!AdoptionNext \/ UNCHANGED adoptionVars)
    BY DEF OwnedIsNamed, Adoption!OwnedIsNamed, ToolsNext, toolVars
  <2>2. CASE Adoption!Adopt
    <3>1. PICK to \in Adoption!Revisions, d \in Adoption!Declarations,
               other \in {{}} \cup {{p} : p \in ManagedTargets} :
            LET head == [p \in ManagedTargets |->
                           IF p \in other THEN Adoption!Own(9) ELSE Adoption!Installation(to)[p]]
            IN  /\ Adoption!Consistent(head, installed, to, d)
                /\ silent' = silent \cup
                     {p \in Adoption!Exempt(head, installed, to, d) :
                        /\ files[p] # (IF p \in Adoption!Managed(installed)
                                       THEN Adoption!Std(installed) ELSE Adoption!NoFile)
                        /\ <<p, files[p]>> \notin d.takeover
                        /\ <<p, Adoption!Std(installed)>> \notin d.restoration
                        /\ <<p, files[p], head[p]>> \notin d.transition}
      BY <2>2 DEF Adoption!Adopt
    <3> QED BY <2>1, <3>1, ExemptIsNamed
  <2> QED BY <2>1, <2>2 DEF Adoption!AdoptionNext, Adoption!OwnEdit, adoptionVars
<1> QED BY <1>1, <1>2, PTL DEF ToolsSpec

-----------------------------------------------------------------------------
(* SnapshotMigration: a proved migration is exact, and happens once.       *)

Intents == [base : Nat, edits : Nat]
Grants == [status : {"reserved", "consumed"}, intent : Intents, paths : SUBSET Members,
           historical : SUBSET Members]

\* After the publication the target is beyond the base of the grant, for good.
GrantIsSpent ==
  /\ main \in Nat /\ intent \in Intents
  /\ grant \in Grants \cup {Migration!NoGrant}
  /\ \/ uses = 0
     \/ uses = 1 /\ grant # Migration!NoGrant /\ grant.intent.base < main

LEMMA NoGrantIsNone == Migration!NoGrant.status = "none" /\ Migration!NoGrant \notin Grants
<1>1. Migration!NoGrant.status = "none"
  BY DEF Migration!NoGrant
<1>2. \A g \in Grants : g.status # "none"
  BY DEF Grants
<1> QED BY <1>1, <1>2

LEMMA GrantStaysSpent ==
  GrantIsSpent /\ (Migration!MigrationNext \/ UNCHANGED migrationVars) => GrantIsSpent'
<1> SUFFICES ASSUME GrantIsSpent, Migration!MigrationNext \/ UNCHANGED migrationVars
             PROVE  GrantIsSpent'
  OBVIOUS
<1>1. CASE Migration!Authorize
  <2>1. grant' \in Grants /\ uses = 0
    BY <1>1 DEF Migration!Authorize, GrantIsSpent, Grants
  <2> QED BY <1>1, <2>1 DEF Migration!Authorize, GrantIsSpent
<1>2. CASE UNCHANGED <<main, intent, grant, uses>>
  BY <1>2 DEF GrantIsSpent
<1>3. CASE Migration!EditIntent
  <2>1. intent' \in Intents
    BY <1>3 DEF Migration!EditIntent, GrantIsSpent, Intents
  <2> QED BY <1>3, <2>1 DEF Migration!EditIntent, GrantIsSpent
<1>4. CASE Migration!MoveTarget
  BY <1>4 DEF Migration!MoveTarget, GrantIsSpent, Grants, Intents
<1>5. CASE Migration!Publish
  <2>1. grant \in Grants /\ grant.intent = intent /\ main = intent.base
    BY <1>5, NoGrantIsNone DEF Migration!Publish, Migration!Proved, Migration!Authorized,
                              Migration!Fresh, GrantIsSpent
  <2>2. intent.base \in Nat
    BY DEF GrantIsSpent, Intents
  <2>3. uses = 0
    BY <2>1, <2>2 DEF GrantIsSpent
  <2> QED BY <1>5, <2>1, <2>2, <2>3, NoGrantIsNone DEF Migration!Publish, GrantIsSpent
<1>6. CASE Migration!RecordUse
  <2>1. grant \in Grants
    BY <1>6, NoGrantIsNone DEF Migration!RecordUse, GrantIsSpent
  <2>2. grant' \in Grants /\ grant'.intent = grant.intent
    BY <1>6, <2>1 DEF Migration!RecordUse, Grants
  <2> QED BY <1>6, <2>1, <2>2, NoGrantIsNone DEF Migration!RecordUse, GrantIsSpent
<1> QED BY <1>1, <1>2, <1>3, <1>4, <1>5, <1>6
        DEF Migration!MigrationNext, Migration!Import, Migration!CommitAll, Migration!EditMember,
            migrationVars

\* What is no repair of a proved migration is the authorized source; a grant is used once.
THEOREM MigrationStaysExact == ToolsSpec => []MigrationIsExact
<1>1. ToolsInit => (topic = "migration" => GrantIsSpent)
  BY DEF ToolsInit, Migration!MigrationInit, GrantIsSpent, Intents
<1>2. (topic = "migration" => GrantIsSpent) /\ [ToolsNext]_toolVars
        => (topic = "migration" => GrantIsSpent)'
  BY GrantStaysSpent DEF ToolsNext, toolVars
<1>3. (topic = "migration" => GrantIsSpent) => MigrationIsExact
  <2> SUFFICES ASSUME GrantIsSpent PROVE Migration!MigrationIsExact
    BY DEF MigrationIsExact
  <2>1. ASSUME NEW p \in Members \ Migration!Repairs
        PROVE  /\ Migration!HeadTree[p] = SourceTree[p]
               /\ p \notin Ignored \/ p \in grant.paths => checkout[p] = SourceTree[p]
    <3>1. /\ Migration!HeadTree[p] = SourceTree[p]
          /\ p \in Migration!Hidden(Migration!HeadTree) \/ checkout[p] = SourceTree[p]
      BY DEF Migration!Repairs, Migration!Dirty
    <3>2. p \in grant.paths => checkout[p] = SourceTree[p]
      BY DEF Migration!Repairs, Migration!Unchanged
    <3> QED BY <3>1, <3>2 DEF Migration!Hidden
  <2>2. uses <= 1
    BY DEF GrantIsSpent
  <2> QED BY <2>1, <2>2 DEF Migration!MigrationIsExact
<1> QED BY <1>1, <1>2, <1>3, PTL DEF ToolsSpec

-----------------------------------------------------------------------------
(* ChangeEvaluation: what is allowed to be merged was reviewed.            *)

\* A report names the authors of its head, and the approval in it was given: to the head it
\* says, or to the one its digest is of.
ReportIsBacked ==
  /\ \A v \in reviews : v = <<v[1], v[2]>> /\ v[1] \in People
  /\ report # Evaluation!NoReport =>
       /\ report.authors = Evaluation!AuthorsOf(report.head) /\ report.actor \in People
       /\ report.status \in Evaluation!AllStatuses
       /\ <<report.actor, report.approvalHead>> \in reviews \/ report.scope \in reviews

\* What is changed in a report that fits leaves the rest.
LEMMA ProducedIsBacked ==
  ASSUME ReportIsBacked, Evaluation!Produce
  PROVE  ReportIsBacked'
<1>1. PICK review \in reviews :
        LET r == Evaluation!Faithful(review) IN
        \/ report' = r
        \/ \E s \in Evaluation!Statuses : report' = [r EXCEPT !.status = s]
        \/ \E p \in Evaluation!PathsOf(branch) : report' = [r EXCEPT !.paths = @ \ {p}]
        \/ \E c \in Evaluation!Listing(branch) : report' = [r EXCEPT !.commits = @ \ {c}]
        \/ \E b \in 0..MaxMoves : report' = [r EXCEPT !.mergeBase = b]
        \/ report' = [r EXCEPT !.approvalHead = branch, !.scope = review]
  BY DEF Evaluation!Produce
<1> DEFINE r == Evaluation!Faithful(review)
<1>2. review = <<review[1], review[2]>> /\ review[1] \in People /\ reviews' = reviews
  BY DEF ReportIsBacked, Evaluation!Produce
<1>3. Evaluation!Passing \in Evaluation!AllStatuses
      /\ Evaluation!Statuses \subseteq Evaluation!AllStatuses
  BY DEF Evaluation!Passing, Evaluation!AllStatuses, Evaluation!Statuses
<1>4. /\ report'.head = branch /\ report'.authors = Evaluation!AuthorsOf(branch)
      /\ report'.actor = review[1]
      /\ report'.approvalHead = review[2] \/ report'.scope = review
      /\ report'.status = Evaluation!Passing \/ report'.status \in Evaluation!Statuses
  <2>1. /\ r.head = branch /\ r.authors = Evaluation!AuthorsOf(branch) /\ r.actor = review[1]
        /\ r.approvalHead = review[2] /\ r.status = Evaluation!Passing
    BY DEF Evaluation!Faithful
  <2>2. CASE report' = r
    BY <2>1, <2>2
  <2>3. CASE \E s \in Evaluation!Statuses : report' = [r EXCEPT !.status = s]
    BY <2>3 DEF Evaluation!Faithful
  <2>4. CASE \E p \in Evaluation!PathsOf(branch) : report' = [r EXCEPT !.paths = @ \ {p}]
    BY <2>4 DEF Evaluation!Faithful
  <2>5. CASE \E c \in Evaluation!Listing(branch) : report' = [r EXCEPT !.commits = @ \ {c}]
    BY <2>5 DEF Evaluation!Faithful
  <2>6. CASE \E b \in 0..MaxMoves : report' = [r EXCEPT !.mergeBase = b]
    BY <2>6 DEF Evaluation!Faithful
  <2>7. CASE report' = [r EXCEPT !.approvalHead = branch, !.scope = review]
    BY <2>7 DEF Evaluation!Faithful
  <2> QED BY <1>1, <2>2, <2>3, <2>4, <2>5, <2>6, <2>7
<1>5. <<report'.actor, report'.approvalHead>> \in reviews \/ report'.scope \in reviews
  <2>1. CASE report'.approvalHead = review[2]
    BY <1>2, <1>4, <2>1
  <2>2. CASE report'.scope = review
    BY <2>2
  <2> QED BY <1>4, <2>1, <2>2
<1>6. report'.authors = Evaluation!AuthorsOf(report'.head) /\ report'.actor \in People
      /\ report'.status \in Evaluation!AllStatuses
  BY <1>2, <1>3, <1>4
<1>7. \A v \in reviews' : v = <<v[1], v[2]>> /\ v[1] \in People
  BY <1>2 DEF ReportIsBacked
<1>8. Evaluation!AuthorsOf(report.head)' = Evaluation!AuthorsOf(report'.head)
  BY DEF Evaluation!AuthorsOf
<1> QED BY <1>2, <1>5, <1>6, <1>7, <1>8 DEF ReportIsBacked

LEMMA EvaluationNextBacked ==
  ReportIsBacked /\ (Evaluation!EvaluationNext \/ UNCHANGED evaluationVars) => ReportIsBacked'
<1> SUFFICES ASSUME ReportIsBacked, Evaluation!EvaluationNext \/ UNCHANGED evaluationVars
             PROVE  ReportIsBacked'
  OBVIOUS
<1>1. CASE UNCHANGED <<reviews, report>>
  BY <1>1 DEF ReportIsBacked, Evaluation!AuthorsOf
<1>2. CASE Evaluation!Review
  <2>1. PICK by \in People : reviews' = reviews \cup {<<by, branch>>}
    BY <1>2 DEF Evaluation!Review
  <2>2. report' = report
    BY <1>2 DEF Evaluation!Review
  <2>3. \A v \in reviews' : v = <<v[1], v[2]>> /\ v[1] \in People
    BY <2>1 DEF ReportIsBacked
  <2> QED BY <2>1, <2>2, <2>3 DEF ReportIsBacked, Evaluation!AuthorsOf
<1> QED BY <1>1, <1>2, ProducedIsBacked
        DEF Evaluation!EvaluationNext, Evaluation!Push, Evaluation!MoveMain, Evaluation!Rebase,
            Evaluation!EditContract, evaluationVars

\* A merge that is allowed was approved: by somebody who wrote none of it, for just this head.
LEMMA AllowedIsApproved ==
  ASSUME ReportIsBacked, NEW root \in BOOLEAN, Evaluation!MergeAllowed(root)
  PROVE  /\ \E by \in People \ Evaluation!AuthorsOf(report.head) : <<by, report.head>> \in reviews
         /\ root => Evaluation!PathsOf(report.head) \subseteq contract.allowed
         /\ report.head.base = contract.base
         /\ LET s == report.status IN
            /\ s.tests \in {"PASS", "NOT_APPLICABLE"} /\ s.gate = "PASS" /\ s.dimension = "PASS"
            /\ s.criterion \in {"SATISFIED", "NOT_APPLICABLE"} /\ s.finding = "none"
            /\ s.approved
<1> DEFINE s == report.status
<1>1. /\ report # Evaluation!NoReport /\ Evaluation!BindingHolds(report)
      /\ Evaluation!InScope(report, root) /\ Evaluation!StatusesHold(s)
      /\ Evaluation!ApprovalFits(report) /\ s.merge = "ALLOWED"
  BY DEF Evaluation!MergeAllowed
<1>2. s \in Evaluation!AllStatuses
  BY <1>1 DEF ReportIsBacked
<1>3. Evaluation!ExpectedVerdict(s) = "ALLOWED"
  BY <1>1 DEF Evaluation!StatusesHold
<1>4. /\ s.tests \in {"PASS", "NOT_APPLICABLE"} /\ s.gate = "PASS" /\ s.dimension = "PASS"
      /\ s.criterion \in {"SATISFIED", "NOT_APPLICABLE"} /\ s.finding = "none" /\ s.approved
  <2>1. /\ s.tests \notin {"FAILED", "missing"} /\ s.gate # "WAITING"
        /\ s.dimension # "INSUFFICIENT_EVIDENCE" /\ s.finding # "BLOCKING" /\ s.approved
        /\ s.criterion \notin {"PARTIAL", "missing", "unevidenced"}
        /\ "REVIEW_REQUIRED" \notin {s.dimension, s.finding}
    BY <1>1, <1>3 DEF Evaluation!ExpectedVerdict, Evaluation!StatusesHold
  <2> QED BY <1>2, <2>1 DEF Evaluation!AllStatuses
<1> HIDE DEF s
<1>5. /\ report.approvalHead = report.head /\ report.scope = <<report.actor, report.head>>
      /\ report.actor \notin report.authors
  BY <1>1, <1>4 DEF Evaluation!ApprovalFits, s
<1>6. <<report.actor, report.head>> \in reviews
      /\ report.actor \in People \ Evaluation!AuthorsOf(report.head)
  BY <1>1, <1>5 DEF ReportIsBacked
<1>7. /\ root => Evaluation!PathsOf(report.head) \subseteq contract.allowed
      /\ report.head.base = contract.base
  BY <1>1 DEF Evaluation!InScope, Evaluation!BindingHolds
<1> QED BY <1>4, <1>6, <1>7 DEF s

\* An evaluation that lets a change be merged rests on an approval of this change.
THEOREM EvaluationIsBacked == ToolsSpec => []EvaluationHolds
<1>1. ToolsInit => (topic = "evaluation" => ReportIsBacked)
  BY DEF ToolsInit, Evaluation!EvaluationInit, ReportIsBacked
<1>2. (topic = "evaluation" => ReportIsBacked) /\ [ToolsNext]_toolVars
        => (topic = "evaluation" => ReportIsBacked)'
  BY EvaluationNextBacked DEF ToolsNext, toolVars
<1>3. (topic = "evaluation" => ReportIsBacked) => EvaluationHolds
  <2> SUFFICES ASSUME ReportIsBacked
               PROVE  Evaluation!AllowedIsBacked /\ Evaluation!NotCompensated
    BY DEF EvaluationHolds
  <2>1. Evaluation!AllowedIsBacked
    BY AllowedIsApproved DEF Evaluation!AllowedIsBacked
  <2>2. Evaluation!NotCompensated
    BY AllowedIsApproved DEF Evaluation!NotCompensated
  <2> QED BY <2>1, <2>2
<1> QED BY <1>1, <1>2, <1>3, PTL DEF ToolsSpec

-----------------------------------------------------------------------------
(* TicketReadiness: no step runs that a human should have approved first.  *)

Flags == {"absent", "yes", "no"}
Works == [status : {"open"}, state : {"none", "ready", "waiting_input", "done"}, attempt : Nat,
          declared : [Readiness!Ids -> Flags],
          depends : [Readiness!Ids -> {<<>>} \cup {<<d>> : d \in Readiness!Ids}],
          covered : SUBSET Readiness!Ids,
          listed : [Readiness!Ids -> Flags \cup {"unlisted"}],
          progress : [Readiness!Ids -> {"pending", "approved", "completed"}]]

\* Nothing runs before the ticket is opened, and a step is past its approval only by one.
AskedFirst ==
  /\ work \in Works
  /\ ran \in Seq(Readiness!Ids) /\ (work.state = "none" => ran = <<>>)
  /\ \A s \in Readiness!Ids : work.progress[s] = "approved" => s \in approved
  /\ Readiness!HumansAreAsked

\* A step that is carried out waits for nobody.
LEMMA NextIsApproved ==
  ASSUME AskedFirst, Readiness!Decision = "execute", NEW s \in Readiness!Ids,
         s \in Readiness!Unfinished, Readiness!Listed(s),
         work.declared[s] = "yes" \/ work.listed[s] = "yes"
  PROVE  s \in approved
<1>1. Readiness!Bound /\ ~Readiness!HumanApproval(s)
  BY DEF Readiness!Decision
<1>2. work.progress[s] \in {"pending", "approved"} /\ Readiness!Status(s) = work.progress[s]
  BY DEF AskedFirst, Works, Readiness!Unfinished, Readiness!Status
<1>3. CASE work.progress[s] = "approved"
  BY <1>3 DEF AskedFirst
<1>4. CASE work.progress[s] = "pending"
  <2>1. ~Readiness!Past(s)
    BY <1>2, <1>4 DEF Readiness!Past
  <2>2. /\ work.declared[s] # "absent" => work.declared[s] # "yes"
        /\ work.declared[s] = "absent" => work.listed[s] # "yes"
    BY <1>1, <2>1 DEF Readiness!HumanApproval
  <2>3. work.declared[s] # "absent" /\ work.listed[s] # "absent" =>
          work.declared[s] = work.listed[s]
    BY <1>1, <2>1 DEF Readiness!Bound
  <2> QED BY <2>2, <2>3
<1> QED BY <1>2, <1>3, <1>4

LEMMA ExecuteAsks ==
  ASSUME AskedFirst, Readiness!Execute
  PROVE  AskedFirst'
<1>1. /\ Readiness!Decision = "execute" /\ work \in Works /\ approved' = approved
      /\ work.state = "ready"
  BY DEF Readiness!Execute, AskedFirst, Readiness!Decision
<1>2. ASSUME ran' = ran, work' \in Works, work'.declared = work.declared,
             work'.listed = work.listed, work'.progress = work.progress, work'.state # "none"
      PROVE  AskedFirst'
  BY <1>1, <1>2 DEF AskedFirst, Readiness!HumansAreAsked
<1>3. CASE work' = [work EXCEPT !.state = "done"] /\ ran' = ran
  BY <1>1, <1>2, <1>3 DEF Works
<1>4. CASE work' = [work EXCEPT !.attempt = @ + 1] /\ ran' = ran
  BY <1>1, <1>2, <1>4 DEF Works
<1>5. ASSUME NEW s \in Readiness!Ids, s \in Readiness!Unfinished, Readiness!Listed(s),
             work' = [work EXCEPT !.progress[s] = "completed"], ran' = Append(ran, s)
      PROVE  AskedFirst'
  <2>1. /\ work' \in Works /\ work'.declared = work.declared /\ work'.listed = work.listed
        /\ work'.state = "ready"
        /\ \A u \in Readiness!Ids : work'.progress[u] = IF u = s THEN "completed"
                                                       ELSE work.progress[u]
    BY <1>1, <1>5 DEF Works
  <2>2. ran' \in Seq(Readiness!Ids)
    BY <1>5 DEF AskedFirst
  <2>3. Readiness!HumansAreAsked'
    <3> SUFFICES ASSUME NEW i \in DOMAIN ran',
                        work.declared[ran'[i]] = "yes" \/ work.listed[ran'[i]] = "yes"
                 PROVE  ran'[i] \in approved
      BY <1>1, <2>1 DEF Readiness!HumansAreAsked
    <3>1. CASE i \in DOMAIN ran
      <4>1. ran'[i] = ran[i]
        BY <1>5, <3>1 DEF AskedFirst
      <4> QED BY <3>1, <4>1 DEF AskedFirst, Readiness!HumansAreAsked
    <3>2. CASE i \notin DOMAIN ran
      <4>1. ran'[i] = s
        BY <1>5, <3>2 DEF AskedFirst
      <4> QED BY <1>1, <1>5, <4>1, NextIsApproved
    <3> QED BY <3>1, <3>2
  <2> QED BY <1>1, <2>1, <2>2, <2>3 DEF AskedFirst
<1>6. \A i : Readiness!Ordering.processes[i] \in Readiness!Unfinished
               => Readiness!Ordering.processes[i] \in Readiness!Ids
  BY DEF Readiness!Unfinished
<1> QED BY <1>3, <1>4, <1>5, <1>6 DEF Readiness!Execute

LEMMA BoardNextAsks ==
  AskedFirst /\ (Readiness!BoardNext \/ UNCHANGED readinessVars) => AskedFirst'
<1> SUFFICES ASSUME AskedFirst, Readiness!BoardNext \/ UNCHANGED readinessVars
             PROVE  AskedFirst'
  OBVIOUS
<1>1. CASE Readiness!Open
  <2>1. ran = <<>> /\ ran' = <<>>
    BY <1>1 DEF Readiness!Open, AskedFirst
  <2>2. /\ work' \in Works
        /\ \A s \in Readiness!Ids : work'.progress[s] = "pending"
    <3>1. Readiness!NoWork \in Works
          /\ \A s \in Readiness!Ids : Readiness!NoWork.progress[s] = "pending"
      BY DEF Readiness!NoWork, Works, Flags
    <3>2. PICK declared, listed, covered, depends, state :
            /\ declared \in [Readiness!Ids -> Readiness!Flags]
            /\ listed \in [Readiness!Ids -> Readiness!Flags \cup {"unlisted"}]
            /\ depends \in [Readiness!Ids -> {<<>>} \cup {<<d>> : d \in Readiness!Ids}]
            /\ state \in {"ready", "waiting_input", "done"} /\ covered \in SUBSET Readiness!Ids
            /\ work' = [Readiness!NoWork EXCEPT !.state = state, !.declared = declared,
                          !.depends = depends, !.covered = covered, !.listed = listed]
      BY <1>1 DEF Readiness!Open
    <3>3. work' \in Works /\ work'.progress = Readiness!NoWork.progress
      BY <3>1, <3>2 DEF Works, Flags, Readiness!Flags
    <3> QED BY <3>1, <3>3
  <2>3. Readiness!HumansAreAsked'
    BY <2>1 DEF Readiness!HumansAreAsked
  <2> QED BY <2>1, <2>2, <2>3 DEF AskedFirst
<1>2. CASE Readiness!ApproveStep
  <2>1. PICK s \in Readiness!Ids : /\ approved' = approved \cup {s}
                                   /\ work' = [work EXCEPT !.progress[s] = "approved"]
                                   /\ ran' = ran
    BY <1>2 DEF Readiness!ApproveStep
  <2>2. /\ work' \in Works /\ work'.declared = work.declared /\ work'.listed = work.listed
        /\ work'.state = work.state
        /\ \A u \in Readiness!Ids : work'.progress[u] = IF u = s THEN "approved"
                                                       ELSE work.progress[u]
    BY <2>1 DEF AskedFirst, Works
  <2>3. Readiness!HumansAreAsked'
    BY <2>1, <2>2 DEF AskedFirst, Readiness!HumansAreAsked
  <2> QED BY <2>1, <2>2, <2>3 DEF AskedFirst
<1>3. CASE UNCHANGED <<work, approved, ran>>
  BY <1>3 DEF AskedFirst, Readiness!HumansAreAsked
<1> QED BY <1>1, <1>2, <1>3, ExecuteAsks
        DEF Readiness!BoardNext, Readiness!Lose, readinessVars

\* No step that either side says a human has to approve is carried out without approval.
THEOREM HumansAreAlwaysAsked == ToolsSpec => []HumansAreAsked
<1>1. ToolsInit => (topic = "readiness" => AskedFirst)
  <2> SUFFICES ASSUME ToolsInit, topic = "readiness" PROVE AskedFirst
    OBVIOUS
  <2>1. work = Readiness!NoWork /\ ran = <<>>
    BY DEF ToolsInit, Readiness!BoardInit
  <2>2. work \in Works /\ \A s \in Readiness!Ids : work.progress[s] = "pending"
    BY <2>1 DEF Readiness!NoWork, Works, Flags
  <2> QED BY <2>1, <2>2 DEF AskedFirst, Readiness!HumansAreAsked
<1>2. (topic = "readiness" => AskedFirst) /\ [ToolsNext]_toolVars
        => (topic = "readiness" => AskedFirst)'
  BY BoardNextAsks DEF ToolsNext, toolVars
<1>3. (topic = "readiness" => AskedFirst) => HumansAreAsked
  BY DEF HumansAreAsked, AskedFirst
<1> QED BY <1>1, <1>2, <1>3, PTL DEF ToolsSpec

-----------------------------------------------------------------------------
(* RemediationIntent: what an accepted intent orders and allows.           *)

FindingParts == [Findings -> [category : Remediation!Categories, pressing : BOOLEAN,
                              deferred : BOOLEAN, path : Sources \cup {Unresolved}]]
ActionParts == [Actions -> [repairs : SUBSET Findings, operation : Remediation!Operations,
                            depends : SUBSET Actions, checks : SUBSET Checks,
                            path : Sources \cup {Unresolved}, destructive : BOOLEAN,
                            human : BOOLEAN, automated : BOOLEAN]]

IsIntent(d) == d \in Remediation!Documents({d.analysis})

\* The overlay, if there is one, is what the analysis of its plan said of its intent.
OverlayIsComputed(d) ==
  d.analysis # Unset =>
    d.analysis.blockers = Remediation!Blockers(d.analysis.intent, d.analysis.plan)

\* The document that is kept, and the one a run of the tool has read.
IntentIsTyped ==
  /\ IsIntent(doc) /\ OverlayIsComputed(doc)
  /\ tool = [op |-> tool.op, doc |-> tool.doc, phase |-> tool.phase]
  /\ tool.op # "idle" => IsIntent(tool.doc)

\* One part of a document is put by another of its kind.
LEMMA PartIsPut ==
  ASSUME NEW d, IsIntent(d)
  PROVE  /\ d.findings \in FindingParts /\ d.actions \in ActionParts
         /\ \A s \in {"DRAFT", "READY"} : LET e == [d EXCEPT !.status = s] IN
              IsIntent(e) /\ e.analysis = d.analysis
         /\ \A o \in Seq(Actions) : LET e == [d EXCEPT !.order = o] IN
              IsIntent(e) /\ e.analysis = d.analysis
         /\ \A s \in SUBSET Sources : LET e == [d EXCEPT !.allowed = s] IN
              IsIntent(e) /\ e.analysis = d.analysis
         /\ \A fs \in FindingParts : LET e == [d EXCEPT !.findings = fs] IN
              IsIntent(e) /\ e.analysis = d.analysis
         /\ \A as \in ActionParts : LET e == [d EXCEPT !.actions = as] IN
              IsIntent(e) /\ e.analysis = d.analysis
<1>1. d \in Remediation!Documents({d.analysis})
  BY DEF IsIntent
<1>2. d.findings \in FindingParts /\ d.actions \in ActionParts
  BY <1>1 DEF Remediation!Documents, FindingParts, ActionParts
<1>3. ASSUME NEW s \in {"DRAFT", "READY"}
      PROVE  LET e == [d EXCEPT !.status = s] IN IsIntent(e) /\ e.analysis = d.analysis
  BY <1>1 DEF IsIntent, Remediation!Documents
<1>4. ASSUME NEW o \in Seq(Actions)
      PROVE  LET e == [d EXCEPT !.order = o] IN IsIntent(e) /\ e.analysis = d.analysis
  BY <1>1 DEF IsIntent, Remediation!Documents
<1>5. ASSUME NEW s \in SUBSET Sources
      PROVE  LET e == [d EXCEPT !.allowed = s] IN IsIntent(e) /\ e.analysis = d.analysis
  BY <1>1 DEF IsIntent, Remediation!Documents
<1>6. ASSUME NEW fs \in FindingParts
      PROVE  LET e == [d EXCEPT !.findings = fs] IN IsIntent(e) /\ e.analysis = d.analysis
  BY <1>1 DEF IsIntent, Remediation!Documents, FindingParts
<1>7. ASSUME NEW as \in ActionParts
      PROVE  LET e == [d EXCEPT !.actions = as] IN IsIntent(e) /\ e.analysis = d.analysis
  BY <1>1 DEF IsIntent, Remediation!Documents, ActionParts
<1> QED BY <1>2, <1>3, <1>4, <1>5, <1>6, <1>7

\* Finite sets are those the module of intents means, and are counted as it counts them.
LEMMA ActionsAreFinite ==
  /\ IsFiniteSet(Actions)
  /\ \A S : Remediation!Cardinality(S) = Cardinality(S)
<1>1. \A S : Remediation!Cardinality(S) = Cardinality(S)
      /\ (Remediation!IsFiniteSet(S) <=> IsFiniteSet(S))
  BY DEF Cardinality, Remediation!Cardinality, IsFiniteSet, Remediation!IsFiniteSet
<1> QED BY <1>1, ToolsAssumption DEF Remediation!RemediationAssumption

LEMMA OrdersAreSequences ==
  Remediation!SetToSeqs(Actions) \subseteq Seq(Actions)
<1>1. Cardinality(Actions) \in Nat
  BY ActionsAreFinite, FS_CardinalityType
<1> QED BY <1>1, ActionsAreFinite DEF Remediation!SetToSeqs

\* What is edited by hand is still a document, and its overlay is the one it had.
LEMMA EditKeepsOverlay ==
  ASSUME NEW d, IsIntent(d), NEW e \in Remediation!Changed(d)
  PROVE  IsIntent(e) /\ e.analysis = d.analysis
<1>0. d.findings \in FindingParts /\ d.actions \in ActionParts
  BY PartIsPut
<1>1. CASE e \in {[d EXCEPT !.status = s] : s \in {"DRAFT", "READY"}}
  <2>1. PICK s \in {"DRAFT", "READY"} : e = [d EXCEPT !.status = s]
    BY <1>1
  <2> QED BY <2>1, PartIsPut
<1>2. CASE e \in {[d EXCEPT !.order = o] : o \in Remediation!SetToSeqs(Actions)}
  <2>1. PICK o \in Seq(Actions) : e = [d EXCEPT !.order = o]
    BY <1>2, OrdersAreSequences
  <2> QED BY <2>1, PartIsPut
<1>3. CASE e \in {[d EXCEPT !.allowed = s] : s \in (SUBSET Sources) \ {{}}}
  <2>1. PICK s \in SUBSET Sources : e = [d EXCEPT !.allowed = s]
    BY <1>3
  <2> QED BY <2>1, PartIsPut
<1>4. ASSUME NEW f \in Findings, NEW g \in [category : Remediation!Categories, pressing : BOOLEAN,
                                           deferred : BOOLEAN, path : Sources \cup {Unresolved}],
             e = [d EXCEPT !.findings[f] = g]
      PROVE  IsIntent(e) /\ e.analysis = d.analysis
  <2> DEFINE fs == [d.findings EXCEPT ![f] = g]
  <2>1. fs \in FindingParts
    BY <1>0 DEF FindingParts
  <2>2. e = [d EXCEPT !.findings = fs]
    BY <1>4
  <2> HIDE DEF fs
  <2> QED BY <2>1, <2>2, PartIsPut
<1>5. ASSUME NEW a \in Actions, NEW x, [d.actions EXCEPT ![a] = x] \in ActionParts,
             e = [d EXCEPT !.actions[a] = x]
      PROVE  IsIntent(e) /\ e.analysis = d.analysis
  <2> DEFINE as == [d.actions EXCEPT ![a] = x]
  <2>1. e = [d EXCEPT !.actions = as]
    BY <1>5
  <2>2. as \in ActionParts
    BY <1>5
  <2> HIDE DEF as
  <2> QED BY <2>1, <2>2, PartIsPut
<1>6. CASE e \in {[d EXCEPT !.findings[f].deferred = ~@] : f \in Findings}
  <2>1. PICK f \in Findings : e = [d EXCEPT !.findings[f].deferred = ~@]
    BY <1>6
  <2> DEFINE g == [d.findings[f] EXCEPT !.deferred = ~@]
  <2>2. e = [d EXCEPT !.findings[f] = g]
    BY <2>1
  <2>3. g \in [category : Remediation!Categories, pressing : BOOLEAN,
               deferred : BOOLEAN, path : Sources \cup {Unresolved}]
    BY <1>0 DEF FindingParts
  <2> HIDE DEF g
  <2> QED BY <1>4, <2>2, <2>3
<1>7. CASE e \in {[d EXCEPT !.findings[f].category = c] : f \in Findings, c \in Remediation!Categories}
  <2>1. PICK f \in Findings, c \in Remediation!Categories : e = [d EXCEPT !.findings[f].category = c]
    BY <1>7
  <2> DEFINE g == [d.findings[f] EXCEPT !.category = c]
  <2>2. e = [d EXCEPT !.findings[f] = g]
    BY <2>1
  <2>3. g \in [category : Remediation!Categories, pressing : BOOLEAN,
               deferred : BOOLEAN, path : Sources \cup {Unresolved}]
    BY <1>0 DEF FindingParts
  <2> HIDE DEF g
  <2> QED BY <1>4, <2>2, <2>3
<1>8. CASE e \in {[d EXCEPT !.findings[f].path = p] : f \in Findings, p \in Sources \cup {Unresolved}}
  <2>1. PICK f \in Findings, p \in Sources \cup {Unresolved} : e = [d EXCEPT !.findings[f].path = p]
    BY <1>8
  <2> DEFINE g == [d.findings[f] EXCEPT !.path = p]
  <2>2. e = [d EXCEPT !.findings[f] = g]
    BY <2>1
  <2>3. g \in [category : Remediation!Categories, pressing : BOOLEAN,
               deferred : BOOLEAN, path : Sources \cup {Unresolved}]
    BY <1>0 DEF FindingParts
  <2> HIDE DEF g
  <2> QED BY <1>4, <2>2, <2>3
<1>9. CASE e \in {[d EXCEPT !.actions[a].path = p] : a \in Actions, p \in Sources}
  <2>1. PICK a \in Actions, p \in Sources : e = [d EXCEPT !.actions[a].path = p]
    BY <1>9
  <2> DEFINE x == [d.actions[a] EXCEPT !.path = p]
  <2>2. e = [d EXCEPT !.actions[a] = x]
    BY <2>1
  <2>3. [d.actions EXCEPT ![a] = x] \in ActionParts
    BY <1>0 DEF ActionParts
  <2> HIDE DEF x
  <2> QED BY <1>5, <2>2, <2>3
<1>10. CASE e \in {[d EXCEPT !.actions[a].depends = s] : a \in Actions, s \in SUBSET Actions}
  <2>1. PICK a \in Actions, s \in SUBSET Actions : e = [d EXCEPT !.actions[a].depends = s]
    BY <1>10
  <2> DEFINE x == [d.actions[a] EXCEPT !.depends = s]
  <2>2. e = [d EXCEPT !.actions[a] = x]
    BY <2>1
  <2>3. [d.actions EXCEPT ![a] = x] \in ActionParts
    BY <1>0 DEF ActionParts
  <2> HIDE DEF x
  <2> QED BY <1>5, <2>2, <2>3
<1>11. CASE e \in {[d EXCEPT !.actions[a].operation = o] : a \in Actions, o \in Remediation!Operations}
  <2>1. PICK a \in Actions, o \in Remediation!Operations : e = [d EXCEPT !.actions[a].operation = o]
    BY <1>11
  <2> DEFINE x == [d.actions[a] EXCEPT !.operation = o]
  <2>2. e = [d EXCEPT !.actions[a] = x]
    BY <2>1
  <2>3. [d.actions EXCEPT ![a] = x] \in ActionParts
    BY <1>0 DEF ActionParts
  <2> HIDE DEF x
  <2> QED BY <1>5, <2>2, <2>3
<1>12. CASE e \in {[d EXCEPT !.actions[a] = Remediation!Destructive(@, h, m)] :
                      a \in Actions, h, m \in BOOLEAN}
  <2>1. PICK a \in Actions, h, m \in BOOLEAN :
          e = [d EXCEPT !.actions[a] = Remediation!Destructive(@, h, m)]
    BY <1>12
  <2> DEFINE x == Remediation!Destructive(d.actions[a], h, m)
  <2>2. e = [d EXCEPT !.actions[a] = x]
    BY <2>1
  <2>3. [d.actions EXCEPT ![a] = x] \in ActionParts
    BY <1>0 DEF ActionParts, Remediation!Destructive
  <2> HIDE DEF x
  <2> QED BY <1>5, <2>2, <2>3
<1> QED BY <1>1, <1>2, <1>3, <1>6, <1>7, <1>8, <1>9, <1>10, <1>11, <1>12
        DEF Remediation!Changed

\* The projection of a document has its findings, scope and actions, and no overlay.
LEMMA ProjectionKeeps ==
  ASSUME NEW d, IsIntent(d)
  PROVE  LET q == Remediation!Projection(d) IN
         /\ IsIntent(q) /\ q.analysis = Unset
         /\ q.allowed = d.allowed /\ q.forbidden = d.forbidden /\ q.actions = d.actions
<1> DEFINE q == Remediation!Projection(d)
<1>1. d \in Remediation!Documents({d.analysis})
  BY DEF IsIntent
<1>2. q \in Remediation!Documents({Unset})
  <2>1. CASE d.status = "ANALYZED"
    BY <1>1, <2>1 DEF Remediation!Projection, Remediation!Documents
  <2>2. CASE d.status # "ANALYZED"
    BY <1>1, <2>2 DEF Remediation!Projection, Remediation!Documents
  <2> QED BY <2>1, <2>2
<1>3. q.analysis = Unset
  BY <1>2 DEF Remediation!Documents
<1>4. q.allowed = d.allowed /\ q.forbidden = d.forbidden /\ q.actions = d.actions
  BY <1>1 DEF Remediation!Projection, Remediation!Documents
<1> HIDE DEF q
<1> QED BY <1>2, <1>3, <1>4 DEF IsIntent, q

\* What an analysis writes back is the document that was read, with its own overlay.
LEMMA AnalysisIsComputed ==
  ASSUME IntentIsTyped, Remediation!Analyze
  PROVE  IsIntent(doc') /\ OverlayIsComputed(doc')
<1>1. CASE plans = Unset
  BY <1>1 DEF Remediation!Analyze, IntentIsTyped
<1>2. CASE plans # Unset
  <2> DEFINE d == tool.doc
             overlay == [intent |-> Remediation!Projection(d), plan |-> plans,
                         blockers |-> Remediation!Blockers(d, plans)]
  <2>1. doc' = [d EXCEPT !.status = "ANALYZED", !.analysis = overlay]
    BY <1>2 DEF Remediation!Analyze
  <2>2. IsIntent(d)
    BY DEF IntentIsTyped, Remediation!Analyze
  <2>3. overlay.blockers = Remediation!Blockers(overlay.intent, overlay.plan)
    BY <2>2, ProjectionKeeps DEF Remediation!Blockers, Remediation!MayDelete
  <2> HIDE DEF overlay
  <2>4. doc' \in Remediation!Documents({overlay})
    BY <2>1, <2>2 DEF IsIntent, Remediation!Documents
  <2>5. doc'.analysis = overlay
    BY <2>4 DEF Remediation!Documents
  <2> QED BY <2>3, <2>4, <2>5 DEF IsIntent, OverlayIsComputed
<1> QED BY <1>1, <1>2

LEMMA IntentNextTyped ==
  IntentIsTyped /\ (Remediation!IntentNext \/ UNCHANGED remediationVars) => IntentIsTyped'
<1> SUFFICES ASSUME IntentIsTyped, Remediation!IntentNext \/ UNCHANGED remediationVars
             PROVE  IntentIsTyped'
  OBVIOUS
<1>1. CASE Remediation!Edit
  <2>1. doc' \in Remediation!Changed(doc) /\ tool' = tool
    BY <1>1 DEF Remediation!Edit
  <2>2. IsIntent(doc') /\ doc'.analysis = doc.analysis
    BY <2>1, EditKeepsOverlay DEF IntentIsTyped
  <2>3. OverlayIsComputed(doc')
    BY <2>2 DEF IntentIsTyped, OverlayIsComputed
  <2> QED BY <2>1, <2>2, <2>3 DEF IntentIsTyped
<1>2. CASE Remediation!Discard
  <2>1. doc' = Remediation!Projection(doc) /\ tool' = tool
    BY <1>2 DEF Remediation!Discard
  <2>2. IsIntent(doc') /\ OverlayIsComputed(doc')
    BY <2>1, ProjectionKeeps DEF IntentIsTyped, OverlayIsComputed
  <2> QED BY <2>1, <2>2 DEF IntentIsTyped
<1>3. ASSUME NEW op, Remediation!Begin(op)
      PROVE  IntentIsTyped'
  BY <1>3 DEF Remediation!Begin, IntentIsTyped
<1>4. CASE Remediation!WriteTask
  <2>1. tool' = [op |-> tool.op, doc |-> tool.doc, phase |-> "task"] /\ doc' = doc
    BY <1>4 DEF Remediation!WriteTask, IntentIsTyped
  <2> QED BY <2>1 DEF IntentIsTyped
<1>5. CASE tool' = Remediation!Idle /\ doc' = doc
  BY <1>5 DEF IntentIsTyped, Remediation!Idle
<1>6. CASE Remediation!Analyze
  <2>1. tool' = Remediation!Idle
    BY <1>6 DEF Remediation!Analyze
  <2> QED BY <1>6, <2>1, AnalysisIsComputed DEF IntentIsTyped, Remediation!Idle
<1>7. CASE UNCHANGED <<doc, tool>>
  BY <1>7 DEF IntentIsTyped
<1> QED BY <1>1, <1>2, <1>3, <1>4, <1>5, <1>6, <1>7
        DEF Remediation!IntentNext, Remediation!WriteTodo, Remediation!Propose, Remediation!Kill,
            remediationVars

LEMMA IntentsAreTyped == ToolsSpec => [](topic = "remediation" => IntentIsTyped)
<1>1. ToolsInit => (topic = "remediation" => IntentIsTyped)
  <2> SUFFICES ASSUME ToolsInit, topic = "remediation" PROVE IntentIsTyped
    OBVIOUS
  <2>1. doc = Template /\ tool = Remediation!Idle
    BY DEF ToolsInit, Remediation!IntentInit
  <2>2. Template \in Remediation!Documents({Unset})
    BY ToolsAssumption DEF Remediation!RemediationAssumption
  <2>3. Template.analysis = Unset
    BY <2>2 DEF Remediation!Documents
  <2> QED BY <2>1, <2>2, <2>3 DEF IntentIsTyped, IsIntent, OverlayIsComputed, Remediation!Idle
<1>2. (topic = "remediation" => IntentIsTyped) /\ [ToolsNext]_toolVars
        => (topic = "remediation" => IntentIsTyped)'
  BY IntentNextTyped DEF ToolsNext, toolVars
<1> QED BY <1>1, <1>2, PTL DEF ToolsSpec

\* What an accepted overlay proposes, the document that is kept allows, whatever was edited.
LEMMA AcceptedPlansStayInBounds ==
  ToolsSpec => [](topic = "remediation" => Remediation!PlansStayInBounds)
<1>1. (topic = "remediation" => IntentIsTyped) =>
      (topic = "remediation" => Remediation!PlansStayInBounds)
  <2> SUFFICES ASSUME IntentIsTyped, doc.analysis # Unset, Remediation!Accepted(doc),
                      doc.analysis.blockers = {}
               PROVE  LET plan == doc.analysis.plan IN
                      /\ plan.path \in doc.allowed /\ plan.path \notin doc.forbidden
                      /\ plan.deletes => \E a \in Actions :
                           /\ doc.actions[a].path = plan.path
                           /\ doc.actions[a].human /\ ~doc.actions[a].automated
    BY DEF Remediation!PlansStayInBounds
  <2> DEFINE plan == doc.analysis.plan
             read == doc.analysis.intent
  <2>1. read = Remediation!Projection(doc)
    BY DEF Remediation!Accepted, Remediation!AnalysisFits
  <2>2. read.allowed = doc.allowed /\ read.forbidden = doc.forbidden
        /\ read.actions = doc.actions
    BY <2>1, ProjectionKeeps DEF IntentIsTyped
  <2>3. Remediation!Blockers(read, plan) = {}
    BY DEF IntentIsTyped, OverlayIsComputed
  <2> HIDE DEF read, plan
  <2>4. plan.path \in read.allowed \ read.forbidden
        /\ (plan.deletes => Remediation!MayDelete(read, plan.path))
    BY <2>3 DEF Remediation!Blockers
  <2>5. ASSUME plan.deletes
        PROVE  \E a \in Actions : /\ doc.actions[a].path = plan.path
                                  /\ doc.actions[a].human /\ ~doc.actions[a].automated
    <3>1. PICK a \in Actions : /\ doc.actions[a].path = plan.path
                               /\ doc.actions[a].destructive /\ doc.actions[a].human
      BY <2>2, <2>4, <2>5 DEF Remediation!MayDelete
    <3>2. doc.actions[a].destructive => ~doc.actions[a].automated
      BY DEF Remediation!Accepted, Remediation!RiskIsBounded
    <3> QED BY <3>1, <3>2
  <2> QED BY <2>2, <2>4, <2>5 DEF plan
<1> QED BY <1>1, IntentsAreTyped, PTL

\* The sequence of a set has only what is in the set.
LEMMA ListedIsIn ==
  ASSUME NEW S \in SUBSET Actions
  PROVE  Remediation!ToSet(Remediation!SetToSeq(S)) \subseteq S
<1> DEFINE n == Cardinality(S)
<1>1. IsFiniteSet(S) /\ n \in Nat
  BY ActionsAreFinite, FS_Subset, FS_CardinalityType
<1>2. PICK f \in [1..n -> S] : Remediation!IsInjective(f)
  <2>1. PICK f : f \in Bijection(1..n, S)
    BY <1>1, FS_CardinalityType DEF ExistsBijection
  <2>2. f \in [1..n -> S] /\ Remediation!IsInjective(f)
    BY <2>1 DEF Bijection, Injection, IsInjective, Remediation!IsInjective
  <2> QED BY <2>2
<1>3. Remediation!SetToSeq(S) \in [1..n -> S]
  BY <1>2, ActionsAreFinite DEF Remediation!SetToSeq
<1> QED BY <1>3 DEF Remediation!ToSet

\* In an order that holds an action has one place, and all it depends on, over any number of
\* steps, has a place before it.
LEMMA PlacesAreUnique ==
  ASSUME NEW d, IsIntent(d), Remediation!OrderHolds(d)
  PROVE  \A i, j \in 1..Len(d.order) : d.order[i] = d.order[j] => i = j
<1> DEFINE n == Len(d.order)
<1>1. d.order \in Seq(Actions)
  BY DEF IsIntent, Remediation!Documents
<1>2. n \in Nat /\ d.order \in [1..n -> Actions] /\ DOMAIN d.order = 1..n
  BY <1>1
<1>3. Remediation!ToSet(d.order) = Actions /\ n = Cardinality(Actions)
  BY ActionsAreFinite DEF Remediation!OrderHolds
<1>4. d.order \in Surjection(1..n, Actions)
  BY <1>2, <1>3 DEF Surjection, Remediation!ToSet
<1>5. IsFiniteSet(1..n) /\ Cardinality(1..n) = n
  BY <1>2, FS_Interval
<1>6. d.order \in Injection(1..n, Actions)
  BY <1>3, <1>4, <1>5, FS_SurjSameCardinalityImpliesInj
<1> QED BY <1>2, <1>6 DEF Injection, IsInjective

LEMMA EarlierIsClosed ==
  ASSUME NEW d, IsIntent(d), Remediation!OrderHolds(d), NEW i \in 1..Len(d.order)
  PROVE  Remediation!Reaches(Remediation!DependsOn(d), d.order[i])
           \subseteq {d.order[k] : k \in 1..i-1}
<1> DEFINE graph == Remediation!DependsOn(d)
           S == {d.order[k] : k \in 1..i-1}
<1>1. d.order \in Seq(Actions) /\ Len(d.order) \in Nat
      /\ \A a \in Actions : d.actions[a].depends \in SUBSET Actions
  BY DEF IsIntent, Remediation!Documents
<1>2. \A k \in 1..Len(d.order) : d.order[k] \in Actions
  BY <1>1
<1>3. S \in SUBSET Actions
  BY <1>1, <1>2
<1>4. DOMAIN graph = Actions
      /\ \A a \in Actions : graph[a] = Remediation!SetToSeq(d.actions[a].depends)
  BY DEF Remediation!DependsOn
<1> HIDE DEF graph
<1>5. \A a \in Actions : Remediation!ToSet(graph[a]) \subseteq d.actions[a].depends
  BY <1>1, <1>4, ListedIsIn
<1>6. \A k \in 1..i : d.actions[d.order[k]].depends \subseteq S
  <2> SUFFICES ASSUME NEW k \in 1..i PROVE d.actions[d.order[k]].depends \subseteq S
    OBVIOUS
  <2>1. k \in 1..Len(d.order) /\ 1..k-1 \subseteq 1..i-1
    BY <1>1
  <2>2. d.actions[d.order[k]].depends \subseteq {d.order[j] : j \in 1..k-1}
    BY <2>1 DEF Remediation!OrderHolds
  <2> QED BY <2>1, <2>2
<1>7. Remediation!ToSet(graph[d.order[i]]) \subseteq S
  <2>1. i \in 1..i
    BY <1>1
  <2> QED BY <1>2, <1>5, <1>6, <2>1
<1>8. Remediation!Closed(graph, S)
  <2> SUFFICES ASSUME NEW m \in S PROVE Remediation!ToSet(graph[m]) \subseteq S
    BY DEF Remediation!Closed
  <2>1. PICK k \in 1..i-1 : m = d.order[k]
    OBVIOUS
  <2>2. k \in 1..i /\ k \in 1..Len(d.order)
    BY <1>1
  <2> QED BY <1>2, <1>5, <1>6, <2>1, <2>2
<1> HIDE DEF S
<1>9. Remediation!Reaches(graph, d.order[i]) \subseteq S
  BY <1>3, <1>4, <1>7, <1>8 DEF Remediation!Reaches
<1> QED BY <1>9 DEF S, graph

\* A release is after every action on a finding that presses, in each accepted order.
LEMMA ReleasesComeLast ==
  ToolsSpec => [](topic = "remediation" => Remediation!ReleaseComesLast)
<1>1. (topic = "remediation" => IntentIsTyped) =>
      (topic = "remediation" => Remediation!ReleaseComesLast)
  <2> SUFFICES ASSUME IntentIsTyped, Remediation!Accepted(doc),
                      NEW i \in 1..Len(doc.order), NEW j \in 1..Len(doc.order),
                      doc.actions[doc.order[i]].operation = "RELEASE",
                      doc.actions[doc.order[j]].operation # "RELEASE",
                      NEW f \in doc.actions[doc.order[j]].repairs,
                      doc.findings[f].pressing, ~doc.findings[f].deferred
               PROVE  j < i
    BY DEF Remediation!ReleaseComesLast
  <2> DEFINE r == doc.order[i]
             x == doc.order[j]
  <2>1. IsIntent(doc) /\ Remediation!OrderHolds(doc) /\ Remediation!ReleasesWait(doc)
    BY DEF IntentIsTyped, Remediation!Accepted
  <2>2. doc.order \in Seq(Actions) /\ \A a \in Actions : doc.actions[a].repairs \in SUBSET Findings
    BY <2>1 DEF IsIntent, Remediation!Documents
  <2>3. r \in Actions /\ x \in Actions
    BY <2>2
  <2>4. x \in Remediation!Blocking(doc)
    BY <2>2, <2>3 DEF Remediation!Blocking, Remediation!Active
  <2>5. x \in Remediation!Reaches(Remediation!DependsOn(doc), r)
    BY <2>1, <2>3, <2>4 DEF Remediation!ReleasesWait
  <2>6. PICK k \in 1..i-1 : x = doc.order[k]
    <3>1. Remediation!Reaches(Remediation!DependsOn(doc), doc.order[i])
            \subseteq {doc.order[k] : k \in 1..i-1}
      BY <2>1, EarlierIsClosed
    <3> QED BY <2>5, <3>1
  <2>7. Len(doc.order) \in Nat
    BY <2>2
  <2>8. k \in 1..Len(doc.order) /\ k < i
    BY <2>7
  <2>9. k = j
    BY <2>1, <2>6, <2>8, PlacesAreUnique
  <2> QED BY <2>8, <2>9
<1> QED BY <1>1, IntentsAreTyped, PTL

\* Plans that are accepted stay within bounds, and accepted orders end with the release
\* (validate_document, overlay_errors).
THEOREM AcceptedPlansStaySound == ToolsSpec => []AcceptedPlansAreSound
<1>1. AcceptedPlansAreSound <=>
        /\ topic = "remediation" => Remediation!PlansStayInBounds
        /\ topic = "remediation" => Remediation!ReleaseComesLast
  BY DEF AcceptedPlansAreSound
<1> QED BY <1>1, AcceptedPlansStayInBounds, ReleasesComeLast, PTL

-----------------------------------------------------------------------------
(* TwinMap: where baselines come from.                                     *)

Loaded(k) == calls[k].pc \in {"loaded", "answered"}
CallParts ==
  [pc : {"idle", "catalog", "listed", "clone", "cloned", "loaded", "answered"}, offline : BOOLEAN,
   named : Origins \cup {Nowhere}, source : Origins \cup {Nowhere},
   content : Contents \cup {NoContent, Embedded}, from : {"none", "git", "cache", "embedded"}]

\* What a call has of its repository at each place it can be at.
CallHolds(k) ==
  /\ calls[k].pc = "listed" => calls[k].source \in Organization
  /\ calls[k].pc \in {"clone", "cloned", "loaded", "answered"} =>
       /\ calls[k].source \in Origins
       /\ calls[k].source \in Organization \cup {calls[k].named}
  /\ calls[k].pc = "cloned" \/ calls[k].from \in {"git", "cache"} =>
       calls[k].content \in Contents /\ Twin!Verified(calls[k].source, calls[k].content)
  /\ calls[k].from # "none" => Loaded(k)
  /\ Loaded(k) => /\ calls[k].from # "none"
                  /\ calls[k].from = "embedded" => calls[k].content = Embedded
  /\ calls[k].from = "git" => kept[calls[k].source] # NoContent

\* What is in the cache was verified, for the repository it is kept for.
LoaderHolds ==
  /\ heads \in [Origins -> Contents] /\ kept \in [Origins -> Contents \cup {NoContent}]
  /\ catalog \in Origins /\ keptEntry \in Organization \cup {Nowhere}
  /\ calls \in [Calls -> CallParts]
  /\ \A o \in Origins : kept[o] # NoContent => Twin!Verified(o, kept[o])
  /\ \A k \in Calls : CallHolds(k)
  /\ \A d \in receipts : \E o \in Organization : <<o, d>> \in Signed


\* A step of one call keeps what the others have: the cache never loses a repository.
LEMMA LoaderNextHolds ==
  ASSUME LoaderHolds, NEW k \in Calls, Twin!Load(k)
  PROVE  LoaderHolds'
<1> USE DEF LoaderHolds
<1>0. /\ Organization \subseteq Origins /\ Default \in Organization /\ Nowhere \notin Origins
      /\ NoContent \notin Contents
  BY ToolsAssumption DEF Twin!TwinAssumption
<1>1. CASE Twin!Begin(k)
  <2>1. PICK named \in Origins \cup {Nowhere}, offline \in BOOLEAN :
          calls' = [calls EXCEPT ![k] =
            [pc |-> IF named = Nowhere THEN "catalog" ELSE "clone", offline |-> offline,
             named |-> named, source |-> named, content |-> NoContent, from |-> "none"]]
    BY <1>1 DEF Twin!Begin
  <2>2. calls' \in [Calls -> CallParts]
    BY <2>1 DEF CallParts
  <2>3. \A j \in Calls : CallHolds(j)'
    BY <1>0, <1>1, <2>1 DEF Twin!Begin, CallHolds, Loaded
  <2> QED BY <1>1, <2>2, <2>3 DEF Twin!Begin
<1>2. CASE Twin!CloneCatalog(k)
  BY <1>0, <1>2 DEF Twin!CloneCatalog, CallHolds, Loaded, CallParts
<1>3. CASE Twin!KeepCatalog(k)
  <2>1. calls[k].source \in Organization
    BY <1>3 DEF Twin!KeepCatalog, CallHolds
  <2>2. calls' \in [Calls -> CallParts]
    BY <1>3 DEF Twin!KeepCatalog, CallParts
  <2>3. \A j \in Calls : CallHolds(j)'
    BY <1>0, <1>3, <2>1 DEF Twin!KeepCatalog, CallHolds, Loaded, CallParts
  <2> QED BY <1>3, <2>1, <2>2, <2>3 DEF Twin!KeepCatalog
<1>4. CASE Twin!CatalogFails(k)
  <2> DEFINE source == IF keptEntry # Nowhere THEN keptEntry ELSE Default
  <2>1. source \in Organization
    BY <1>0
  <2> HIDE DEF source
  <2>2. calls' = [calls EXCEPT ![k].pc = "clone", ![k].source = source]
    BY <1>4 DEF Twin!CatalogFails, source
  <2>3. calls' \in [Calls -> CallParts]
    <3>1. source \in Origins \cup {Nowhere}
      BY <1>0, <2>1
    <3>2. [[calls[k] EXCEPT !.pc = "clone"] EXCEPT !.source = source] \in CallParts
      BY <3>1 DEF CallParts
    <3> QED BY <2>2, <3>2
  <2>4. \A j \in Calls : CallHolds(j)'
    BY <1>0, <1>4, <2>1, <2>2 DEF Twin!CatalogFails, CallHolds, Loaded, CallParts
  <2> QED BY <1>4, <2>3, <2>4 DEF Twin!CatalogFails
<1>5. CASE Twin!Clone(k)
  BY <1>0, <1>5 DEF Twin!Clone, CallHolds, Loaded, CallParts
<1>6. CASE Twin!Keep(k)
  BY <1>0, <1>6 DEF Twin!Keep, CallHolds, Loaded, CallParts
<1>7. CASE Twin!Fallback(k)
  <2> DEFINE source == calls[k].source
             usable == kept[source] # NoContent /\ Twin!Verified(source, kept[source])
             content == IF usable THEN kept[source] ELSE Embedded
             from == IF usable THEN "cache" ELSE "embedded"
  <2>1. source \in Origins /\ source \in Organization \cup {calls[k].named}
    BY <1>7 DEF Twin!Fallback, CallHolds
  <2>2. /\ content \in Contents \cup {Embedded} /\ from \in {"cache", "embedded"}
        /\ from = "cache" => content \in Contents /\ Twin!Verified(source, content)
        /\ from = "embedded" => content = Embedded
    BY <2>1
  <2>3. calls' = [calls EXCEPT ![k].pc = "loaded", ![k].content = content, ![k].from = from]
    BY <1>7 DEF Twin!Fallback
  <2> HIDE DEF content, from, usable
  <2>4. calls' \in [Calls -> CallParts]
    <3>1. [[[calls[k] EXCEPT !.pc = "loaded"] EXCEPT !.content = content] EXCEPT !.from = from]
            \in CallParts
      BY <2>2 DEF CallParts
    <3> QED BY <2>3, <3>1
  <2>5. CallHolds(k)'
    <3>1. /\ calls'[k].pc = "loaded" /\ calls'[k].content = content /\ calls'[k].from = from
          /\ calls'[k].source = source /\ calls'[k].named = calls[k].named
      BY <2>3 DEF CallParts
    <3> QED BY <2>1, <2>2, <3>1 DEF CallHolds, Loaded, Twin!Verified
  <2>6. ASSUME NEW j \in Calls, j # k PROVE CallHolds(j)'
    <3>1. calls'[j] = calls[j] /\ kept' = kept
      BY <1>7, <2>3, <2>6 DEF Twin!Fallback
    <3> QED BY <3>1 DEF CallHolds, Loaded
  <2> QED BY <1>7, <2>4, <2>5, <2>6 DEF Twin!Fallback
<1>8. CASE Twin!Attest(k)
  <2>1. calls[k].from \in {"git", "cache"} /\ calls[k].source \in Organization
    BY <1>8 DEF Twin!Attest, CallHolds, Loaded, CallParts
  <2>2. <<calls[k].source, calls[k].content.document>> \in Signed
    BY <2>1 DEF CallHolds, Twin!Verified
  <2>3. calls' \in [Calls -> CallParts]
    BY <1>8 DEF Twin!Attest, CallParts
  <2>4. \A j \in Calls : CallHolds(j)'
    BY <1>8 DEF Twin!Attest, CallHolds, Loaded, CallParts
  <2>5. \A d \in receipts' : \E o \in Organization : <<o, d>> \in Signed
    BY <1>8, <2>1, <2>2 DEF Twin!Attest
  <2> QED BY <1>8, <2>3, <2>4, <2>5 DEF Twin!Attest
<1> QED BY <1>1, <1>2, <1>3, <1>4, <1>5, <1>6, <1>7, <1>8 DEF Twin!Load

-----------------------------------------------------------------------------
(* TwinMap: what a plan is made of.                                        *)

Doc == inquiry.document

\* A capability that is implemented and there, with a provider that nothing but missing
\* credentials stops.
Ready(q, c, i, missing) ==
  /\ ~q.document[c].planned /\ Twin!Presence(q.observed, c) = "present"
  /\ q.document[c].flags \subseteq q.observed.flags
  /\ Twin!Obstacles(q.document[c].providers[i], q.observed) = {}
  /\ q.document[c].credentials \cup q.document[c].providers[i].credentials
       \subseteq q.held \cup missing

\* What an entry of the map says is so. Only for an executable one, or one whose blockers
\* are credentials, is there such a provider.
EntryIsTrue(q, c, e) ==
  /\ e.policy = "executable" => e.missing = {}
  /\ e.policy = "executable" \/ e.kinds = {} => Ready(q, c, e.provider, e.missing)
  /\ e.kinds = {} => e.policy \in {"executable", "credential-missing"}

LEMMA EntryBegins ==
  ASSUME NEW c
  PROVE  EntryIsTrue(inquiry, c, Twin!Entry(Doc[c], Twin!Presence(inquiry.observed, c), inquiry.observed,
                                   inquiry.held))
<1> DEFINE presence == Twin!Presence(inquiry.observed, c)
           e == Twin!Entry(Doc[c], presence, inquiry.observed, inquiry.held)
           i == Twin!Selected(Doc[c], inquiry.observed, inquiry.held)
           kinds == Twin!Obstacles(Doc[c].providers[i], inquiry.observed)
           missing == Twin!Lacking(Doc[c], Doc[c].providers[i], inquiry.held)
           full == [policy |-> IF missing # {} THEN "credential-missing"
                               ELSE IF kinds # {} THEN "absent" ELSE "executable",
                    kinds |-> kinds, missing |-> missing, provider |-> i]
<1>1. presence \in {"blocked", "absent", "discovery-only", "present"}
  BY DEF Twin!Presence
<1>2. ASSUME NEW p, NEW K, p # "executable", K # {}
      PROVE  EntryIsTrue(inquiry, c, Twin!Barred(p, K))
  <2> DEFINE f == Twin!Barred(p, K)
  <2>1. f = [policy |-> p, kinds |-> K, missing |-> {}, provider |-> 1]
    BY DEF Twin!Barred
  <2> HIDE DEF f
  <2>2. f.policy = p /\ f.kinds = K
    BY <2>1
  <2>3. EntryIsTrue(inquiry, c, f)
    BY <1>2, <2>2 DEF EntryIsTrue
  <2> QED BY <2>3 DEF f
<1>3. CASE Doc[c].planned
  BY <1>2, <1>3 DEF Twin!Entry
<1>4. CASE ~Doc[c].planned /\ presence = "blocked"
  BY <1>2, <1>4 DEF Twin!Entry
<1>5. CASE ~Doc[c].planned /\ presence = "absent"
  BY <1>2, <1>5 DEF Twin!Entry
<1>6. CASE /\ ~Doc[c].planned /\ presence \in {"discovery-only", "present"}
           /\ ~(Doc[c].flags \subseteq inquiry.observed.flags)
  BY <1>2, <1>6 DEF Twin!Entry
<1>7. CASE /\ ~Doc[c].planned /\ presence = "discovery-only"
           /\ Doc[c].flags \subseteq inquiry.observed.flags
  BY <1>2, <1>7 DEF Twin!Entry
<1>8. CASE /\ ~Doc[c].planned /\ presence = "present"
           /\ Doc[c].flags \subseteq inquiry.observed.flags
  <2>1. e = full
    BY <1>8 DEF Twin!Entry
  <2>2. Doc[c].credentials \cup Doc[c].providers[i].credentials \subseteq inquiry.held \cup missing
    BY DEF Twin!Lacking
  <2>3. /\ e.policy = (IF missing # {} THEN "credential-missing"
                       ELSE IF kinds # {} THEN "absent" ELSE "executable")
        /\ e.kinds = kinds /\ e.missing = missing /\ e.provider = i
    BY <2>1
  <2>4. kinds = {} => Ready(inquiry, c, i, missing)
    BY <1>8, <2>2 DEF Ready, Doc
  <2> HIDE DEF kinds, missing, i, e
  <2>5. EntryIsTrue(inquiry, c, e)
    BY <2>3, <2>4 DEF EntryIsTrue
  <2> QED BY <2>5 DEF e
<1> QED BY <1>1, <1>3, <1>4, <1>5, <1>6, <1>7, <1>8

\* The second pass of compose_map only takes away.
LEMMA WeighedIsTrue ==
  ASSUME NEW entries, NEW c, EntryIsTrue(inquiry, c, entries[c])
  PROVE  EntryIsTrue(inquiry, c, Twin!Weighed(Doc, entries, c))
<1> DEFINE e == entries[c]
           w(p) == [policy |-> p, kinds |-> e.kinds \cup {"dependency_unmet"},
                    missing |-> e.missing, provider |-> e.provider]
<1>1. \/ Twin!Weighed(Doc, entries, c) = e
      \/ e.policy = "executable" /\ \E p : Twin!Weighed(Doc, entries, c) = w(p)
  BY Zenon DEF Twin!Weighed
<1>2. ASSUME e.policy = "executable", NEW p
      PROVE  EntryIsTrue(inquiry, c, w(p))
  BY <1>2 DEF EntryIsTrue
<1> QED BY <1>1, <1>2

-----------------------------------------------------------------------------
(* TwinMap: the walk. What is done for each capability on the stack is the *)
(* dependencies before its next one, the last of which may be above it.    *)

Frames == [capability : DOMAIN Doc, next : Nat \ {0}]
Choices == {[capability |-> c, provider |-> walk.entries[c].provider] : c \in DOMAIN Doc}

WalkIsTyped ==
  /\ inquiry \in Inquiries
  /\ DOMAIN walk = {"pc", "at", "stack", "plan", "gap", "entries"}
  /\ walk = [f \in DOMAIN walk |-> walk[f]]
  /\ walk.pc \in {"weighing", "walking", "cycle", "gap", "resolved"}
  /\ walk.at \in Nat \ {0}
  /\ walk.stack \in Seq(Frames) /\ walk.plan \in Seq(Choices)
  /\ walk.entries = [c \in DOMAIN Doc |-> walk.entries[c]]
  /\ \A c \in DOMAIN Doc : EntryIsTrue(inquiry, c, walk.entries[c])
  /\ walk.pc = "weighing" => walk.stack = <<>> /\ walk.plan = <<>>

\* Of the first n capabilities of a list, all are planned but perhaps the last, which is the
\* one on the stack at place f.
Follows(list, n, planned, stack, f) ==
  \A i \in 1..n : i \in DOMAIN list =>
    \/ list[i] \in planned
    \/ i = n /\ f \in DOMAIN stack /\ stack[f].capability = list[i]

StackHolds ==
  walk.pc = "walking" =>
    /\ Follows(inquiry.wanted, walk.at - 1, Twin!Planned, walk.stack, 1)
    /\ \A f \in DOMAIN walk.stack :
         /\ walk.stack[f].capability \notin Twin!Planned
         /\ \A g \in DOMAIN walk.stack :
              walk.stack[f].capability = walk.stack[g].capability => f = g
         /\ Follows(Doc[walk.stack[f].capability].requires, walk.stack[f].next - 1,
                    Twin!Planned, walk.stack, f + 1)

\* A step of the plan can be carried out after those before it.
ChoiceIsSound(q, plan, i) ==
  LET c == plan[i].capability
      before == {plan[j].capability : j \in 1..i - 1}
  IN  /\ Ready(q, c, plan[i].provider, UNION {q.document[d].produces : d \in before})
      /\ Twin!ToSet(q.document[c].requires) \subseteq before /\ c \notin before

PlanHolds ==
  /\ \A i \in DOMAIN walk.plan : ChoiceIsSound(inquiry, walk.plan, i)
  /\ walk.pc = "resolved" => Twin!ToSet(inquiry.wanted) \subseteq Twin!Planned

WalkHolds == WalkIsTyped /\ StackHolds /\ PlanHolds /\ Twin!GapIsDeepest

LEMMA ListsAreSequences ==
  ASSUME inquiry \in Inquiries
  PROVE  /\ inquiry.wanted \in Seq(Nat)
         /\ \A c \in DOMAIN Doc : Doc[c].requires \in Seq(Nat)
BY ToolsAssumption DEF Twin!TwinAssumption, Doc

\* What a visit does to the walk of its caller.
LEMMA VisitMoves ==
  ASSUME NEW c, NEW before, Twin!Visit(c, before), before.pc = "walking",
         DOMAIN before = {"pc", "at", "stack", "plan", "gap", "entries"},
         before = [f \in DOMAIN before |-> before[f]]
  PROVE  /\ walk'.at = before.at /\ walk'.plan = before.plan /\ walk'.entries = before.entries
         /\ DOMAIN walk' = DOMAIN before /\ walk' = [f \in DOMAIN walk' |-> walk'[f]]
         /\ \/ /\ c \in Twin!Planned
               /\ walk'.pc = "walking" /\ walk'.stack = before.stack
            \/ walk'.pc = "cycle" /\ walk'.stack = before.stack
            \/ /\ c \notin Twin!Planned /\ c \notin DOMAIN Doc
               /\ walk'.pc = "gap" /\ walk'.stack = before.stack
               /\ walk'.gap = [capability |-> c, kinds |-> {"capability_unknown"}]
            \/ /\ c \notin Twin!Planned /\ c \notin Twin!Trail /\ c \in DOMAIN Doc
               /\ walk'.pc = "walking"
               /\ walk'.stack = Append(before.stack, [capability |-> c, next |-> 1])
<1>1. CASE c \in Twin!Planned
  BY <1>1 DEF Twin!Visit
<1>2. CASE c \notin Twin!Planned /\ c \in Twin!Trail
  <2>1. walk' = [before EXCEPT !.pc = "cycle"]
    BY <1>2 DEF Twin!Visit
  <2> QED BY <2>1
<1>3. CASE c \notin Twin!Planned /\ c \notin Twin!Trail /\ c \notin DOMAIN Doc
  <2>1. walk' = [before EXCEPT !.pc = "gap",
                               !.gap = [capability |-> c, kinds |-> {"capability_unknown"}]]
    BY <1>3 DEF Twin!Visit, Doc
  <2> QED BY <1>3, <2>1
<1>4. CASE c \notin Twin!Planned /\ c \notin Twin!Trail /\ c \in DOMAIN Doc
  <2>1. walk' = [before EXCEPT !.stack = Append(@, [capability |-> c, next |-> 1])]
    BY <1>4 DEF Twin!Visit, Doc
  <2> QED BY <1>4, <2>1
<1> QED BY <1>1, <1>2, <1>3, <1>4

LEMMA WeighHolds ==
  ASSUME WalkHolds, Twin!Weigh, UNCHANGED inquiry
  PROVE  WalkHolds'
<1> USE DEF WalkHolds, WalkIsTyped
<1>1. walk.stack = <<>> /\ walk.plan = <<>> /\ walk.pc = "weighing" /\ Doc' = Doc
  BY DEF Twin!Weigh, Doc
<1>2. CASE walk.at <= Len(Doc)
  <2> DEFINE w == Twin!Weighed(Doc, walk.entries, walk.at)
  <2>1. walk' = [walk EXCEPT !.entries[walk.at] = w, !.at = @ + 1]
    BY <1>2 DEF Twin!Weigh, Doc
  <2>2. walk.at \in DOMAIN Doc => EntryIsTrue(inquiry, walk.at, w)
    BY WeighedIsTrue
  <2> HIDE DEF w
  <2>3. /\ walk'.pc = "weighing" /\ walk'.at = walk.at + 1 /\ walk'.stack = <<>>
        /\ walk'.plan = <<>> /\ DOMAIN walk' = DOMAIN walk
        /\ walk' = [f \in DOMAIN walk' |-> walk'[f]]
        /\ walk'.entries = [walk.entries EXCEPT ![walk.at] = w]
    BY <1>1, <2>1
  <2>4. \A c \in DOMAIN Doc : EntryIsTrue(inquiry, c, walk'.entries[c])
    BY <2>2, <2>3
  <2>5. \A c \in DOMAIN Doc : EntryIsTrue(inquiry, c, walk.entries[c])'
    BY <1>1, <2>3, <2>4
  <2>6. WalkIsTyped'
    BY <1>1, <2>3, <2>5
  <2> QED BY <2>3, <2>6 DEF StackHolds, PlanHolds, Twin!GapIsDeepest
<1>3. CASE ~(walk.at <= Len(Doc))
  <2>1. walk' = [walk EXCEPT !.pc = "walking", !.at = 1]
    BY <1>3 DEF Twin!Weigh, Doc
  <2>2. /\ walk'.pc = "walking" /\ walk'.at = 1 /\ walk'.stack = <<>> /\ walk'.plan = <<>>
        /\ DOMAIN walk' = DOMAIN walk /\ walk' = [f \in DOMAIN walk' |-> walk'[f]]
        /\ walk'.entries = walk.entries
    BY <1>1, <2>1
  <2>3. \A c \in DOMAIN Doc : EntryIsTrue(inquiry, c, walk.entries[c])'
    BY <1>1, <2>2
  <2> QED BY <1>1, <2>2, <2>3 DEF StackHolds, PlanHolds, Twin!GapIsDeepest, Follows
<1> QED BY <1>2, <1>3

\* A step that leaves plan and entries alone keeps what is said of them.
LEMMA PlanStays ==
  ASSUME WalkIsTyped, PlanHolds, UNCHANGED inquiry, walk'.plan = walk.plan,
         walk'.entries = walk.entries, walk'.pc \notin {"weighing", "resolved"}
  PROVE  /\ Doc' = Doc /\ Frames' = Frames /\ Choices' = Choices /\ PlanHolds'
         /\ Twin!Planned' = Twin!Planned
         /\ \A c \in DOMAIN Doc : EntryIsTrue(inquiry, c, walk.entries[c])'
<1>1. Doc' = Doc
  BY DEF Doc
<1>2. \A c \in DOMAIN Doc : EntryIsTrue(inquiry, c, walk.entries[c])'
  BY <1>1 DEF WalkIsTyped
<1>3. \A i \in DOMAIN walk.plan : ChoiceIsSound(inquiry, walk.plan, i)'
  BY <1>1 DEF PlanHolds
<1> QED BY <1>1, <1>2, <1>3 DEF Frames, Choices, PlanHolds, Twin!Planned

\* After a visit the list of the caller has one more that is planned, or on the stack.
LEMMA VisitHolds ==
  ASSUME WalkHolds, NEW c \in Nat, NEW before, Twin!Visit(c, before), UNCHANGED inquiry,
         walk.pc = "walking", before.pc = "walking",
         DOMAIN before = {"pc", "at", "stack", "plan", "gap", "entries"},
         before = [f \in DOMAIN before |-> before[f]],
         before.at \in Nat \ {0}, before.stack \in Seq(Frames),
         before.plan = walk.plan, before.entries = walk.entries,
         Len(before.stack) = Len(walk.stack),
         \A f \in DOMAIN walk.stack : before.stack[f].capability = walk.stack[f].capability,
         \A i \in 1..before.at - 1 : i \in DOMAIN inquiry.wanted =>
           \/ inquiry.wanted[i] \in Twin!Planned
           \/ /\ i = before.at - 1
              /\ IF walk.stack = <<>> THEN inquiry.wanted[i] = c
                 ELSE walk.stack[1].capability = inquiry.wanted[i],
         \A f \in DOMAIN walk.stack :
           LET requires == Doc[walk.stack[f].capability].requires IN
           \A i \in 1..before.stack[f].next - 1 : i \in DOMAIN requires =>
             \/ requires[i] \in Twin!Planned
             \/ /\ i = before.stack[f].next - 1
                /\ IF f = Len(walk.stack) THEN requires[i] = c
                   ELSE walk.stack[f + 1].capability = requires[i]
  PROVE  WalkHolds'
<1>1. /\ walk'.at = before.at /\ walk'.plan = before.plan /\ walk'.entries = before.entries
      /\ DOMAIN walk' = DOMAIN before /\ walk' = [f \in DOMAIN walk' |-> walk'[f]]
      /\ \/ c \in Twin!Planned /\ walk'.pc = "walking" /\ walk'.stack = before.stack
         \/ walk'.pc = "cycle" /\ walk'.stack = before.stack
         \/ /\ c \notin Twin!Planned /\ c \notin DOMAIN Doc
            /\ walk'.pc = "gap" /\ walk'.stack = before.stack
            /\ walk'.gap = [capability |-> c, kinds |-> {"capability_unknown"}]
         \/ /\ c \notin Twin!Planned /\ c \notin Twin!Trail /\ c \in DOMAIN Doc
            /\ walk'.pc = "walking"
            /\ walk'.stack = Append(before.stack, [capability |-> c, next |-> 1])
  BY VisitMoves
<1>2. /\ Doc' = Doc /\ Frames' = Frames /\ Choices' = Choices /\ PlanHolds'
      /\ Twin!Planned' = Twin!Planned
      /\ \A d \in DOMAIN Doc : EntryIsTrue(inquiry, d, walk.entries[d])'
  BY <1>1, PlanStays DEF WalkHolds
<1>3. walk'.stack \in Seq(Frames)
  <2>1. c \in DOMAIN Doc => [capability |-> c, next |-> 1] \in Frames
    BY DEF Frames
  <2> QED BY <1>1, <2>1
<1>4. WalkIsTyped'
  BY <1>1, <1>2, <1>3 DEF WalkHolds, WalkIsTyped
<1>5. Twin!GapIsDeepest'
  <2>1. CASE walk'.pc # "gap"
    BY <2>1 DEF Twin!GapIsDeepest
  <2>2. CASE walk'.pc = "gap"
    <3>1. /\ walk'.gap = [capability |-> c, kinds |-> {"capability_unknown"}]
          /\ c \notin Twin!Planned /\ c \notin DOMAIN Doc
      BY <1>1, <2>2
    <3>2. walk'.gap.capability = c /\ walk'.gap.kinds # {}
      BY <3>1
    <3>3. c \notin Twin!Planned' /\ c \notin DOMAIN inquiry'.document
      BY <1>2, <3>1 DEF Doc
    <3> QED BY <3>2, <3>3 DEF Twin!GapIsDeepest
  <2> QED BY <2>1, <2>2
<1>6. StackHolds'
  <2> DEFINE n == Len(walk.stack)
  <2>0. n \in Nat /\ DOMAIN walk.stack = 1..n /\ DOMAIN before.stack = 1..n
    BY DEF WalkHolds, WalkIsTyped
  <2>a. /\ \A f \in 1..n : walk.stack[f].capability \notin Twin!Planned
        /\ \A f, g \in 1..n : walk.stack[f].capability = walk.stack[g].capability => f = g
    BY <2>0 DEF WalkHolds, StackHolds
  <2>b. \A f \in 1..n : before.stack[f].next \in Nat
    <3>1. \A f \in 1..n : before.stack[f] \in Frames
      BY <2>0
    <3> QED BY <3>1 DEF Frames
  <2>1. CASE c \in Twin!Planned /\ walk'.pc = "walking" /\ walk'.stack = before.stack
    <3>1. Follows(inquiry.wanted, before.at - 1, Twin!Planned, before.stack, 1)
      BY <2>0, <2>1 DEF Follows
    <3>2. ASSUME NEW f \in 1..n
          PROVE  Follows(Doc[before.stack[f].capability].requires, before.stack[f].next - 1,
                         Twin!Planned, before.stack, f + 1)
      <4> SUFFICES ASSUME NEW i \in 1..before.stack[f].next - 1,
                          i \in DOMAIN Doc[walk.stack[f].capability].requires,
                          Doc[walk.stack[f].capability].requires[i] \notin Twin!Planned
                   PROVE  /\ i = before.stack[f].next - 1 /\ f + 1 \in 1..n
                          /\ before.stack[f + 1].capability
                               = Doc[walk.stack[f].capability].requires[i]
        BY <2>0 DEF Follows
      <4> QED BY <2>0, <2>1
    <3>3. \A f \in 1..n : before.stack[f].capability \notin Twin!Planned
      BY <2>0, <2>a
    <3>4. \A f, g \in 1..n : before.stack[f].capability = before.stack[g].capability => f = g
      BY <2>0, <2>a
    <3>5. inquiry' = inquiry /\ Doc' = Doc /\ Twin!Planned' = Twin!Planned
          /\ walk'.stack = before.stack /\ walk'.at = before.at
      BY <1>1, <1>2, <2>1
    <3>6. /\ Follows(inquiry'.wanted, walk'.at - 1, Twin!Planned', walk'.stack, 1)
          /\ \A f \in DOMAIN walk'.stack :
               /\ walk'.stack[f].capability \notin Twin!Planned'
               /\ \A g \in DOMAIN walk'.stack :
                    walk'.stack[f].capability = walk'.stack[g].capability => f = g
               /\ Follows(Doc'[walk'.stack[f].capability].requires, walk'.stack[f].next - 1,
                          Twin!Planned', walk'.stack, f + 1)
      <4> DEFINE stack == before.stack
      <4>1. DOMAIN stack = 1..n
        BY <2>0
      <4>2. \A f \in 1..n : Follows(Doc[stack[f].capability].requires, stack[f].next - 1,
                                   Twin!Planned, stack, f + 1)
        BY <3>2
      <4>3. walk'.stack = stack
        BY <3>5
      <4> HIDE DEF n, stack
      <4>4. \A f \in DOMAIN stack :
               /\ stack[f].capability \notin Twin!Planned
               /\ \A g \in DOMAIN stack : stack[f].capability = stack[g].capability => f = g
               /\ Follows(Doc[stack[f].capability].requires, stack[f].next - 1,
                          Twin!Planned, stack, f + 1)
        BY <4>1, <4>2, <3>3, <3>4 DEF stack
      <4>5. Follows(inquiry'.wanted, walk'.at - 1, Twin!Planned', stack, 1)
        BY <3>1, <3>5 DEF stack
      <4> QED BY <3>5, <4>3, <4>4, <4>5
    <3> QED BY <3>6 DEF StackHolds
  <2>2. CASE walk'.pc # "walking"
    BY <2>2 DEF StackHolds
  <2>3. CASE /\ c \notin Twin!Planned /\ c \notin Twin!Trail /\ c \in DOMAIN Doc
             /\ walk'.pc = "walking"
             /\ walk'.stack = Append(before.stack, [capability |-> c, next |-> 1])
    <3> DEFINE stack == Append(before.stack, [capability |-> c, next |-> 1])
    <3>1. /\ DOMAIN stack = 1..n + 1 /\ stack[n + 1] = [capability |-> c, next |-> 1]
          /\ \A f \in 1..n : stack[f] = before.stack[f]
      BY <2>0
    <3>2. \A f \in 1..n : walk.stack[f].capability # c
      BY <2>0, <2>3 DEF Twin!Trail
    <3> HIDE DEF stack, n
    <3>3. /\ stack[n + 1].capability = c /\ stack[n + 1].next = 1
          /\ \A f \in 1..n : /\ stack[f].capability = walk.stack[f].capability
                             /\ stack[f].next = before.stack[f].next
      BY <2>0, <3>1 DEF n
    <3>4. walk.stack = <<>> <=> n = 0
      BY DEF WalkHolds, WalkIsTyped, n
    <3>5. Follows(inquiry.wanted, before.at - 1, Twin!Planned, stack, 1)
      BY <2>0, <2>3, <3>1, <3>3, <3>4 DEF Follows
    <3>6. ASSUME NEW f \in 1..n
          PROVE  Follows(Doc[stack[f].capability].requires, stack[f].next - 1,
                         Twin!Planned, stack, f + 1)
      <4> SUFFICES ASSUME NEW i \in 1..before.stack[f].next - 1,
                          i \in DOMAIN Doc[walk.stack[f].capability].requires,
                          Doc[walk.stack[f].capability].requires[i] \notin Twin!Planned
                   PROVE  /\ i = before.stack[f].next - 1 /\ f + 1 \in 1..n + 1
                          /\ stack[f + 1].capability
                               = Doc[walk.stack[f].capability].requires[i]
        BY <2>0, <3>1, <3>3 DEF Follows
      <4>1. CASE f = n
        BY <2>0, <3>1, <3>3, <4>1 DEF n
      <4>2. CASE f # n
        <5>1. f + 1 \in 1..n
          BY <2>0, <4>2
        <5> QED BY <2>0, <3>1, <3>3, <4>2, <5>1 DEF n
      <4> QED BY <4>1, <4>2
    <3>7. Follows(Doc[stack[n + 1].capability].requires, stack[n + 1].next - 1,
                  Twin!Planned, stack, n + 2)
      BY <3>3 DEF Follows
    <3>8. ASSUME NEW f \in 1..n + 1
          PROVE  /\ stack[f].capability \notin Twin!Planned
                 /\ \A g \in 1..n + 1 : stack[f].capability = stack[g].capability => f = g
                 /\ Follows(Doc[stack[f].capability].requires, stack[f].next - 1,
                            Twin!Planned, stack, f + 1)
      <4>0. \A g \in 1..n + 1 : g \in 1..n \/ g = n + 1
        BY <2>0
      <4>1. stack[f].capability \notin Twin!Planned
        BY <2>3, <2>a, <3>3, <4>0
      <4>2. ASSUME NEW g \in 1..n + 1, stack[f].capability = stack[g].capability PROVE f = g
        BY <2>a, <3>2, <3>3, <4>0, <4>2
      <4>3. (n + 1) + 1 = n + 2
        BY <2>0
      <4>4. Follows(Doc[stack[f].capability].requires, stack[f].next - 1,
                    Twin!Planned, stack, f + 1)
        BY <3>6, <3>7, <4>0, <4>3
      <4> QED BY <4>1, <4>2, <4>4
    <3>9. /\ inquiry' = inquiry /\ Doc' = Doc /\ Twin!Planned' = Twin!Planned
          /\ walk'.stack = stack /\ DOMAIN stack = 1..n + 1 /\ walk'.at = before.at
      BY <1>1, <1>2, <2>3, <3>1 DEF stack
    <3> QED BY <3>5, <3>8, <3>9 DEF StackHolds
  <2> QED BY <1>1, <2>1, <2>2, <2>3
<1> QED BY <1>2, <1>4, <1>5, <1>6 DEF WalkHolds

LEMMA WantHolds ==
  ASSUME WalkHolds, Twin!Want, UNCHANGED inquiry
  PROVE  WalkHolds'
<1> DEFINE before == [walk EXCEPT !.at = @ + 1]
           c == inquiry.wanted[walk.at]
<1>1. /\ walk.pc = "walking" /\ walk.stack = <<>> /\ walk.at <= Len(inquiry.wanted)
      /\ Twin!Visit(c, before)
  BY DEF Twin!Want
<1>2. inquiry.wanted \in Seq(Nat) /\ walk.at \in Nat \ {0}
  BY ListsAreSequences DEF WalkHolds, WalkIsTyped
<1>3. c \in Nat
  BY <1>1, <1>2
<1>4. /\ before.pc = "walking" /\ before.at = walk.at + 1 /\ before.stack = walk.stack
      /\ before.plan = walk.plan /\ before.entries = walk.entries
      /\ DOMAIN before = {"pc", "at", "stack", "plan", "gap", "entries"}
      /\ before = [f \in DOMAIN before |-> before[f]]
  BY <1>1 DEF WalkHolds, WalkIsTyped
<1>5. walk.stack \in Seq(Frames) /\ DOMAIN walk.stack = {}
  BY <1>1 DEF WalkHolds, WalkIsTyped
<1>6. ASSUME NEW i \in 1..walk.at, i \in DOMAIN inquiry.wanted
      PROVE  \/ inquiry.wanted[i] \in Twin!Planned
             \/ i = walk.at /\ inquiry.wanted[i] = c
  <2>1. CASE i = walk.at
    BY <2>1
  <2>2. CASE i # walk.at
    <3>1. i \in 1..walk.at - 1
      BY <1>2, <2>2
    <3> QED BY <1>1, <1>5, <1>6, <3>1 DEF WalkHolds, StackHolds, Follows
  <2> QED BY <2>1, <2>2
<1> HIDE DEF before, c
<1>7. \A i \in 1..before.at - 1 : i \in DOMAIN inquiry.wanted =>
        \/ inquiry.wanted[i] \in Twin!Planned
        \/ /\ i = before.at - 1
           /\ IF walk.stack = <<>> THEN inquiry.wanted[i] = c
              ELSE walk.stack[1].capability = inquiry.wanted[i]
  BY <1>1, <1>2, <1>4, <1>6
<1>8. \A f \in DOMAIN walk.stack :
        LET list == Doc[walk.stack[f].capability].requires IN
        \A i \in 1..before.stack[f].next - 1 : i \in DOMAIN list =>
          \/ list[i] \in Twin!Planned
          \/ /\ i = before.stack[f].next - 1
             /\ IF f = Len(walk.stack) THEN list[i] = c
                ELSE walk.stack[f + 1].capability = list[i]
  BY <1>5
<1>9. \A f \in DOMAIN walk.stack : before.stack[f].capability = walk.stack[f].capability
  BY <1>5
<1>10. before.at \in Nat \ {0} /\ before.stack \in Seq(Frames) /\ Len(before.stack) = Len(walk.stack)
  BY <1>2, <1>4, <1>5
<1> QED BY <1>1, <1>3, <1>4, <1>7, <1>8, <1>9, <1>10, VisitHolds

LEMMA RequireHolds ==
  ASSUME WalkHolds, Twin!Require, UNCHANGED inquiry
  PROVE  WalkHolds'
<1> DEFINE n == Len(walk.stack)
           before == [walk EXCEPT !.stack[n].next = @ + 1]
           top == walk.stack[n]
           requires == Doc[top.capability].requires
           c == requires[top.next]
<1>1. /\ walk.pc = "walking" /\ walk.stack # <<>> /\ top.next <= Len(requires)
      /\ Twin!Visit(c, before)
  BY Zenon DEF Twin!Require, Twin!Top, Twin!Requires, Doc
<1>2. /\ walk.stack \in Seq(Frames) /\ n \in Nat \ {0} /\ DOMAIN walk.stack = 1..n
      /\ walk.at \in Nat \ {0}
  BY <1>1 DEF WalkHolds, WalkIsTyped
<1>3. top \in Frames /\ n \in 1..n
  BY <1>2
<1>4. top.capability \in DOMAIN Doc /\ top.next \in Nat \ {0} /\ requires \in Seq(Nat)
  BY <1>3, ListsAreSequences DEF Frames, WalkHolds, WalkIsTyped
<1>5. c \in Nat
  <2>1. top.next \in 1..Len(requires)
    BY <1>1, <1>4
  <2> HIDE DEF top, requires
  <2> QED BY <1>4, <2>1
<1>6. [top EXCEPT !.next = @ + 1] \in Frames
  BY <1>3 DEF Frames
<1>7. /\ before.pc = "walking" /\ before.at = walk.at
      /\ before.stack = [walk.stack EXCEPT ![n] = [top EXCEPT !.next = @ + 1]]
      /\ before.plan = walk.plan /\ before.entries = walk.entries
      /\ DOMAIN before = {"pc", "at", "stack", "plan", "gap", "entries"}
      /\ before = [f \in DOMAIN before |-> before[f]]
  BY <1>1, <1>2 DEF WalkHolds, WalkIsTyped
<1>8. /\ before.stack \in Seq(Frames) /\ Len(before.stack) = n
      /\ \A f \in 1..n : f # n => before.stack[f] = walk.stack[f]
      /\ before.stack[n] = [top EXCEPT !.next = @ + 1]
  BY <1>2, <1>6, <1>7
<1>9. before.stack[n].next = top.next + 1 /\ before.stack[n].capability = top.capability
  BY <1>3, <1>8 DEF Frames
<1>10. \A i \in 1..walk.at - 1 : i \in DOMAIN inquiry.wanted =>
        \/ inquiry.wanted[i] \in Twin!Planned
        \/ i = walk.at - 1 /\ walk.stack[1].capability = inquiry.wanted[i]
  BY <1>1, Zenon DEF WalkHolds, StackHolds, Follows
<1>11. ASSUME NEW f \in 1..n, NEW i \in 1..before.stack[f].next - 1,
              i \in DOMAIN Doc[walk.stack[f].capability].requires,
              Doc[walk.stack[f].capability].requires[i] \notin Twin!Planned
       PROVE  /\ i = before.stack[f].next - 1
              /\ IF f = n THEN Doc[walk.stack[f].capability].requires[i] = c
                 ELSE walk.stack[f + 1].capability = Doc[walk.stack[f].capability].requires[i]
  <2>1. Follows(Doc[walk.stack[f].capability].requires, walk.stack[f].next - 1,
                Twin!Planned, walk.stack, f + 1)
    BY <1>1, <1>2 DEF WalkHolds, StackHolds
  <2>2. CASE f # n
    BY <1>8, <1>11, <2>1, <2>2 DEF Follows
  <2>3. CASE f = n
    <3>1. i \in 1..top.next
      BY <1>4, <1>9, <2>3
    <3>2. ~(n + 1 \in DOMAIN walk.stack)
      BY <1>2
    <3>3. i \notin 1..top.next - 1
      BY <1>11, <2>1, <2>3, <3>2 DEF Follows
    <3>4. i = top.next
      BY <1>4, <3>1, <3>3
    <3> QED BY <1>4, <1>9, <2>3, <3>4
  <2> QED BY <2>2, <2>3
<1>12. \A f \in DOMAIN walk.stack : before.stack[f].capability = walk.stack[f].capability
  BY <1>2, <1>8, <1>9
<1> HIDE DEF before, c, n
<1>13. \A i \in 1..before.at - 1 : i \in DOMAIN inquiry.wanted =>
        \/ inquiry.wanted[i] \in Twin!Planned
        \/ /\ i = before.at - 1
           /\ IF walk.stack = <<>> THEN inquiry.wanted[i] = c
              ELSE walk.stack[1].capability = inquiry.wanted[i]
  BY <1>1, <1>7, <1>10
<1>14. \A f \in DOMAIN walk.stack :
           LET list == Doc[walk.stack[f].capability].requires IN
           \A i \in 1..before.stack[f].next - 1 : i \in DOMAIN list =>
             \/ list[i] \in Twin!Planned
             \/ /\ i = before.stack[f].next - 1
                /\ IF f = Len(walk.stack) THEN list[i] = c
                   ELSE walk.stack[f + 1].capability = list[i]
  BY <1>2, <1>11 DEF n
<1>15. Len(before.stack) = Len(walk.stack)
  BY <1>8 DEF n
<1> QED BY <1>1, <1>2, <1>5, <1>7, <1>8, <1>12, <1>13, <1>14, <1>15, VisitHolds, Zenon

LEMMA ResolveHolds ==
  ASSUME WalkHolds, Twin!Resolve, UNCHANGED inquiry
  PROVE  WalkHolds'
<1>1. /\ walk.pc = "walking" /\ walk.stack = <<>> /\ walk.at > Len(inquiry.wanted)
      /\ walk' = [walk EXCEPT !.pc = "resolved"]
  BY DEF Twin!Resolve
<1>2. /\ walk'.pc = "resolved" /\ walk'.at = walk.at /\ walk'.stack = walk.stack
      /\ walk'.plan = walk.plan /\ walk'.entries = walk.entries
      /\ DOMAIN walk' = DOMAIN walk /\ walk' = [f \in DOMAIN walk' |-> walk'[f]]
  BY <1>1 DEF WalkHolds, WalkIsTyped
<1>3. inquiry.wanted \in Seq(Nat) /\ walk.at \in Nat \ {0} /\ DOMAIN walk.stack = {}
  BY <1>1, ListsAreSequences DEF WalkHolds, WalkIsTyped
<1>4. \A i \in DOMAIN inquiry.wanted : i \in 1..walk.at - 1
  BY <1>1, <1>3
<1>5. \A i \in DOMAIN inquiry.wanted : inquiry.wanted[i] \in Twin!Planned
  BY <1>1, <1>3, <1>4 DEF WalkHolds, StackHolds, Follows
<1>6. Twin!ToSet(inquiry.wanted) \subseteq Twin!Planned
  BY <1>5 DEF Twin!ToSet
<1>7. Doc' = Doc /\ Twin!Planned' = Twin!Planned /\ Choices' = Choices /\ Frames' = Frames
  BY <1>2 DEF Doc, Twin!Planned, Choices, Frames
<1>8. \A c \in DOMAIN Doc : EntryIsTrue(inquiry, c, walk.entries[c])'
  BY <1>2, <1>7 DEF WalkHolds, WalkIsTyped
<1>9. \A i \in DOMAIN walk.plan : ChoiceIsSound(inquiry, walk.plan, i)'
  BY <1>2, <1>7 DEF WalkHolds, PlanHolds
<1>10. WalkIsTyped'
  BY <1>2, <1>7, <1>8 DEF WalkHolds, WalkIsTyped
<1>11. PlanHolds'
  BY <1>2, <1>6, <1>7, <1>9 DEF PlanHolds
<1> QED BY <1>2, <1>10, <1>11 DEF WalkHolds, StackHolds, Twin!GapIsDeepest

\* What is planned next, or is the gap: all that it depends on is planned.
LEMMA TopIsServed ==
  ASSUME WalkHolds, walk.pc = "walking", walk.stack # <<>>,
         Twin!Top.next > Len(Twin!Requires)
  PROVE  /\ Twin!Top \in Frames
         /\ Twin!Top.capability \notin Twin!Planned
         /\ Twin!ToSet(Doc[Twin!Top.capability].requires) \subseteq Twin!Planned
<1> DEFINE n == Len(walk.stack)
           top == walk.stack[n]
           requires == Doc[top.capability].requires
<1>1. Twin!Top = top /\ Twin!Requires = requires
  BY DEF Twin!Top, Twin!Requires, Doc
<1>2. n \in Nat \ {0} /\ DOMAIN walk.stack = 1..n /\ top \in Frames
  BY DEF WalkHolds, WalkIsTyped
<1>3. top.capability \in DOMAIN Doc /\ top.next \in Nat \ {0} /\ requires \in Seq(Nat)
  BY <1>2, ListsAreSequences DEF Frames, WalkHolds, WalkIsTyped
<1>4. top.capability \notin Twin!Planned
      /\ Follows(requires, top.next - 1, Twin!Planned, walk.stack, n + 1)
  BY <1>2 DEF WalkHolds, StackHolds
<1>5. \A i \in DOMAIN requires : i \in 1..top.next - 1
  <2> HIDE DEF top, requires
  <2> QED BY <1>1, <1>3
<1>6. \A i \in DOMAIN requires : requires[i] \in Twin!Planned
  BY <1>2, <1>4, <1>5 DEF Follows
<1> QED BY <1>1, <1>2, <1>4, <1>6 DEF Twin!ToSet

\* Its credentials are held, or have been produced.
LEMMA TakenIsReady ==
  ASSUME NEW c, NEW e, EntryIsTrue(inquiry, c, e),
         e.policy = "executable" \/ (e.policy = "credential-missing" /\ Twin!Remaining(e) = {})
  PROVE  Ready(inquiry, c, e.provider, Twin!Produced)
<1>1. e.missing \subseteq Twin!Produced /\ (e.policy = "executable" \/ e.kinds = {})
  <2>1. CASE e.policy = "executable"
    BY <2>1 DEF EntryIsTrue
  <2>2. CASE Twin!Remaining(e) = {}
    BY <2>2 DEF Twin!Remaining
  <2> QED BY <2>1, <2>2
<1>2. Ready(inquiry, c, e.provider, e.missing)
  BY <1>1 DEF EntryIsTrue
<1> QED BY <1>1, <1>2 DEF Ready

LEMMA TakeHolds ==
  ASSUME WalkHolds, Twin!Take, UNCHANGED inquiry
  PROVE  WalkHolds'
<1> DEFINE n == Len(walk.stack)
           c == Twin!Top.capability
           e == walk.entries[c]
           choice == [capability |-> c, provider |-> e.provider]
           m == Len(walk.plan)
           plan == Append(walk.plan, choice)
           rest == SubSeq(walk.stack, 1, n - 1)
<1>1. walk.pc = "walking" /\ walk.stack # <<>> /\ Twin!Top.next > Len(Twin!Requires)
  BY DEF Twin!Take
<1>2. /\ Twin!Top \in Frames /\ c \in DOMAIN Doc /\ c \notin Twin!Planned
      /\ Twin!ToSet(Doc[c].requires) \subseteq Twin!Planned
  BY <1>1, TopIsServed DEF Frames
<1>3. EntryIsTrue(inquiry, c, e) /\ choice \in Choices
  BY <1>2 DEF WalkHolds, WalkIsTyped, Choices
<1>4. /\ n \in Nat \ {0} /\ DOMAIN walk.stack = 1..n /\ walk.stack \in Seq(Frames)
      /\ walk.plan \in Seq(Choices) /\ m \in Nat /\ DOMAIN walk.plan = 1..m
      /\ walk.stack[n] = Twin!Top
  BY <1>1 DEF WalkHolds, WalkIsTyped, Twin!Top
<1>5. CASE \/ e.policy = "executable"
           \/ e.policy = "credential-missing" /\ Twin!Remaining(e) = {}
  <2>1. walk' = [walk EXCEPT !.plan = plan, !.stack = rest]
    BY <1>5 DEF Twin!Take
  <2>2. /\ rest \in Seq(Frames) /\ DOMAIN rest = 1..n - 1
        /\ \A f \in 1..n - 1 : rest[f] = walk.stack[f]
    BY <1>4
  <2>3. /\ plan \in Seq(Choices) /\ DOMAIN plan = 1..m + 1 /\ plan[m + 1] = choice
        /\ \A i \in 1..m : plan[i] = walk.plan[i]
    BY <1>3, <1>4
  <2> HIDE DEF rest, plan, n, m
  <2>4. /\ walk'.pc = "walking" /\ walk'.at = walk.at /\ walk'.stack = rest
        /\ walk'.plan = plan /\ walk'.entries = walk.entries
        /\ DOMAIN walk' = DOMAIN walk /\ walk' = [f \in DOMAIN walk' |-> walk'[f]]
    BY <1>1, <2>1 DEF WalkHolds, WalkIsTyped
  <2>5. Doc' = Doc /\ Choices' = Choices /\ Frames' = Frames /\ inquiry' = inquiry
    BY <2>4 DEF Doc, Choices, Frames
  <2>6. Twin!Planned' = Twin!Planned \cup {c}
    <3>1. Twin!Planned = {walk.plan[i].capability : i \in 1..m}
      BY <1>4 DEF Twin!Planned
    <3>2. Twin!Planned' = {plan[i].capability : i \in 1..m + 1}
      BY <2>3, <2>4 DEF Twin!Planned
    <3>3. \A i \in 1..m + 1 : i \in 1..m \/ i = m + 1
      BY <1>4
    <3>4. 1..m \subseteq 1..m + 1 /\ m + 1 \in 1..m + 1
      BY <1>4
    <3> QED BY <2>3, <3>1, <3>2, <3>3, <3>4
  <2>7. WalkIsTyped'
    <3>1. \A d \in DOMAIN Doc : EntryIsTrue(inquiry, d, walk.entries[d])'
      BY <2>4, <2>5 DEF WalkHolds, WalkIsTyped
    <3> QED BY <2>2, <2>3, <2>4, <2>5, <3>1 DEF WalkHolds, WalkIsTyped
  <2>8. StackHolds'
    <3>1. Follows(inquiry.wanted, walk.at - 1, Twin!Planned \cup {c}, rest, 1)
      BY <1>1, <1>4, <2>2 DEF WalkHolds, StackHolds, Follows
    <3>2. ASSUME NEW f \in 1..n - 1
          PROVE  Follows(Doc[rest[f].capability].requires, rest[f].next - 1,
                         Twin!Planned \cup {c}, rest, f + 1)
      <4>1. Follows(Doc[walk.stack[f].capability].requires, walk.stack[f].next - 1,
                    Twin!Planned, walk.stack, f + 1)
        BY <1>1, <1>4 DEF WalkHolds, StackHolds
      <4>2. rest[f] = walk.stack[f] /\ (f + 1 = n \/ f + 1 \in 1..n - 1)
        BY <1>4, <2>2
      <4> QED BY <1>4, <2>2, <4>1, <4>2 DEF Follows
    <3>3. ASSUME NEW f \in 1..n - 1
          PROVE  /\ rest[f].capability \notin Twin!Planned \cup {c}
                 /\ \A g \in 1..n - 1 : rest[f].capability = rest[g].capability => f = g
      <4>1. f \in 1..n /\ f # n /\ n \in 1..n /\ \A g \in 1..n - 1 : g \in 1..n
        BY <1>4
      <4> QED BY <1>1, <1>4, <2>2, <4>1 DEF WalkHolds, StackHolds
    <3> QED BY <2>2, <2>4, <2>5, <2>6, <3>1, <3>2, <3>3 DEF StackHolds
  <2>9. PlanHolds'
    <3>1. ASSUME NEW i \in 1..m PROVE ChoiceIsSound(inquiry, plan, i)
      <4>1. ChoiceIsSound(inquiry, walk.plan, i)
        BY <1>4 DEF WalkHolds, PlanHolds
      <4>2. i \in Nat /\ \A j \in 1..i - 1 : j \in 1..m
        BY <1>4
      <4>3. {plan[j].capability : j \in 1..i - 1} = {walk.plan[j].capability : j \in 1..i - 1}
        BY <2>3, <4>2
      <4>4. plan[i] = walk.plan[i]
        BY <2>3
      <4> QED BY <4>1, <4>3, <4>4 DEF ChoiceIsSound
    <3>2. ChoiceIsSound(inquiry, plan, m + 1)
      <4>1. {plan[j].capability : j \in 1..(m + 1) - 1} = Twin!Planned
        <5>1. (m + 1) - 1 = m
          BY <1>4
        <5> QED BY <1>4, <2>3, <5>1 DEF Twin!Planned, m
      <4>2. Twin!Produced = UNION {Doc[d].produces : d \in Twin!Planned}
        BY DEF Twin!Produced, Doc
      <4>3. Ready(inquiry, c, e.provider, UNION {Doc[d].produces : d \in Twin!Planned})
        BY <1>3, <1>5, <4>2, TakenIsReady
      <4>4. plan[m + 1].capability = c /\ plan[m + 1].provider = e.provider
        BY <2>3
      <4> HIDE DEF c, e
      <4> QED BY <1>2, <4>1, <4>3, <4>4 DEF ChoiceIsSound, Doc
    <3>3. \A i \in 1..m + 1 : i \in 1..m \/ i = m + 1
      BY <1>4 DEF m
    <3>4. \A i \in DOMAIN plan : ChoiceIsSound(inquiry, plan, i)
      BY <2>3, <3>1, <3>2, <3>3
    <3> QED BY <2>4, <2>5, <3>4 DEF PlanHolds
  <2> QED BY <2>4, <2>7, <2>8, <2>9 DEF WalkHolds, Twin!GapIsDeepest
<1>6. CASE ~(\/ e.policy = "executable"
             \/ e.policy = "credential-missing" /\ Twin!Remaining(e) = {})
  <2> DEFINE gap == [capability |-> c, kinds |-> Twin!Remaining(e)]
  <2>1. walk' = [walk EXCEPT !.pc = "gap", !.gap = gap]
    BY <1>6 DEF Twin!Take
  <2>2. gap.capability = c /\ gap.kinds # {}
    BY <1>3, <1>6 DEF EntryIsTrue, Twin!Remaining
  <2> HIDE DEF gap, c
  <2>3. /\ walk'.pc = "gap" /\ walk'.at = walk.at /\ walk'.stack = walk.stack
        /\ walk'.plan = walk.plan /\ walk'.entries = walk.entries /\ walk'.gap = gap
        /\ DOMAIN walk' = DOMAIN walk /\ walk' = [f \in DOMAIN walk' |-> walk'[f]]
    BY <1>1, <2>1 DEF WalkHolds, WalkIsTyped
  <2>4. /\ Doc' = Doc /\ Frames' = Frames /\ Choices' = Choices /\ PlanHolds'
        /\ Twin!Planned' = Twin!Planned
        /\ \A d \in DOMAIN Doc : EntryIsTrue(inquiry, d, walk.entries[d])'
    BY <2>3, PlanStays DEF WalkHolds
  <2>5. WalkIsTyped'
    BY <2>3, <2>4 DEF WalkHolds, WalkIsTyped
  <2>6. Twin!GapIsDeepest'
    BY <1>2, <2>2, <2>3, <2>4 DEF Twin!GapIsDeepest, Doc
  <2> QED BY <2>3, <2>4, <2>5, <2>6 DEF WalkHolds, StackHolds
<1> QED BY <1>5, <1>6
-----------------------------------------------------------------------------
\* A behaviour is of calls that load, or of one question.
TwinHolds ==
  \/ walk = Twin!NoWalk /\ LoaderHolds
  \/ walk.pc # "off" /\ WalkHolds /\ calls = [k \in Calls |-> Twin!NoCall] /\ receipts = {}

LEMMA TwinBegins == Twin!TwinInit => TwinHolds
<1> SUFFICES ASSUME Twin!TwinInit PROVE TwinHolds
  OBVIOUS
<1>1. calls = [k \in Calls |-> Twin!NoCall] /\ receipts = {}
  BY DEF Twin!TwinInit
<1>2. CASE inquiry = Nowhere /\ walk = Twin!NoWalk /\ heads \in [Origins -> Contents]
           /\ catalog \in Origins
  <2>1. calls \in [Calls -> CallParts] /\ \A k \in Calls : CallHolds(k)
    BY <1>1 DEF Twin!NoCall, CallParts, CallHolds, Loaded
  <2> QED BY <1>1, <1>2, <2>1 DEF Twin!TwinInit, TwinHolds, LoaderHolds
<1>3. CASE inquiry \in Inquiries /\ walk = Twin!Composed(inquiry)
  <2>1. /\ walk.pc = "weighing" /\ walk.at = 1 /\ walk.stack = <<>> /\ walk.plan = <<>>
        /\ DOMAIN walk = {"pc", "at", "stack", "plan", "gap", "entries"}
        /\ walk = [f \in DOMAIN walk |-> walk[f]]
        /\ walk.entries = [c \in DOMAIN Doc |->
             Twin!Entry(Doc[c], Twin!Presence(inquiry.observed, c), inquiry.observed,
                        inquiry.held)]
    BY <1>3 DEF Twin!Composed, Doc
  <2>2. \A c \in DOMAIN Doc : EntryIsTrue(inquiry, c, walk.entries[c])
    BY <2>1, EntryBegins
  <2>3. WalkIsTyped
    BY <1>3, <2>1, <2>2 DEF WalkIsTyped
  <2> QED BY <1>1, <2>1, <2>3 DEF TwinHolds, WalkHolds, StackHolds, PlanHolds, Twin!GapIsDeepest
<1> QED BY <1>2, <1>3 DEF Twin!TwinInit

LEMMA TwinNextHolds == TwinHolds /\ [Twin!TwinNext]_twinVars => TwinHolds'
<1> SUFFICES ASSUME TwinHolds, [Twin!TwinNext]_twinVars PROVE TwinHolds'
  OBVIOUS
<1>0. CASE UNCHANGED twinVars
  <2>1. LoaderHolds => LoaderHolds'
    BY <1>0 DEF twinVars, LoaderHolds, CallHolds, Loaded
  <2>2. Doc' = Doc /\ Twin!Planned' = Twin!Planned /\ Choices' = Choices /\ Frames' = Frames
    BY <1>0 DEF twinVars, Doc, Twin!Planned, Choices, Frames
  <2>3. WalkIsTyped => WalkIsTyped'
    BY <1>0, <2>2 DEF twinVars, WalkIsTyped
  <2>4. StackHolds => StackHolds'
    BY <1>0, <2>2 DEF twinVars, StackHolds
  <2>5. PlanHolds => PlanHolds'
    BY <1>0, <2>2 DEF twinVars, PlanHolds
  <2>6. Twin!GapIsDeepest => Twin!GapIsDeepest'
    BY <1>0, <2>2 DEF twinVars, Twin!GapIsDeepest
  <2> QED BY <1>0, <2>1, <2>3, <2>4, <2>5, <2>6 DEF twinVars, TwinHolds, WalkHolds
<1>1. CASE walk.pc = "off" /\ (Twin!Push \/ \E k \in Calls : Twin!Load(k))
           /\ UNCHANGED <<inquiry, walk>>
  <2>1. walk = Twin!NoWalk /\ LoaderHolds
    BY <1>1 DEF TwinHolds
  <2>2. CASE Twin!Push
    <3>1. heads' \in [Origins -> Contents] /\ catalog' \in Origins
      BY <2>1, <2>2 DEF Twin!Push, LoaderHolds
    <3> QED BY <1>1, <2>1, <2>2, <3>1 DEF Twin!Push, TwinHolds, LoaderHolds, CallHolds, Loaded
  <2>3. CASE \E k \in Calls : Twin!Load(k)
    BY <1>1, <2>1, <2>3, LoaderNextHolds DEF TwinHolds
  <2> QED BY <1>1, <2>2, <2>3
<1>2. CASE /\ Twin!Weigh \/ Twin!Want \/ Twin!Require \/ Twin!Take \/ Twin!Resolve
           /\ UNCHANGED <<Twin!loaderVars, inquiry>>
  <2>1. walk.pc # "off"
    BY <1>2 DEF Twin!Weigh, Twin!Want, Twin!Require, Twin!Take, Twin!Resolve
  <2>2. WalkHolds /\ calls = [k \in Calls |-> Twin!NoCall] /\ receipts = {}
    BY <2>1 DEF TwinHolds, Twin!NoWalk
  <2>3. WalkHolds'
    BY <1>2, <2>2, WeighHolds, WantHolds, RequireHolds, TakeHolds, ResolveHolds
  <2>4. walk'.pc # "off"
    BY <2>3 DEF WalkHolds, WalkIsTyped
  <2> QED BY <1>2, <2>2, <2>3, <2>4 DEF TwinHolds, Twin!loaderVars
<1> QED BY <1>0, <1>1, <1>2 DEF Twin!TwinNext

LEMMA TwinsHold == ToolsSpec => [](topic = "twin" => TwinHolds)
<1>1. ToolsInit => (topic = "twin" => TwinHolds)
  BY TwinBegins DEF ToolsInit
<1>2. (topic = "twin" => TwinHolds) /\ [ToolsNext]_toolVars => (topic = "twin" => TwinHolds)'
  <2> SUFFICES ASSUME topic = "twin" => TwinHolds, [ToolsNext]_toolVars, topic' = "twin"
               PROVE  TwinHolds'
    OBVIOUS
  <2>1. topic = "twin" /\ [Twin!TwinNext]_twinVars
    BY DEF ToolsNext, toolVars
  <2> QED BY <2>1, TwinNextHolds
<1> QED BY <1>1, <1>2, PTL DEF ToolsSpec

\* Whatever is pushed, listed or out of reach: a call answers with what was signed for its
\* repository, and the cache keeps what it was answered with (load_baseline).
THEOREM BaselinesStayReviewed == ToolsSpec => []BaselinesAreReviewed
<1>1. TwinHolds => Twin!ServedIsReviewed /\ Twin!LastKnownGoodIsKept
  <2> SUFFICES ASSUME TwinHolds PROVE Twin!ServedIsReviewed /\ Twin!LastKnownGoodIsKept
    OBVIOUS
  <2>1. CASE calls = [k \in Calls |-> Twin!NoCall] /\ receipts = {}
    BY <2>1 DEF Twin!NoCall, Twin!ServedIsReviewed, Twin!LastKnownGoodIsKept
  <2>2. CASE LoaderHolds
    <3>1. Twin!ServedIsReviewed
      BY <2>2 DEF LoaderHolds, CallHolds, Loaded, CallParts, Twin!ServedIsReviewed, Twin!Verified
    <3>2. Twin!LastKnownGoodIsKept
      BY <2>2 DEF LoaderHolds, CallHolds, Loaded, Twin!LastKnownGoodIsKept
    <3> QED BY <3>1, <3>2
  <2> QED BY <2>1, <2>2 DEF TwinHolds
<1>2. (topic = "twin" => TwinHolds) => BaselinesAreReviewed
  BY <1>1 DEF BaselinesAreReviewed
<1> QED BY <1>2, TwinsHold, PTL

\* What is planned can be done in its order, and what is not planned has a reason
\* (compose_map, resolve_intent).
THEOREM IntentsStayResolved == ToolsSpec => []IntentsAreResolved
<1>1. TwinHolds => Twin!PlanIsExecutable /\ Twin!GapIsDeepest
  <2> SUFFICES ASSUME TwinHolds PROVE Twin!PlanIsExecutable /\ Twin!GapIsDeepest
    OBVIOUS
  <2>1. CASE walk = Twin!NoWalk
    BY <2>1 DEF Twin!NoWalk, Twin!PlanIsExecutable, Twin!GapIsDeepest
  <2>2. CASE WalkHolds
    BY <2>2, Zenon DEF WalkHolds, PlanHolds, ChoiceIsSound, Ready, Doc, Twin!PlanIsExecutable
  <2> QED BY <2>1, <2>2 DEF TwinHolds
<1>2. (topic = "twin" => TwinHolds) => IntentsAreResolved
  BY <1>1 DEF IntentsAreResolved
<1> QED BY <1>2, TwinsHold, PTL

-----------------------------------------------------------------------------
(* BatchApplication, for any number of executions, evidence directories    *)
(* and repositories.                                                       *)
(*                                                                         *)
(* What an execution leaves behind is its files and its effects.  The      *)
(* invariant says, for each place an execution can be at, which of them    *)
(* there are; it is inductive because a file names the execution that      *)
(* wrote it, so that nobody else's step can change what one has.           *)

-----------------------------------------------------------------------------
(* Type correctness.                                                       *)

\* A write, or a failing one, keeps the type of the evidence.
LEMMA WriteTyped ==
  ASSUME TypeOK, NEW e \in Executions, NEW k \in Kinds, NEW i \in 0..N,
         FailedWrite(e, k, i)
  PROVE  evidence' \in [Outputs -> SUBSET Files]
<1>1. File(k, i, e) \in Files
  BY DEF File, Files
<1> QED BY <1>1 DEF FailedWrite, Write, TypeOK

\* A target stays with the execution that published it until its Guard has
\* completed it: nobody publishes over it, and the controller leaves it alone
\* while that execution is alive.  Types depend on it: only a target that is
\* there can be completed.
PublishedIsHeld ==
    \A e \in Executions : pc[e] = "published" =>
        target[ordinal[e]] \in [status : {"pending", "extracted"}, by : {e}]

\* The initial state has the declared types.
LEMMA TypeInit == Init => TypeOK /\ PublishedIsHeld
<1> SUFFICES ASSUME Init PROVE TypeOK /\ PublishedIsHeld
  OBVIOUS
<1>1. 1 \in Repositories
  BY BatchAssumption DEF Repositories
<1> QED BY <1>1 DEF Init, TypeOK, PublishedIsHeld, Preflight, Targets, Absent, Inspectors

\* Repositories are numbers from 1 to N, and 0 numbers the files of no one.
LEMMA Ordinals ==
  /\ Repositories \subseteq 0..N
  /\ 0 \in 0..N
  /\ 1 \in Repositories
  /\ \A i \in Repositories : i \in Nat /\ (i < N => i + 1 \in Repositories)
BY BatchAssumption DEF Repositories

\* Every step of an execution keeps the types.
LEMMA TypeExecution ==
  ASSUME TypeOK, PublishedIsHeld, NEW e \in Executions,
         \/ Verify(e) \/ Check(e) \/ Open(e) \/ Started(e) \/ Blocked(e)
         \/ Attempt(e) \/ Publish(e) \/ Finish(e) \/ Complete(e)
         \/ Readback(e) \/ Conclude(e) \/ Halt(e) \/ Report(e) \/ Kill(e)
  PROVE  TypeOK'
<1> USE DEF Goto
<1>0. ordinal[e] \in Repositories /\ ordinal[e] \in 0..N /\ 0 \in 0..N /\ 1 \in Repositories
  BY Ordinals DEF TypeOK
<1>1. CASE Verify(e)
  BY <1>1 DEF Verify, TypeOK, Preflight
<1>2. CASE Check(e)
  <2>1. ordinal' \in [Executions -> Repositories]
    BY <1>2, <1>0, Ordinals DEF Check, TypeOK
  <2> QED BY <1>2, <2>1 DEF Check, TypeOK, Preflight
<1>3. CASE Open(e)
  BY <1>3 DEF Open, TypeOK, Preflight
<1>4. CASE Started(e)
  <2>1. evidence' \in [Outputs -> SUBSET Files]
    BY <1>4, <1>0, WriteTyped DEF Started, FailedWrite, Kinds
  <2> QED BY <1>4, <2>1 DEF Started, TypeOK, Execution
<1>5. CASE Blocked(e)
  <2>1. evidence' \in [Outputs -> SUBSET Files]
    BY <1>5, <1>0, WriteTyped DEF Blocked, Kinds, TypeOK
  <2> QED BY <1>5, <2>1 DEF Blocked, TypeOK, Answers
<1>6. CASE Attempt(e)
  <2>1. evidence' \in [Outputs -> SUBSET Files]
    BY <1>6, <1>0, WriteTyped DEF Attempt, FailedWrite, Kinds
  <2> QED BY <1>6, <2>1 DEF Attempt, TypeOK, Execution
<1>7. CASE Publish(e)
  <2>1. [status |-> "pending", by |-> e] \in Targets
    BY DEF Targets
  <2> QED BY <1>7, <1>0, <2>1 DEF Publish, TypeOK, Execution
<1>8. CASE Finish(e)
  <2>1. [target[ordinal[e]] EXCEPT !.status = "extracted"] \in Targets
    BY <1>8 DEF Finish, PublishedIsHeld, Targets
  <2>2. target' \in [Repositories -> Targets]
    BY <1>8, <1>0, <2>1 DEF Finish, TypeOK
  <2> QED BY <1>8, <2>2 DEF Finish, TypeOK, Execution
<1>9. CASE Complete(e)
  <2>1. evidence' \in [Outputs -> SUBSET Files]
    BY <1>9, <1>0, WriteTyped DEF Complete, FailedWrite, Kinds
  <2>2. ordinal' \in [Executions -> Repositories]
    BY <1>9, <1>0, Ordinals DEF Complete, TypeOK
  <2> QED BY <1>9, <2>1, <2>2 DEF Complete, TypeOK, Execution
<1>10. CASE Readback(e)
  BY <1>10 DEF Readback, TypeOK, Execution
<1>11. CASE Conclude(e)
  <2>1. evidence' \in [Outputs -> SUBSET Files]
    BY <1>11, <1>0, WriteTyped DEF Conclude, FailedWrite, Kinds
  <2> QED BY <1>11, <2>1 DEF Conclude, TypeOK, Answers
<1>12. CASE Halt(e)
  <2>1. evidence' \in [Outputs -> SUBSET Files]
    BY <1>12, <1>0, WriteTyped DEF Halt, Raises, Kinds, TypeOK
  <2> QED BY <1>12, <2>1 DEF Halt, TypeOK, Execution
<1>13. CASE Report(e)
  <2>1. evidence' \in [Outputs -> SUBSET Files]
    BY <1>13, <1>0, WriteTyped DEF Report, FailedWrite, Kinds
  <2> QED BY <1>13, <2>1 DEF Report, TypeOK, Answers
<1>14. CASE Kill(e)
  BY <1>14 DEF Kill, TypeOK
<1> QED BY <1>1, <1>2, <1>3, <1>4, <1>5, <1>6, <1>7, <1>8, <1>9, <1>10, <1>11,
           <1>12, <1>13, <1>14

\* No step of one execution touches a target another one has published.
LEMMA HeldExecution ==
  ASSUME TypeOK, PublishedIsHeld, NEW e \in Executions,
         \/ Verify(e) \/ Check(e) \/ Open(e) \/ Started(e) \/ Blocked(e)
         \/ Attempt(e) \/ Publish(e) \/ Finish(e) \/ Complete(e)
         \/ Readback(e) \/ Conclude(e) \/ Halt(e) \/ Report(e) \/ Kill(e)
  PROVE  PublishedIsHeld'
<1> USE DEF Goto
<1>1. CASE Publish(e)
  <2>1. Absent \notin [status : {"pending", "extracted"}, by : Executions]
    BY BatchAssumption DEF Absent
  <2>2. ASSUME NEW d \in Executions, pc'[d] = "published", d # e
        PROVE  target'[ordinal'[d]] \in [status : {"pending", "extracted"}, by : {d}]
    <3>1. pc[d] = "published" /\ ordinal'[d] = ordinal[d]
      BY <1>1, <2>2 DEF Publish, TypeOK
    <3>2. target[ordinal[d]] \in [status : {"pending", "extracted"}, by : {d}]
      BY <3>1 DEF PublishedIsHeld
    <3>3. target[ordinal[d]] # Absent
      BY <3>2, <2>1
    <3>4. ordinal[d] # ordinal[e]
      BY <1>1, <3>3 DEF Publish
    <3> QED BY <1>1, <3>1, <3>2, <3>4 DEF Publish, TypeOK
  <2>3. target'[ordinal'[e]] \in [status : {"pending", "extracted"}, by : {e}]
    BY <1>1 DEF Publish, TypeOK
  <2> QED BY <2>2, <2>3 DEF PublishedIsHeld
<1>2. CASE Finish(e)
  <2>1. ASSUME NEW d \in Executions, pc'[d] = "published"
        PROVE  target'[ordinal'[d]] \in [status : {"pending", "extracted"}, by : {d}]
    <3>1. d # e /\ pc[d] = "published" /\ pc[e] = "published" /\ ordinal'[d] = ordinal[d]
      BY <1>2, <2>1 DEF Finish, TypeOK
    <3>2. /\ target[ordinal[d]] \in [status : {"pending", "extracted"}, by : {d}]
          /\ target[ordinal[e]] \in [status : {"pending", "extracted"}, by : {e}]
      BY <3>1 DEF PublishedIsHeld
    <3>3. target[ordinal[d]].by # target[ordinal[e]].by
      BY <3>1, <3>2
    <3>4. ordinal[d] # ordinal[e]
      BY <3>3
    <3> QED BY <1>2, <3>1, <3>2, <3>4 DEF Finish, TypeOK
  <2> QED BY <2>1 DEF PublishedIsHeld
<1>3. ASSUME ~Publish(e), ~Finish(e) PROVE PublishedIsHeld'
  <2>1. target' = target
    BY <1>3 DEF Verify, Check, Open, Started, Blocked, Attempt, Complete, Readback,
                Conclude, Halt, Report, Kill
  <2>2. \A d \in Executions : pc'[d] = "published" => pc[d] = "published" /\ ordinal'[d] = ordinal[d]
    BY <1>3 DEF Verify, Check, Open, Started, Blocked, Attempt, Complete, Readback,
                Conclude, Halt, Report, Kill, TypeOK
  <2> QED BY <2>1, <2>2 DEF PublishedIsHeld
<1> QED BY <1>1, <1>2, <1>3

\* Nor do the controller and the inspection.
LEMMA TypeOther ==
  ASSUME TypeOK, PublishedIsHeld,
         \/ \E r \in Repositories : Recover(r) \/ Observe(r)
         \/ Inspect \/ EndInspection
  PROVE  TypeOK' /\ PublishedIsHeld'
<1>1. ASSUME NEW r \in Repositories, Recover(r) PROVE TypeOK' /\ PublishedIsHeld'
  <2>1. target[r] \in [status : {"pending", "extracted"}, by : Executions]
    BY <1>1 DEF Recover, TypeOK, Targets
  <2>2. /\ [target[r] EXCEPT !.status = "extracted"] \in Targets
        /\ Absent \in Targets
    BY <2>1 DEF Targets
  <2>3. target' \in [Repositories -> Targets]
    BY <1>1, <2>2 DEF Recover, TypeOK
  <2>4. ASSUME NEW e \in Executions, pc[e] = "published"
        PROVE  target'[ordinal[e]] \in [status : {"pending", "extracted"}, by : {e}]
    <3>1. target[ordinal[e]] \in [status : {"pending", "extracted"}, by : {e}]
      BY <2>4 DEF PublishedIsHeld
    <3>2. r # ordinal[e]
      BY <1>1, <2>4, <3>1 DEF Recover, Execution
    <3>3. target'[ordinal[e]] = target[ordinal[e]]
      BY <1>1, <3>2 DEF Recover, TypeOK
    <3> QED BY <3>1, <3>3
  <2> QED BY <1>1, <2>3, <2>4 DEF Recover, TypeOK, PublishedIsHeld
<1>2. ASSUME NEW r \in Repositories, Observe(r) PROVE TypeOK' /\ PublishedIsHeld'
  <2>1. inspector \in [pc : {"observing", "observed", "requires_reconciliation"},
                       before : [Repositories -> Executions \cup {None}],
                       seen : [Repositories -> Statuses \cup {None}]]
    BY <1>2 DEF Observe, TypeOK, Inspectors
  <2>2. target[r] = Absent \/ target[r].status \in Statuses
    BY DEF TypeOK, Targets, Statuses
  <2>3. PICK s \in Statuses : inspector' = [inspector EXCEPT !.seen[r] = s]
    BY <1>2, <2>2, Z3 DEF Observe, Statuses
  <2>4. inspector' \in Inspectors
    BY <2>1, <2>3 DEF Inspectors
  <2> QED BY <1>2, <2>4 DEF Observe, batch, TypeOK, PublishedIsHeld
<1>3. CASE Inspect
  <2>1. Inventory \in [Repositories -> Executions \cup {None}]
    BY DEF Inventory, TypeOK, Targets, Absent
  <2>2. inspector' \in Inspectors
    BY <1>3, <2>1 DEF Inspect, Inspectors
  <2> QED BY <1>3, <2>2 DEF Inspect, batch, TypeOK, PublishedIsHeld
<1>4. CASE EndInspection
  <2>1. inspector \in [pc : {"observing", "observed", "requires_reconciliation"},
                       before : [Repositories -> Executions \cup {None}],
                       seen : [Repositories -> Statuses \cup {None}]]
    BY <1>4 DEF EndInspection, TypeOK, Inspectors
  <2>2. PICK s \in {"observed", "requires_reconciliation"} :
           inspector' = [inspector EXCEPT !.pc = s]
    BY <1>4 DEF EndInspection
  <2>3. inspector' \in Inspectors
    BY <2>1, <2>2 DEF Inspectors
  <2> QED BY <1>4, <2>3 DEF EndInspection, batch, TypeOK, PublishedIsHeld
<1> QED BY <1>1, <1>2, <1>3, <1>4

\* Every step keeps types and published targets.
LEMMA TypeNext == TypeOK /\ PublishedIsHeld /\ [Next]_vars => TypeOK' /\ PublishedIsHeld'
<1> SUFFICES ASSUME TypeOK, PublishedIsHeld, [Next]_vars
             PROVE  TypeOK' /\ PublishedIsHeld'
  OBVIOUS
<1>1. CASE UNCHANGED vars
  BY <1>1 DEF vars, batch, TypeOK, PublishedIsHeld
<1>2. CASE Next
  BY <1>2, TypeExecution, HeldExecution, TypeOther DEF Next
<1> QED BY <1>1, <1>2

\* The types of all variables: a target that is completed, by the Guard of the
\* execution or by the controller, is always one that is there.
THEOREM TypeCorrect == Spec => []TypeOK
<1>1. Spec => [](TypeOK /\ PublishedIsHeld)
  BY TypeInit, TypeNext, PTL DEF Spec
<1> QED BY <1>1, PTL

-----------------------------------------------------------------------------
(* Evidence directories have one owner.                                    *)

\* From its mkdir on, an execution owns the directory it writes to.
Opened == {"opened", "done", "halted", "unknown"} \cup Execution
Owns == \A e \in Executions : pc[e] \in Opened => owner[out[e]] = e

\* A write of the owner leaves a file of the owner.
LEMMA WriteOwned ==
  ASSUME TypeOK, EvidenceIsOwned, NEW e \in Executions, owner[out[e]] = e,
         NEW k, NEW i, FailedWrite(e, k, i), owner' = owner
  PROVE  EvidenceIsOwned'
BY DEF FailedWrite, Write, File, EvidenceIsOwned, TypeOK

\* Every step of an execution keeps the ownership of all directories.
LEMMA OwnedExecution ==
  ASSUME TypeOK, Owns, EvidenceIsOwned, NEW e \in Executions,
         \/ Verify(e) \/ Check(e) \/ Open(e) \/ Started(e) \/ Blocked(e)
         \/ Attempt(e) \/ Publish(e) \/ Finish(e) \/ Complete(e)
         \/ Readback(e) \/ Conclude(e) \/ Halt(e) \/ Report(e) \/ Kill(e)
  PROVE  Owns' /\ EvidenceIsOwned'
<1> USE DEF Goto
<1>1. CASE Open(e)
  <2>1. evidence[out[e]] = {}
    BY <1>1, BatchAssumption DEF Open, EvidenceIsOwned, TypeOK, Files
  <2>2. EvidenceIsOwned'
    BY <1>1, <2>1 DEF Open, EvidenceIsOwned, TypeOK
  <2>3. ASSUME NEW d \in Executions, pc'[d] \in Opened PROVE owner'[out'[d]] = d
    <3>1. CASE d = e
      BY <1>1, <3>1 DEF Open, TypeOK
    <3>2. CASE d # e
      <4>1. owner[out[d]] = d
        BY <1>1, <2>3, <3>2 DEF Open, Owns, TypeOK
      <4>2. out[d] # out[e]
        BY <1>1, <4>1, BatchAssumption DEF Open
      <4> QED BY <1>1, <4>1, <4>2 DEF Open, TypeOK
    <3> QED BY <3>1, <3>2
  <2> QED BY <2>2, <2>3 DEF Owns
<1>2. ASSUME ~Open(e) PROVE Owns'
  <2>1. owner' = owner /\ out' = out
    BY <1>2 DEF Verify, Check, Started, Blocked, Attempt, Publish, Finish, Complete,
                Readback, Conclude, Halt, Report, Kill
  <2>2. ASSUME NEW d \in Executions, pc'[d] \in Opened PROVE pc[d] \in Opened
    BY <1>2, <2>2 DEF Verify, Check, Started, Blocked, Attempt, Publish, Finish, Complete,
                Readback, Conclude, Halt, Report, Kill, TypeOK, Opened, Execution
  <2> QED BY <2>1, <2>2 DEF Owns
<1>3. ASSUME Started(e) PROVE EvidenceIsOwned'
  BY <1>3, WriteOwned DEF Started, FailedWrite, Owns, Opened
<1>4. ASSUME Blocked(e) PROVE EvidenceIsOwned'
  <2>1. CASE pc[e] = "opened"
    BY <1>4, <2>1, WriteOwned DEF Blocked, Owns, Opened
  <2>2. CASE pc[e] # "opened"
    BY <1>4, <2>2 DEF Blocked, EvidenceIsOwned
  <2> QED BY <2>1, <2>2
<1>5. ASSUME Attempt(e) PROVE EvidenceIsOwned'
  BY <1>5, WriteOwned DEF Attempt, FailedWrite, Owns, Opened, Execution
<1>6. ASSUME Complete(e) PROVE EvidenceIsOwned'
  <2>1. owner[out[e]] = e
    BY <1>6 DEF Complete, Owns, Opened, Execution
  <2> QED BY <1>6, <2>1, WriteOwned DEF Complete, FailedWrite
<1>7. ASSUME Conclude(e) PROVE EvidenceIsOwned'
  BY <1>7, WriteOwned DEF Conclude, FailedWrite, Owns, Opened, Execution
<1>8. ASSUME Halt(e) PROVE EvidenceIsOwned'
  <2>1. owner[out[e]] = e
    BY <1>8 DEF Halt, Owns, Opened
  <2>2. CASE pc[e] = "attempting"
    BY <1>8, <2>1, <2>2, WriteOwned DEF Halt, Raises
  <2>3. CASE pc[e] = "extracted"
    BY <1>8, <2>1, <2>3, WriteOwned DEF Halt, Raises
  <2>4. CASE pc[e] = "concluding"
    BY <1>8, <2>1, <2>4, WriteOwned DEF Halt, Raises
  <2>5. CASE pc[e] \notin {"attempting", "extracted", "concluding"}
    BY <1>8, <2>5 DEF Halt, Raises, EvidenceIsOwned
  <2> QED BY <2>2, <2>3, <2>4, <2>5
<1>9. ASSUME Report(e) PROVE EvidenceIsOwned'
  <2>1. owner[out[e]] = e
    BY <1>9 DEF Report, Owns, Opened, Execution
  <2> QED BY <1>9, <2>1, WriteOwned DEF Report, FailedWrite
<1>10. ASSUME Verify(e) \/ Check(e) \/ Publish(e) \/ Finish(e) \/ Readback(e) \/ Kill(e) PROVE EvidenceIsOwned'
  BY <1>10 DEF Verify, Check, Publish, Finish, Readback, Kill, EvidenceIsOwned
<1> QED BY <1>1, <1>2, <1>3, <1>4, <1>5, <1>6, <1>7, <1>8, <1>9, <1>10

\* So does every step.
LEMMA OwnedNext ==
  TypeOK /\ Owns /\ EvidenceIsOwned /\ [Next]_vars => Owns' /\ EvidenceIsOwned'
<1> SUFFICES ASSUME TypeOK, Owns, EvidenceIsOwned, [Next]_vars
             PROVE  Owns' /\ EvidenceIsOwned'
  OBVIOUS
<1>1. ASSUME \/ \E r \in Repositories : Recover(r) \/ Observe(r)
             \/ Inspect \/ EndInspection \/ UNCHANGED vars
      PROVE  Owns' /\ EvidenceIsOwned'
  BY <1>1 DEF Recover, Observe, Inspect, EndInspection, batch, vars, Owns, EvidenceIsOwned
<1> QED BY <1>1, OwnedExecution DEF Next

\* Two executions given one evidence directory never write to it both.
THEOREM EvidenceHasOneOwner == Spec => []EvidenceIsOwned
<1>1. Init => Owns /\ EvidenceIsOwned
  BY DEF Init, Owns, Opened, Execution, EvidenceIsOwned
<1>2. Spec => [](TypeOK /\ PublishedIsHeld /\ Owns /\ EvidenceIsOwned)
  BY TypeInit, TypeNext, <1>1, OwnedNext, PTL DEF Spec
<1> QED BY <1>2, PTL

-----------------------------------------------------------------------------
(* What an execution has done, and what its files say of it.               *)

Unbegun == Preflight \cup {"blocked"}

\* Nothing is done or written before the attempts, and the loop begins at the
\* first repository.
NothingYet(e) ==
    /\ pc[e] \in Unbegun =>
          /\ \A r \in Repositories : <<e, r>> \notin effects /\ ~Has(e, "attempt", r)
                                                            /\ ~Has(e, "completed", r)
          /\ ~Has(e, "batch", 0)
    /\ pc[e] \in {"opening", "opened"} => ordinal[e] = 1

\* The loop has completed all repositories before the one it is at, and marks
\* that one before it touches it.
LoopAt(e) ==
    /\ pc[e] \in {"attempting", "applying", "published", "extracted"} =>
          \A q \in Repositories : q < ordinal[e] => Has(e, "completed", q)
    /\ pc[e] \in {"applying", "published", "extracted"} => Has(e, "attempt", ordinal[e])
    /\ pc[e] \in {"published", "extracted"} => <<e, ordinal[e]>> \in effects
    /\ pc[e] \in {"readback", "concluding"} =>
          \A r \in Repositories : Has(e, "completed", r)

\* What the files and the effects say of each other, wherever the execution is.
FilesAgree(e) ==
    /\ \A r \in Repositories :
          /\ <<e, r>> \in effects => Has(e, "attempt", r)
          /\ Has(e, "completed", r) => <<e, r>> \in effects
          /\ Has(e, "batch", 0) => Has(e, "completed", r)
    /\ \A q, r \in Repositories : q < r /\ Has(e, "attempt", r) => Has(e, "completed", q)

Progress(e) == NothingYet(e) /\ LoopAt(e) /\ FilesAgree(e)

\* The files of another execution are not its own: a write adds one file to
\* those of its execution, and none to those of another.
LEMMA WriteHas ==
  ASSUME TypeOK, NEW e \in Executions, NEW k, NEW i, Write(e, k, i), out' = out
  PROVE  \A d \in Executions : \A m, j :
            Has(d, m, j)' <=> (Has(d, m, j) \/ (d = e /\ m = k /\ j = i))
BY DEF Write, Has, File, TypeOK

\* A step that leaves the evidence alone leaves everybody's files.
LEMMA QuietHas ==
  ASSUME UNCHANGED <<evidence, out>>
  PROVE  \A d \in Executions : \A m, j : Has(d, m, j)' <=> Has(d, m, j)
BY DEF Has, File

\* What is said of one execution depends on its place, files and effects only.
LEMMA ProgressKept ==
  ASSUME NEW d \in Executions, Progress(d),
         pc'[d] = pc[d], ordinal'[d] = ordinal[d],
         \A m, j : Has(d, m, j)' <=> Has(d, m, j),
         \A r \in Repositories : <<d, r>> \in effects' <=> <<d, r>> \in effects,
         ordinal[d] \in Repositories
  PROVE  Progress(d)'
BY DEF Progress, NothingYet, LoopAt, FilesAgree

\* No step of one execution changes what is said of another.
LEMMA ProgressOfOthers ==
  ASSUME TypeOK, NEW e \in Executions, NEW d \in Executions, d # e, Progress(d),
         \/ Verify(e) \/ Check(e) \/ Open(e) \/ Started(e) \/ Blocked(e)
         \/ Attempt(e) \/ Publish(e) \/ Finish(e) \/ Complete(e)
         \/ Readback(e) \/ Conclude(e) \/ Halt(e) \/ Report(e) \/ Kill(e)
  PROVE  Progress(d)'
<1> USE DEF Goto
<1>1. pc'[d] = pc[d] /\ ordinal'[d] = ordinal[d]
  BY DEF Verify, Check, Open, Started, Blocked, Attempt, Publish, Finish, Complete, Readback,
         Conclude, Halt, Report, Kill, TypeOK
<1>2. \A r \in Repositories : <<d, r>> \in effects' <=> <<d, r>> \in effects
  BY DEF Verify, Check, Open, Started, Blocked, Attempt, Publish, Finish, Complete, Readback,
         Conclude, Halt, Report, Kill
<1>3. out' = out
  BY DEF Verify, Check, Open, Started, Blocked, Attempt, Publish, Finish, Complete, Readback,
         Conclude, Halt, Report, Kill
<1>4. UNCHANGED evidence \/ \E k, i : Write(e, k, i)
  BY DEF Verify, Check, Open, Started, Blocked, Attempt, Publish, Finish, Complete, Readback,
         Conclude, Halt, Report, Kill, Raises, FailedWrite
<1>5. \A m, j : Has(d, m, j)' <=> Has(d, m, j)
  BY <1>3, <1>4, WriteHas, QuietHas
<1>6. ordinal[d] \in Repositories
  BY DEF TypeOK
<1> QED BY <1>1, <1>2, <1>5, <1>6, ProgressKept

\* The first half of an execution, up to the marker of an attempt.
LEMMA ProgressOfPreflight ==
  ASSUME TypeOK, NEW e \in Executions, Progress(e),
         Verify(e) \/ Check(e) \/ Open(e) \/ Started(e) \/ Blocked(e) \/ Attempt(e)
  PROVE  Progress(e)'
<1> USE DEF Goto
<1>0. ordinal[e] \in Repositories /\ Repositories \subseteq Nat /\ 1 \in Repositories
  BY Ordinals DEF TypeOK
<1>1. CASE Verify(e) \/ Check(e) \/ Open(e)
  <2>1. \A m, j : Has(e, m, j)' <=> Has(e, m, j)
    BY <1>1, QuietHas DEF Verify, Check, Open
  <2>2. /\ effects' = effects
        /\ pc[e] \in Preflight /\ pc'[e] \in Preflight
    BY <1>1 DEF Verify, Check, Open, TypeOK, Preflight
  <2>3. pc'[e] \in {"opening", "opened"} => ordinal'[e] = 1
    BY <1>1 DEF Verify, Check, Open, TypeOK, Progress, NothingYet
  <2>4. NothingYet(e)'
    BY <2>1, <2>2, <2>3 DEF Progress, NothingYet, Unbegun
  <2>5. LoopAt(e)'
    BY <2>2 DEF LoopAt, Preflight
  <2>6. FilesAgree(e)'
    BY <2>1, <2>2 DEF Progress, FilesAgree
  <2> QED BY <2>4, <2>5, <2>6 DEF Progress
<1>2. CASE Started(e)
  <2>1. \A m, j : Has(e, m, j)' <=> (Has(e, m, j) \/ (m = "started" /\ j = 0))
    BY <1>2, WriteHas DEF Started
  <2>2. /\ effects' = effects
        /\ pc[e] = "opened" /\ pc'[e] = "attempting" /\ ordinal'[e] = 1
    BY <1>2 DEF Started, TypeOK, Progress, NothingYet
  <2>3. NothingYet(e)' /\ LoopAt(e)'
    <3>1. \A q \in Repositories : ~(q < 1)
      BY BatchAssumption DEF Repositories
    <3> QED BY <2>2, <3>1 DEF NothingYet, LoopAt, Unbegun, Preflight
  <2>4. FilesAgree(e)'
    BY <2>1, <2>2 DEF Progress, FilesAgree
  <2> QED BY <2>3, <2>4 DEF Progress
<1>3. CASE Blocked(e)
  <2>1. \A m, j : m # "started" => (Has(e, m, j)' <=> Has(e, m, j))
    BY <1>3, WriteHas, QuietHas DEF Blocked, FailedWrite
  <2>2. /\ effects' = effects
        /\ pc[e] \in Preflight /\ pc'[e] = "blocked"
    BY <1>3 DEF Blocked, TypeOK
  <2>3. NothingYet(e)'
    BY <2>1, <2>2 DEF Progress, NothingYet, Unbegun
  <2>4. LoopAt(e)'
    BY <2>2 DEF LoopAt
  <2>5. FilesAgree(e)'
    BY <2>1, <2>2 DEF Progress, FilesAgree
  <2> QED BY <2>3, <2>4, <2>5 DEF Progress
<1>4. CASE Attempt(e)
  <2>1. \A m, j : Has(e, m, j)' <=> (Has(e, m, j) \/ (m = "attempt" /\ j = ordinal[e]))
    BY <1>4, WriteHas DEF Attempt
  <2>2. /\ effects' = effects /\ ordinal' = ordinal
        /\ pc[e] = "attempting" /\ pc'[e] = "applying"
    BY <1>4 DEF Attempt, TypeOK
  <2>3. \A q \in Repositories : q < ordinal[e] => Has(e, "completed", q)
    BY <2>2 DEF Progress, LoopAt
  <2>4. NothingYet(e)'
    BY <2>2 DEF NothingYet, Unbegun, Preflight
  <2>5. LoopAt(e)'
    BY <2>1, <2>2, <2>3 DEF LoopAt
  <2>6. FilesAgree(e)'
    BY <2>1, <2>2, <2>3 DEF Progress, FilesAgree
  <2> QED BY <2>4, <2>5, <2>6 DEF Progress
<1> QED BY <1>1, <1>2, <1>3, <1>4

\* The effect and its completion.
LEMMA ProgressOfEffect ==
  ASSUME TypeOK, NEW e \in Executions, Progress(e), Publish(e) \/ Finish(e) \/ Complete(e)
  PROVE  Progress(e)'
<1> USE DEF Goto
<1>0. ordinal[e] \in Repositories /\ Repositories \subseteq Nat
  BY Ordinals DEF TypeOK
<1>1. CASE Publish(e)
  <2>1. \A m, j : Has(e, m, j)' <=> Has(e, m, j)
    BY <1>1, QuietHas DEF Publish
  <2>2. /\ effects' = effects \cup {<<e, ordinal[e]>>} /\ ordinal' = ordinal
        /\ pc[e] = "applying" /\ pc'[e] = "published"
    BY <1>1 DEF Publish, TypeOK
  <2>3. NothingYet(e)'
    BY <2>2 DEF NothingYet, Unbegun, Preflight
  <2>4. Has(e, "attempt", ordinal[e])
    BY <2>2 DEF Progress, LoopAt
  <2>5. LoopAt(e)'
    BY <2>1, <2>2 DEF Progress, LoopAt
  <2>6. FilesAgree(e)'
    BY <2>1, <2>2, <2>4 DEF Progress, FilesAgree
  <2> QED BY <2>3, <2>5, <2>6 DEF Progress
<1>2. CASE Finish(e)
  <2>1. \A m, j : Has(e, m, j)' <=> Has(e, m, j)
    BY <1>2, QuietHas DEF Finish
  <2>2. /\ effects' = effects /\ ordinal' = ordinal
        /\ pc[e] = "published" /\ pc'[e] = "extracted"
    BY <1>2 DEF Finish, TypeOK
  <2>3. NothingYet(e)'
    BY <2>2 DEF NothingYet, Unbegun, Preflight
  <2>4. LoopAt(e)' /\ FilesAgree(e)'
    BY <2>1, <2>2 DEF Progress, LoopAt, FilesAgree
  <2> QED BY <2>3, <2>4 DEF Progress
<1>3. CASE Complete(e)
  <2>1. \A m, j : Has(e, m, j)' <=> (Has(e, m, j) \/ (m = "completed" /\ j = ordinal[e]))
    BY <1>3, WriteHas DEF Complete
  <2>2. /\ effects' = effects /\ pc[e] = "extracted"
        /\ \/ pc'[e] = "attempting" /\ ordinal'[e] = ordinal[e] + 1
           \/ pc'[e] = "readback" /\ ordinal[e] = N
    BY <1>3, <1>0, BatchAssumption DEF Complete, TypeOK, Repositories
  <2>3. NothingYet(e)'
    BY <2>2 DEF NothingYet, Unbegun, Preflight
  <2>4. \A q \in Repositories : q <= ordinal[e] => Has(e, "completed", q)'
    <3> SUFFICES ASSUME NEW q \in Repositories, q <= ordinal[e] PROVE Has(e, "completed", q)'
      OBVIOUS
    <3>1. CASE q = ordinal[e]
      BY <2>1, <3>1
    <3>2. CASE q # ordinal[e]
      <4>1. q \in Nat /\ ordinal[e] \in Nat
        BY <1>0
      <4>2. q < ordinal[e]
        BY <3>2, <4>1
      <4> QED BY <2>1, <2>2, <4>2 DEF Progress, LoopAt
    <3> QED BY <3>1, <3>2
  <2>5. LoopAt(e)'
    BY <1>0, <2>2, <2>4, BatchAssumption DEF LoopAt, Repositories
  <2>6. FilesAgree(e)'
    BY <2>1, <2>2 DEF Progress, LoopAt, FilesAgree
  <2> QED BY <2>3, <2>5, <2>6 DEF Progress
<1> QED BY <1>1, <1>2, <1>3

\* The end of an execution, in success, failure or a kill.
LEMMA ProgressOfEnd ==
  ASSUME TypeOK, NEW e \in Executions, Progress(e),
         Readback(e) \/ Conclude(e) \/ Halt(e) \/ Report(e) \/ Kill(e)
  PROVE  Progress(e)'
<1> USE DEF Goto
<1>0. ordinal[e] \in Repositories /\ Repositories \subseteq Nat /\ effects' = effects
      /\ ordinal' = ordinal
  BY Ordinals DEF TypeOK, Readback, Conclude, Halt, Report, Kill
<1>1. CASE Readback(e)
  <2>1. \A m, j : Has(e, m, j)' <=> Has(e, m, j)
    BY <1>1, QuietHas DEF Readback
  <2>2. pc[e] = "readback" /\ pc'[e] = "concluding"
    BY <1>1 DEF Readback, TypeOK
  <2> QED BY <1>0, <2>1, <2>2
          DEF Progress, NothingYet, LoopAt, FilesAgree, Unbegun, Preflight
<1>2. CASE Conclude(e)
  <2>1. \A m, j : Has(e, m, j)' <=> (Has(e, m, j) \/ (m = "batch" /\ j = 0))
    BY <1>2, WriteHas DEF Conclude
  <2>2. pc[e] = "concluding" /\ pc'[e] = "done"
    BY <1>2 DEF Conclude, TypeOK
  <2> QED BY <1>0, <2>1, <2>2
          DEF Progress, NothingYet, LoopAt, FilesAgree, Unbegun, Preflight
<1>3. CASE Halt(e)
  <2>1. pc[e] \in Execution \ {"halting"} /\ pc'[e] = "halting"
    BY <1>3 DEF Halt, TypeOK
  <2>2. NothingYet(e)' /\ LoopAt(e)'
    BY <2>1 DEF NothingYet, LoopAt, Unbegun, Preflight
  <2>3. CASE UNCHANGED evidence
    <3>1. \A m, j : Has(e, m, j)' <=> Has(e, m, j)
      BY <1>3, <2>3, QuietHas DEF Halt
    <3> QED BY <1>0, <2>2, <3>1 DEF Progress, FilesAgree
  <2>4. CASE pc[e] = "attempting" /\ Write(e, "attempt", ordinal[e])
    <3>1. \A m, j : Has(e, m, j)' <=> (Has(e, m, j) \/ (m = "attempt" /\ j = ordinal[e]))
      BY <1>3, <2>4, WriteHas DEF Halt
    <3>2. \A q \in Repositories : q < ordinal[e] => Has(e, "completed", q)
      BY <2>4 DEF Progress, LoopAt
    <3>3. FilesAgree(e)'
      BY <1>0, <3>1, <3>2 DEF Progress, FilesAgree
    <3> QED BY <2>2, <3>3 DEF Progress
  <2>5. CASE pc[e] = "extracted" /\ Write(e, "completed", ordinal[e])
    <3>1. \A m, j : Has(e, m, j)' <=> (Has(e, m, j) \/ (m = "completed" /\ j = ordinal[e]))
      BY <1>3, <2>5, WriteHas DEF Halt
    <3>2. <<e, ordinal[e]>> \in effects
      BY <2>5 DEF Progress, LoopAt
    <3>3. FilesAgree(e)'
      BY <1>0, <3>1, <3>2 DEF Progress, FilesAgree
    <3> QED BY <2>2, <3>3 DEF Progress
  <2>6. CASE pc[e] = "concluding" /\ Write(e, "batch", 0)
    <3>1. \A m, j : Has(e, m, j)' <=> (Has(e, m, j) \/ (m = "batch" /\ j = 0))
      BY <1>3, <2>6, WriteHas DEF Halt
    <3>2. \A r \in Repositories : Has(e, "completed", r)
      BY <2>6 DEF Progress, LoopAt
    <3>3. FilesAgree(e)'
      BY <1>0, <3>1, <3>2 DEF Progress, FilesAgree
    <3> QED BY <2>2, <3>3 DEF Progress
  <2> QED BY <1>3, <2>3, <2>4, <2>5, <2>6 DEF Halt, Raises, FailedWrite
<1>4. CASE Report(e)
  <2>1. \A m, j : m # "halted" => (Has(e, m, j)' <=> Has(e, m, j))
    BY <1>4, WriteHas, QuietHas DEF Report, FailedWrite
  <2>2. pc'[e] \in {"halted", "unknown"}
    BY <1>4 DEF Report, TypeOK
  <2> QED BY <1>0, <2>1, <2>2
          DEF Progress, NothingYet, LoopAt, FilesAgree, Unbegun, Preflight
<1>5. CASE Kill(e)
  <2>1. \A m, j : Has(e, m, j)' <=> Has(e, m, j)
    BY <1>5, QuietHas DEF Kill
  <2>2. pc'[e] = "killed"
    BY <1>5 DEF Kill, TypeOK
  <2> QED BY <1>0, <2>1, <2>2
          DEF Progress, NothingYet, LoopAt, FilesAgree, Unbegun, Preflight
<1> QED BY <1>1, <1>2, <1>3, <1>4, <1>5

\* Every step keeps what is said of every execution.
LEMMA ProgressNext ==
  ASSUME TypeOK, \A d \in Executions : Progress(d), [Next]_vars
  PROVE  \A d \in Executions : Progress(d)'
<1>1. ASSUME \/ \E r \in Repositories : Recover(r) \/ Observe(r)
             \/ Inspect \/ EndInspection \/ UNCHANGED vars,
             NEW d \in Executions
      PROVE  Progress(d)'
  <2>1. UNCHANGED <<evidence, out, pc, ordinal, effects>>
    BY <1>1 DEF Recover, Observe, Inspect, EndInspection, batch, vars
  <2>2. \A m, j : Has(d, m, j)' <=> Has(d, m, j)
    BY <2>1, QuietHas
  <2>3. ordinal[d] \in Repositories
    BY DEF TypeOK
  <2> QED BY <2>1, <2>2, <2>3, ProgressKept
<1>2. ASSUME NEW e \in Executions,
             \/ Verify(e) \/ Check(e) \/ Open(e) \/ Started(e) \/ Blocked(e)
             \/ Attempt(e) \/ Publish(e) \/ Finish(e) \/ Complete(e)
             \/ Readback(e) \/ Conclude(e) \/ Halt(e) \/ Report(e) \/ Kill(e),
             NEW d \in Executions
      PROVE  Progress(d)'
  <2>1. CASE d = e
    BY <1>2, <2>1, ProgressOfPreflight, ProgressOfEffect, ProgressOfEnd
  <2>2. CASE d # e
    BY <1>2, <2>2, ProgressOfOthers
  <2> QED BY <2>1, <2>2
<1> QED BY <1>1, <1>2 DEF Next

\* All of it, always.
LEMMA ProgressAlways == Spec => []\A d \in Executions : Progress(d)
<1>1. Init => \A d \in Executions : Progress(d)
  <2> SUFFICES ASSUME Init, NEW d \in Executions PROVE Progress(d)
    OBVIOUS
  <2>1. pc[d] = "start" /\ effects = {} /\ evidence[out[d]] = {}
    BY DEF Init
  <2>2. \A m, j : ~Has(d, m, j)
    BY <2>1 DEF Has
  <2> QED BY <2>1, <2>2 DEF Progress, NothingYet, LoopAt, FilesAgree
<1>2. TypeOK /\ (\A d \in Executions : Progress(d)) /\ [Next]_vars
         => (\A d \in Executions : Progress(d))'
  BY ProgressNext
<1>3. Spec => [](TypeOK /\ PublishedIsHeld /\ \A d \in Executions : Progress(d))
  BY TypeInit, TypeNext, <1>1, <1>2, PTL DEF Spec
<1> QED BY <1>3, PTL

\* The first failure stops the batch, however executions and kills interleave.
THEOREM BatchStopsAtFailure == Spec => []FirstFailureStops
<1>1. (\A d \in Executions : Progress(d)) => FirstFailureStops
  BY DEF Progress, FilesAgree, FirstFailureStops
<1> QED BY <1>1, ProgressAlways, PTL

\* Evidence names every effect, and leaves at most the last attempt in doubt.
THEOREM EvidenceNamesEffects == Spec => []EffectsAreEvidenced
<1>1. (\A d \in Executions : Progress(d)) => EffectsAreEvidenced
  BY Ordinals DEF Progress, FilesAgree, EffectsAreEvidenced
<1> QED BY <1>1, ProgressAlways, PTL

\* A completion receipt is about an own extraction.
THEOREM CompletionIsOwn == Spec => []CompletedMeansExtracted
<1>1. (\A d \in Executions : Progress(d)) => CompletedMeansExtracted
  BY DEF Progress, FilesAgree, CompletedMeansExtracted
<1> QED BY <1>1, ProgressAlways, PTL

\* "blocked" is only answered by an execution without effects.
THEOREM BlockedIsUnstarted == Spec => []BlockedHasNoEffect
<1>1. (\A d \in Executions : Progress(d)) => BlockedHasNoEffect
  BY DEF Progress, NothingYet, Unbegun, BlockedHasNoEffect
<1> QED BY <1>1, ProgressAlways, PTL

\* The receipt of the batch stands for all its repositories.
THEOREM SuccessIsWhole == Spec => []SuccessIsComplete
<1>1. (\A d \in Executions : Progress(d)) => SuccessIsComplete
  BY DEF Progress, FilesAgree, SuccessIsComplete
<1> QED BY <1>1, ProgressAlways, PTL

-----------------------------------------------------------------------------
(* The inspection.                                                         *)

\* No execution publishes a repository twice: what it has not reached yet it
\* has not touched.  So a target that comes back is somebody else's.
Ahead ==
    \A e \in Executions, r \in Repositories :
        /\ pc[e] \in {"attempting", "applying"} /\ r >= ordinal[e] => <<e, r>> \notin effects
        /\ pc[e] \in {"published", "extracted"} /\ r > ordinal[e] => <<e, r>> \notin effects

\* Every target, now and in the first inventory, is a recorded effect, and
\* what was seen extracted is so for as long as it is the same target.
Observed ==
    /\ \A r \in Repositories : target[r] # Absent => <<target[r].by, r>> \in effects
    /\ inspector.pc = "observing" => \A r \in Repositories :
          /\ inspector.before[r] # None => <<inspector.before[r], r>> \in effects
          /\ inspector.seen[r] = "not_materialized" => inspector.before[r] = None
          /\ inspector.seen[r] = "extracted" =>
                /\ inspector.before[r] # None
                /\ target[r].by = inspector.before[r] => target[r].status = "extracted"

\* The place of an execution is enough to keep it from publishing twice.
LEMMA AheadNext ==
  ASSUME TypeOK, \A d \in Executions : Progress(d), Ahead, [Next]_vars
  PROVE  Ahead'
<1> USE DEF Goto
<1>0. \A d \in Executions : ordinal[d] \in Nat
  BY Ordinals DEF TypeOK
<1>1. ASSUME \/ \E r \in Repositories : Recover(r) \/ Observe(r)
             \/ Inspect \/ EndInspection \/ UNCHANGED vars
      PROVE  Ahead'
  BY <1>1 DEF Recover, Observe, Inspect, EndInspection, batch, vars, Ahead
<1>2. ASSUME NEW e \in Executions,
             \/ Verify(e) \/ Check(e) \/ Open(e) \/ Blocked(e) \/ Readback(e)
             \/ Conclude(e) \/ Halt(e) \/ Report(e) \/ Kill(e)
      PROVE  Ahead'
  <2>1. /\ effects' = effects
        /\ \A d \in Executions : d # e => pc'[d] = pc[d] /\ ordinal'[d] = ordinal[d]
        /\ pc'[e] \notin {"attempting", "applying", "published", "extracted"}
    BY <1>2 DEF Verify, Check, Open, Blocked, Readback, Conclude, Halt, Report, Kill, TypeOK
  <2> QED BY <2>1 DEF Ahead
<1>3. ASSUME NEW e \in Executions, Started(e) PROVE Ahead'
  <2>1. /\ effects' = effects /\ ordinal' = ordinal
        /\ \A d \in Executions : d # e => pc'[d] = pc[d]
        /\ pc'[e] = "attempting" /\ pc[e] \in Unbegun
    BY <1>3 DEF Started, TypeOK, Unbegun, Preflight
  <2>2. \A r \in Repositories : <<e, r>> \notin effects
    BY <2>1 DEF Progress, NothingYet
  <2> QED BY <2>1, <2>2 DEF Ahead
<1>4. ASSUME NEW e \in Executions, Attempt(e) \/ Finish(e) PROVE Ahead'
  BY <1>4 DEF Attempt, Finish, Ahead, TypeOK
<1>5. ASSUME NEW e \in Executions, Publish(e) PROVE Ahead'
  <2>1. /\ effects' = effects \cup {<<e, ordinal[e]>>} /\ ordinal' = ordinal
        /\ \A d \in Executions : d # e => pc'[d] = pc[d]
        /\ pc[e] = "applying" /\ pc'[e] = "published"
    BY <1>5 DEF Publish, TypeOK
  <2>2. \A r \in Repositories : r > ordinal[e] => <<e, r>> \notin effects'
    <3> SUFFICES ASSUME NEW r \in Repositories, r > ordinal[e] PROVE <<e, r>> \notin effects'
      OBVIOUS
    <3>1. r \in Nat /\ ordinal[e] \in Nat
      BY <1>0, Ordinals
    <3>2. r >= ordinal[e] /\ r # ordinal[e]
      BY <3>1
    <3> QED BY <2>1, <3>2 DEF Ahead
  <2> QED BY <2>1, <2>2 DEF Ahead
<1>6. ASSUME NEW e \in Executions, Complete(e) PROVE Ahead'
  <2>1. /\ effects' = effects
        /\ \A d \in Executions : d # e => pc'[d] = pc[d] /\ ordinal'[d] = ordinal[d]
        /\ pc[e] = "extracted"
        /\ \/ pc'[e] = "attempting" /\ ordinal'[e] = ordinal[e] + 1
           \/ pc'[e] = "readback"
    BY <1>6 DEF Complete, TypeOK
  <2>2. ASSUME NEW r \in Repositories, r >= ordinal[e] + 1 PROVE <<e, r>> \notin effects
    <3>1. r \in Nat /\ ordinal[e] \in Nat
      BY <1>0, Ordinals
    <3>2. r > ordinal[e]
      BY <2>2, <3>1
    <3> QED BY <2>1, <3>2 DEF Ahead
  <2> QED BY <2>1, <2>2 DEF Ahead
<1> QED BY <1>1, <1>2, <1>3, <1>4, <1>5, <1>6 DEF Next

\* An inspection keeps what it knows, whatever goes on beside it.
LEMMA ObservedNext ==
  ASSUME TypeOK, PublishedIsHeld, Ahead, Observed, [Next]_vars
  PROVE  Observed'
<1> USE DEF Goto
<1>1. ASSUME NEW e \in Executions, Publish(e) PROVE Observed'
  <2>1. /\ pc[e] = "applying" /\ target[ordinal[e]] = Absent /\ inspector' = inspector
        /\ target' = [target EXCEPT ![ordinal[e]] = [status |-> "pending", by |-> e]]
        /\ effects' = effects \cup {<<e, ordinal[e]>>}
    BY <1>1 DEF Publish
  <2>2. ordinal[e] \in Repositories /\ ordinal[e] \in Nat
    BY Ordinals DEF TypeOK
  <2>3. <<e, ordinal[e]>> \notin effects
    BY <2>1, <2>2 DEF Ahead
  <2>4. inspector.pc = "observing" => inspector.before[ordinal[e]] # e
    BY <2>2, <2>3, BatchAssumption DEF Observed
  <2>5. \A r \in Repositories :
           target'[r] = IF r = ordinal[e] THEN [status |-> "pending", by |-> e] ELSE target[r]
    BY <2>1, <2>2 DEF TypeOK
  <2>6. \A r \in Repositories : target'[r] # Absent => <<target'[r].by, r>> \in effects'
    BY <2>1, <2>2, <2>5 DEF Observed
  <2> QED BY <2>1, <2>4, <2>5, <2>6 DEF Observed
<1>2. ASSUME NEW e \in Executions, Finish(e) PROVE Observed'
  <2>1. /\ pc[e] = "published" /\ inspector' = inspector /\ effects' = effects
        /\ target' = [target EXCEPT ![ordinal[e]].status = "extracted"]
    BY <1>2 DEF Finish
  <2>2. ordinal[e] \in Repositories
        /\ target[ordinal[e]] \in [status : {"pending", "extracted"}, by : {e}]
    BY <2>1 DEF TypeOK, PublishedIsHeld
  <2>3. /\ target'[ordinal[e]].by = target[ordinal[e]].by
        /\ target'[ordinal[e]].status = "extracted"
        /\ target[ordinal[e]] # Absent
        /\ \A r \in Repositories : r # ordinal[e] => target'[r] = target[r]
    BY <2>1, <2>2 DEF TypeOK, Absent
  <2> QED BY <2>1, <2>2, <2>3 DEF Observed
<1>3. ASSUME NEW e \in Executions,
             \/ Verify(e) \/ Check(e) \/ Open(e) \/ Started(e) \/ Blocked(e)
             \/ Attempt(e) \/ Complete(e) \/ Readback(e) \/ Conclude(e)
             \/ Halt(e) \/ Report(e) \/ Kill(e)
      PROVE  Observed'
  <2>1. UNCHANGED <<target, effects, inspector>>
    BY <1>3 DEF Verify, Check, Open, Started, Blocked, Attempt, Complete, Readback,
                Conclude, Halt, Report, Kill
  <2> QED BY <2>1 DEF Observed
<1>4. ASSUME NEW q \in Repositories, Recover(q) PROVE Observed'
  <2>1. /\ target[q] # Absent /\ inspector' = inspector /\ effects' = effects
        /\ target[q] \in [status : {"pending", "extracted"}, by : Executions]
    BY <1>4 DEF Recover, TypeOK, Targets
  <2>2. /\ \A r \in Repositories : r # q => target'[r] = target[r]
        /\ \/ target'[q] = Absent
           \/ target'[q].by = target[q].by /\ target'[q].status = "extracted"
    BY <1>4, <2>1 DEF Recover, TypeOK
  <2>3. \A r \in Repositories : target'[r] # Absent => <<target'[r].by, r>> \in effects'
    BY <2>1, <2>2 DEF Observed
  <2>4. Absent.by = None
    BY DEF Absent
  <2> QED BY <2>1, <2>2, <2>3, <2>4 DEF Observed
<1>5. CASE Inspect
  <2>1. /\ UNCHANGED <<target, effects>>
        /\ \A r \in Repositories : /\ inspector'.before[r] = target[r].by
                                  /\ inspector'.seen[r] = None
    BY <1>5 DEF Inspect, batch, Inventory
  <2>2. \A r \in Repositories : target[r].by # None => target[r] # Absent
    BY DEF Absent
  <2>3. None \notin Statuses
    BY NoneIsNoStatus
  <2> QED BY <2>1, <2>2, <2>3 DEF Observed, Statuses
<1>6. ASSUME NEW q \in Repositories, Observe(q) PROVE Observed'
  <2>1. UNCHANGED <<target, effects>> /\ inspector.pc = "observing"
    BY <1>6 DEF Observe, batch
  <2>2. inspector \in [pc : {"observing", "observed", "requires_reconciliation"},
                       before : [Repositories -> Executions \cup {None}],
                       seen : [Repositories -> Statuses \cup {None}]]
    BY <2>1 DEF TypeOK, Inspectors
  <2>3. target[q] = Absent \/ target[q].status \in {"pending", "extracted"}
    BY DEF TypeOK, Targets
  <2>4. PICK s \in Statuses :
           /\ inspector' = [inspector EXCEPT !.seen[q] = s]
           /\ s = "not_materialized" => inspector.before[q] = None
           /\ s = "extracted" => inspector.before[q] # None /\ target[q].status = "extracted"
    BY <1>6, <2>3, Z3 DEF Observe, Statuses
  <2>5. /\ inspector'.before = inspector.before
        /\ inspector'.seen[q] = s
        /\ \A r \in Repositories : r # q => inspector'.seen[r] = inspector.seen[r]
    BY <2>2, <2>4
  <2> QED BY <2>1, <2>4, <2>5 DEF Observed
<1>7. CASE EndInspection
  <2>1. UNCHANGED <<target, effects>> /\ inspector'.pc # "observing"
    BY <1>7 DEF EndInspection, batch, TypeOK, Inspectors
  <2> QED BY <2>1 DEF Observed
<1>8. CASE UNCHANGED vars
  BY <1>8 DEF vars, batch, Observed
<1> QED BY <1>1, <1>2, <1>3, <1>4, <1>5, <1>6, <1>7, <1>8 DEF Next

\* "observed" is right about every target at the moment it is said, although
\* the inspection read them one by one.
THEOREM ObservationIsRight == Spec => ObservationHolds
<1>1. Init => Ahead /\ Observed
  BY DEF Init, Ahead, Observed, Absent
<1>2. Spec => [](TypeOK /\ PublishedIsHeld /\ Ahead /\ Observed)
  <2>1. TypeOK /\ (\A d \in Executions : Progress(d)) /\ Ahead /\ [Next]_vars => Ahead'
    BY AheadNext
  <2>2. TypeOK /\ PublishedIsHeld /\ Ahead /\ Observed /\ [Next]_vars => Observed'
    BY ObservedNext
  <2> QED BY TypeInit, TypeNext, ProgressAlways, <1>1, <2>1, <2>2, PTL DEF Spec
<1>3. TypeOK /\ Observed /\ [Next]_vars =>
         [inspector.pc = "observing" /\ inspector'.pc = "observed" =>
            \A r \in Repositories :
               /\ inspector.seen[r] = "not_materialized" => target[r] = Absent
               /\ inspector.seen[r] = "extracted" => target[r].status = "extracted"]_vars
  <2> SUFFICES ASSUME TypeOK, Observed, Next, NEW r \in Repositories,
                      inspector.pc = "observing", inspector'.pc = "observed"
               PROVE  /\ inspector.seen[r] = "not_materialized" => target[r] = Absent
                      /\ inspector.seen[r] = "extracted" => target[r].status = "extracted"
    BY DEF vars
  <2>1. EndInspection
    <3>1. ASSUME NEW q \in Repositories, Observe(q) PROVE FALSE
      BY <3>1 DEF Observe, TypeOK, Inspectors
    <3>2. ~Inspect
      BY DEF Inspect
    <3>3. inspector' # inspector
      OBVIOUS
    <3> QED BY <3>1, <3>2, <3>3
            DEF Next, Verify, Check, Open, Started, Blocked, Attempt, Publish, Finish,
                Complete, Readback, Conclude, Halt, Report, Kill, Recover
  <2>2. inspector.before = Inventory
    BY <2>1 DEF EndInspection, TypeOK, Inspectors
  <2>3. target[r].by = inspector.before[r]
    BY <2>2 DEF Inventory
  <2>4. target[r].by = None => target[r] = Absent
    BY BatchAssumption DEF TypeOK, Targets
  <2> QED BY <2>3, <2>4 DEF Observed
<1> QED BY <1>2, <1>3, PTL DEF ObservationHolds, Spec

\* The evidence of every execution tells how far it came, whatever fails or is killed.
THEOREM BatchStaysSound == Spec => []BatchIsSound
  BY EvidenceNamesEffects, CompletionIsOwn, BlockedIsUnstarted, SuccessIsWhole,
     BatchStopsAtFailure, EvidenceHasOneOwner, PTL DEF BatchIsSound

\* The same where the batch is one of the tools (StandaloneTools).
THEOREM BatchesStaySound == ToolsSpec => []BatchIsSound /\ ObservationHolds
<1>1. ToolsInit => Init
  BY DEF ToolsInit
<1>2. [ToolsNext]_toolVars => [Next]_vars
  BY DEF ToolsNext, toolVars
<1>3. ToolsSpec => Spec
  BY <1>1, <1>2, PTL DEF ToolsSpec, Spec
<1> QED BY <1>3, BatchStaysSound, ObservationIsRight
=============================================================================
