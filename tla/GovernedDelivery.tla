--------------------------- MODULE GovernedDelivery --------------------------
(***************************************************************************)
(* Ticket branches on their way to the target branch: an agent plans, edits  *)
(* and rebases in its worktree and runs governance_check.py there, which may *)
(* answer from the preflight cache; a protected job runs it again on the head *)
(* of the pull request, with an approval; the branch is merged; afterwards a *)
(* terminal receipt may be recorded in the clone.  The target branch is the  *)
(* sequence of its merges.  A check is two steps, because the cache key is   *)
(* computed before the checks and the result saved after them.               *)
(***************************************************************************)
EXTENDS GovernanceCheck, Sequences

CONSTANTS Plans,        \* [Ticket -> set of states and intents its owner may write]
          MaxMerges,    \* bound: merges of the target branch
          MaxPaths,     \* bound: [Ticket -> how many paths its branch changes]
          Checkers,     \* bound: tickets whose agent runs the checker locally
          Steady,       \* nothing changes in the clone while a local check runs
          NoKey

ASSUME DeliveryAssumption == MaxMerges \in Nat

VARIABLES main,      \* merges of the target branch
          origin,    \* the target as the clone last fetched it
          receipts,  \* tickets with a verified terminal receipt in the clone
          branch,    \* [Ticket -> the state of its branch and worktree]
          cache,     \* [Ticket -> entries of the worktree's preflight cache]
          run        \* [Ticket -> the key of the local check under way]

vars == <<main, origin, receipts, branch, cache, run>>

Target == Len(main)

\* The records a tree holds: those merged up to a revision, and the branch's own.
OnTarget(n) == {main[i].ticket : i \in {j \in 1..n : main[j].carrier}}
Takes(n, t) == {i \in 1..n : main[i].ticket = t /\ main[i].carrier}
Landed(n, t) == main[CHOOSE i \in Takes(n, t) : \A j \in Takes(n, t) : j <= i].record

Tree(t) ==
  LET b == branch[t] shown == OnTarget(b.base) \cup (IF b.carrier THEN {t} ELSE {})
  IN  [u \in shown |-> IF u = t /\ b.carrier THEN b.record ELSE Landed(b.base, u)]

Files(n) == UNION {main[i].impl : i \in 1..n}

\* What one execution of the checker sees in the worktree of t.
View(t, base, target, terminal, enforce, evidence) ==
  LET b == branch[t] IN
  [records |-> Tree(t), impl |-> b.impl, carriers |-> IF b.carrier THEN {t} ELSE {},
   files |-> Files(b.base) \cup b.impl, adopted |-> {}, terminal |-> terminal,
   planned |-> b.planned \cup OnTarget(b.base), base |-> base, target |-> target,
   landed |-> [i \in 1..Target |-> main[i].impl], onTarget |-> FALSE, tip |-> 0,
   head |-> "head", enforce |-> enforce, evidence |-> evidence]

LocalView(t) == View(t, branch[t].base, origin, receipts, FALSE, {})

------------------------------------------------------------------------------
(* The agent's worktree *)

NoBranch == [open |-> FALSE, base |-> 0, impl |-> {}, carrier |-> FALSE,
             record |-> NoTicket, planned |-> {}]

Quiet(t) == Steady => run[t] = NoKey

Advance(t, b) ==
  /\ Target < MaxMerges                          \* bound: work ends with the last merge
  /\ branch' = [branch EXCEPT ![t] = b]
  /\ UNCHANGED <<main, origin, receipts, cache, run>>

\* A branch is cut at the fetched target; a ticket may deliver more than once.
Begin(t) ==
  /\ ~branch[t].open
  /\ Advance(t, [NoBranch EXCEPT !.open = TRUE, !.base = origin])

\* The intent is written against the base it was accepted on.
WritePlan(t, intent) ==
  /\ branch[t].open /\ Quiet(t)
  /\ Advance(t, [branch[t] EXCEPT !.carrier = TRUE,
       !.record = [status |-> intent.status, workflow |-> intent.workflow, plan |-> intent.plan,
                   accepted |-> branch[t].base]])

\* The first implementation commit fixes which intents it was made under.
Edit(t, p) ==
  /\ branch[t].open /\ Quiet(t) /\ p \notin branch[t].impl
  /\ Cardinality(branch[t].impl) < MaxPaths[t]
  /\ Advance(t, [branch[t] EXCEPT !.impl = @ \cup {p},
       !.planned = IF branch[t].impl = {} THEN DOMAIN Tree(t) ELSE @])

Refresh(t) ==
  /\ branch[t].open /\ Quiet(t) /\ branch[t].base < origin
  /\ Advance(t, [branch[t] EXCEPT !.base = origin])

Fetch ==
  /\ origin < Target /\ \A t \in Ticket : Quiet(t)
  /\ origin' = Target
  /\ UNCHANGED <<main, receipts, branch, cache, run>>

------------------------------------------------------------------------------
(* The local check and its cache *)

\* compute_preflight_cache_key: the head and its dirt, and the base; neither
\* the target references nor the receipts of the clone are part of it.
\* (Mutant: the committed intent left out.)
KeyOfDirt(t) == [tree |-> [branch[t] EXCEPT !.record = NoTicket], base |-> branch[t].base]
Key(t) == [tree |-> branch[t], base |-> branch[t].base]

Entry(key, t) == [key |-> key, origin |-> origin, receipts |-> receipts,
                  intact |-> key = Key(t)]

\* What an execution started now would answer from, without any check.
Hits(t) == {e \in cache[t] : branch[t].open /\ e.key = Key(t)}

Miss(t) ==
  /\ branch[t].open /\ run[t] = NoKey /\ Hits(t) = {}
  /\ branch[t].impl # {} /\ cache[t] = {}     \* bound: one saved result per worktree
  /\ run' = [run EXCEPT ![t] = Key(t)]
  /\ UNCHANGED <<main, origin, receipts, branch, cache>>

\* Only a pass is saved, under the key computed before the checks.
Conclude(t) ==
  /\ run[t] # NoKey /\ branch[t].open
  /\ run' = [run EXCEPT ![t] = NoKey]
  /\ cache' = IF Findings(LocalView(t)) = {}
              THEN [cache EXCEPT ![t] = @ \cup {Entry(run[t], t)}] ELSE cache
  /\ UNCHANGED <<main, origin, receipts, branch>>

------------------------------------------------------------------------------
(* The protected side *)

\* The job works in a fresh clone: no receipts, no cache, the target as it is,
\* the base the event names, and an approval of this head or of an earlier one,
\* for some ticket, if there is any.  Branch protection asks for a branch that
\* holds the target and for an answer about exactly this head, so nothing
\* happens between the answer and the merge that could change it.
Deliver(t, evidence) ==
  LET view == View(t, branch[t].base, Target, {}, TRUE, evidence) IN
  /\ branch[t].open /\ branch[t].impl # {} /\ Target < MaxMerges
  /\ branch[t].base = Target /\ run[t] = NoKey
  /\ Findings(view) = {}
  /\ main' = Append(main, [ticket |-> t, impl |-> branch[t].impl, carrier |-> branch[t].carrier,
                           record |-> branch[t].record, answers |-> Selected(view)])
  /\ branch' = [branch EXCEPT ![t] = NoBranch]
  /\ cache' = [cache EXCEPT ![t] = {}]           \* it goes with the worktree
  /\ UNCHANGED <<origin, receipts, run>>

Record(t) ==
  /\ t \in OnTarget(Target) \ receipts /\ \A u \in Ticket : Quiet(u)
  /\ receipts' = receipts \cup {t}
  /\ UNCHANGED <<main, origin, branch, cache, run>>

Evidence == {{}} \cup {{[head |-> h, ticket |-> t]} : h \in {"head", "earlier"}, t \in Ticket}

------------------------------------------------------------------------------
Init ==
  /\ main = <<>> /\ origin = 0 /\ receipts = {}
  /\ branch = [t \in Ticket |-> NoBranch]
  /\ cache = [t \in Ticket |-> {}]
  /\ run = [t \in Ticket |-> NoKey]

Next ==
  \/ \E t \in Ticket :
       \/ Begin(t) \/ Refresh(t) \/ Record(t)
       \/ t \in Checkers /\ (Miss(t) \/ Conclude(t))
       \/ \E intent \in Plans[t] : WritePlan(t, intent)
       \/ \E p \in Path : Edit(t, p)
       \/ \E evidence \in Evidence : Deliver(t, evidence)
  \/ Fetch

Spec == Init /\ [][Next]_vars

------------------------------------------------------------------------------
(* Properties *)

TypeOK ==
  /\ origin \in 0..Target /\ Target <= MaxMerges /\ receipts \subseteq OnTarget(Target)
  /\ \A t \in Ticket :
       /\ branch[t].base <= Target /\ branch[t].impl \subseteq Path
       /\ Cardinality(cache[t]) <= 1

\* The intent a merge was accepted under, and the base it was accepted on.
Answering(i) ==
  LET m == main[i] IN
  IF m.answers = m.ticket /\ m.carrier THEN m.record ELSE Landed(i - 1, m.answers)

\* Everything on the target branch was changed under one ticket that was live in
\* the tree it was merged from, inside the scope of its intent and inside what
\* its workstream owns - also when the branch of one ticket carries a change
\* another ticket answers for.
AccountedFor ==
  \A i \in 1..Target :
    /\ main[i].answers \in Ticket
    /\ Answering(i).status = "IN_PROGRESS"
    /\ main[i].impl \subseteq Scope(Answering(i).plan)
    /\ main[i].impl \subseteq Matched(Owned[Answering(i).plan.workstream])

\* A delivery contract is accepted on a base: between that base and its merge
\* nobody else has changed a path of the components it was approved for.
NoStaleOverlap ==
  \A i \in 1..Target :
    Answering(i).plan.delivery # NoDelivery =>
      \A j \in Answering(i).accepted + 1 .. i - 1 :
        main[j].impl \cap UNION Answering(i).plan.delivery.components = {}

\* A change the gate accepted on the pull request is accepted again on the
\* published target, compared with its first parent.
PublishedView ==
  [records |-> [u \in OnTarget(Target) |-> Landed(Target, u)], impl |-> main[Target].impl,
   carriers |-> IF main[Target].carrier THEN {main[Target].ticket} ELSE {},
   files |-> Files(Target), adopted |-> {}, terminal |-> {}, planned |-> OnTarget(Target),
   base |-> Target - 1, target |-> Target, landed |-> [i \in 1..Target |-> main[i].impl],
   onTarget |-> TRUE, tip |-> Target, head |-> "head", enforce |-> FALSE, evidence |-> {}]

MainStaysGreen == Target > 0 => Findings(PublishedView) = {}

\* A ticket is delivered after what it depends on has been delivered.
DependenciesDelivered ==
  \A i \in 1..Target :
    main[i].carrier /\ main[i].record.status = "IN_PROGRESS" =>
      main[i].record.plan.dependsOn \subseteq OnTarget(i - 1)

\* A result answered from the cache is the one the checks would give now, when
\* the tree was not edited during the run that saved it and the target and the
\* receipts of the clone are the ones it saw.
HitIsDeterministic ==
  \A t \in Ticket : \A e \in Hits(t) :
    e.intact /\ e.origin = origin /\ e.receipts = receipts => Findings(LocalView(t)) = {}

\* "An active ticket depends on a missing or unfinished ticket."
\* (diagnostics.json:195) is a finding: a check without findings has none.
DependenciesFinished ==
  \A t \in Ticket :
    branch[t].open /\ branch[t].carrier /\ branch[t].impl # {}
      /\ branch[t].record.status = "IN_PROGRESS" /\ Findings(LocalView(t)) = {}
    => \A d \in branch[t].record.plan.dependsOn : d \in receipts
==============================================================================
