---------------------------- MODULE TicketReadiness ---------------------------
(***************************************************************************)
(* poa/ticket-readiness: whether a governed ticket may be executed by a bot. *)
(* The decision is asked before every step; the executor (external) then      *)
(* carries out the next step of the answer, a human approves steps that wait  *)
(* for it, and routes come and go.                                            *)
(*                                                                           *)
(* A process of a ticket is declared by its envelope and may be repeated      *)
(* among the execution steps; its approval flag may be absent in each.        *)
(***************************************************************************)
EXTENDS DependencyOrder

CONSTANTS
  Steps,       \* ids of the declared processes, in the order of their ids
  MaxAttempts  \* bound: attempts of one ticket

VARIABLES
  work,      \* the ticket: its state, envelope, execution steps and attempts
  world,     \* steps whose actor is a registered bot with a contract for it, and with a route
  approved,  \* history: steps a human has approved
  ran        \* history: steps that were carried out, in order

boardVars == <<work, world, approved, ran>>

Ids == ToSet(Steps)
Flags == {"absent", "yes", "no"}
Terminal == {"done", "canceled", "failed"}

\* The envelope of a ticket: per process whether a human has to approve it and what it
\* depends on; and the processes that some expectation is verified by.
NoWork == [status |-> "open", state |-> "none", attempt |-> 0,
           declared |-> [s \in Ids |-> "absent"], depends |-> [s \in Ids |-> <<>>], covered |-> {},
           listed |-> [s \in Ids |-> "absent"], progress |-> [s \in Ids |-> "pending"]]

BoardInit ==
  /\ work = NoWork
  /\ world = [bots |-> {}, routes |-> {}]
  /\ approved = {} /\ ran = <<>>

\* A ticket is opened; the steps that are listed for execution repeat the approval flag or
\* leave it out.
Open ==
  /\ work.state = "none"
  /\ \E declared \in [Ids -> Flags], listed \in [Ids -> Flags \cup {"unlisted"}],
        depends \in [Ids -> {<<>>} \cup {<<d>> : d \in Ids}], covered, bots, routes \in SUBSET Ids,
        state \in {"ready", "waiting_input", "done"} :
       /\ bots = Ids \/ routes = Ids
       /\ state # "ready" => /\ covered = Ids /\ bots = Ids /\ routes = Ids
                             /\ depends = [s \in Ids |-> <<>>]
       /\ work' = [NoWork EXCEPT !.state = state, !.declared = declared, !.depends = depends,
                                 !.covered = covered, !.listed = listed]
       /\ world' = [bots |-> bots, routes |-> routes]
  /\ UNCHANGED <<approved, ran>>

------------------------------------------------------------------------------
\* isActiveTicket.
IsActive(status, state) == status \notin Terminal \cup {"blocked"} /\ state \notin Terminal

Listed(s) == work.listed[s] # "unlisted"
Status(s) == IF Listed(s) THEN work.progress[s] ELSE "pending"
Past(s)   == Status(s) \in {"approved", "done"}

\* bindExecutableProcesses: the flags of both sides agree, unless the step is past them.
Bound ==
  \A s \in Ids :
    Listed(s) /\ work.declared[s] # "absent" /\ work.listed[s] # "absent" /\ ~Past(s) =>
      work.declared[s] = work.listed[s]

\* Mutant: what the envelope leaves out is not looked for in the execution step.
HumanApprovalAsDeclared(s) == ~Past(s) /\ work.declared[s] = "yes"

\* Whether the process waits for a human, as it is bound.
HumanApproval(s) ==
  /\ ~Past(s)
  /\ IF work.declared[s] # "absent" THEN work.declared[s] = "yes"
     ELSE Listed(s) /\ work.listed[s] = "yes"

\* expectationCoverage; orderedProcesses; the steps whose actor and route are looked at.
Unfinished == {s \in Ids : Status(s) # "completed"}

Ordering == OrderedProcesses(work.depends, Steps)

\* ticketReadinessDecision: the first condition that is not met blocks.
Decision ==
  IF ~IsActive(work.status, work.state) THEN "ignore"
  ELSE IF work.state = "waiting_input" THEN "notify"
  ELSE IF work.state # "ready" THEN "ignore"
  ELSE IF /\ work.attempt < MaxAttempts
          /\ Bound
          /\ work.covered = Ids
          /\ Ordering.ok
          /\ \A s \in Ids : ~HumanApproval(s)
          /\ Unfinished \subseteq world.bots \cap world.routes
       THEN "execute" ELSE "blocked"

------------------------------------------------------------------------------
\* The executor takes the first step of the answer that has not been carried out, and notes
\* that it is completed; an attempt that fails leaves it as it was.
Execute ==
  /\ Decision = "execute"
  /\ LET processes == Ordering.processes
         Due(i) == processes[i] \in Unfinished IN
     \/ /\ \A i \in DOMAIN processes : ~Due(i)
        /\ work' = [work EXCEPT !.state = "done"] /\ UNCHANGED ran
     \/ \E i \in DOMAIN processes :
          /\ Due(i) /\ \A j \in 1..i - 1 : ~Due(j)
          /\ \/ /\ Listed(processes[i])
                /\ work' = [work EXCEPT !.progress[processes[i]] = "completed"]
                /\ ran' = Append(ran, processes[i])
             \/ work' = [work EXCEPT !.attempt = @ + 1] /\ UNCHANGED ran
  /\ UNCHANGED <<world, approved>>

\* A human approves a listed step.
ApproveStep ==
  /\ \E s \in Ids \ approved :
       /\ work.state = "ready" /\ Listed(s) /\ work.progress[s] = "pending"
       /\ approved' = approved \cup {s}
       /\ work' = [work EXCEPT !.progress[s] = "approved"]
  /\ UNCHANGED <<world, ran>>

\* A route or a bot goes.
Lose ==
  /\ ran # <<>>
  /\ \E s \in Ids : world' = [world EXCEPT !.routes = @ \ {s}]
  /\ world' # world
  /\ UNCHANGED <<work, approved, ran>>

BoardNext == Open \/ Execute \/ ApproveStep \/ Lose

------------------------------------------------------------------------------
\* No step that either side says a human has to approve is carried out without approval,
\* whatever is approved, completed or left out before it.
HumansAreAsked ==
  \A i \in DOMAIN ran :
    LET s == ran[i] IN
    work.declared[s] = "yes" \/ work.listed[s] = "yes" => s \in approved

\* Completed steps never stop the remaining work: as long as no route goes and no attempt
\* fails, a ticket that was executed once goes on to be executable until it is done.
ProgressNeverStrands ==
  ran # <<>> /\ work.attempt = 0 /\ Ids \subseteq world.routes => Decision \in {"execute", "ignore"}
==============================================================================
