--------------------------- MODULE GovernanceCheck ---------------------------
(***************************************************************************)
(* The coordination checks and the change gate of .governance/             *)
(* governance_check.py: from what a checkout shows (its ticket records, the *)
(* changed paths, the observed revisions of the target branch) to the codes *)
(* of the findings.  A pattern is the set of paths it matches (how patterns  *)
(* match and overlap is PathPatterns); a revision of the target branch is    *)
(* the number of merges it holds.                                            *)
(***************************************************************************)
EXTENDS Naturals, FiniteSets

CONSTANTS Ticket, Path, Workstream,
          Integration,     \* coordination.integration.workstream
          Owned,           \* [Workstream -> set of patterns] : ownedPaths
          Shared,          \* integration.requiredForPaths
          Manifests,       \* delivery.dependencyManifestPaths
          MaxActive,       \* coordination.maxActiveTicketsPerWorkstream
          MaxFiles,        \* delivery.maxImplementationFiles
          MaxComponents,   \* delivery.maxAffectedComponents
          NoTicket, NoDelivery

ASSUME PolicyAssumption ==
  /\ Integration \in Workstream
  /\ Owned \in [Workstream -> SUBSET SUBSET Path]
  /\ Shared \subseteq Path /\ Manifests \subseteq Path
  /\ MaxActive \in Nat /\ MaxFiles \in Nat /\ MaxComponents \in Nat
  /\ NoTicket \notin Ticket

When(code, condition) == IF condition THEN {code} ELSE {}

Matched(patterns) == UNION patterns
Scope(plan) == Matched(plan.allowed) \ Matched(plan.forbidden)

------------------------------------------------------------------------------
(* Intents and records *)

\* validate_intent_value: an intent that does not validate is none at all.
Sound(t, plan) ==
  /\ plan.allowed # {}
  /\ plan.schema # "v1" => plan.integration # t

Readable(v, t) == Sound(t, v.records[t].plan)
Plan(v, t) == v.records[t].plan
Directed(v) == {t \in DOMAIN v.records : Readable(v, t) /\ Plan(v, t).schema # "v1"}

\* A ticket is live while its README says so and no verified terminal receipt
\* of the clone takes it back.
Active(v) ==
  {t \in DOMAIN v.records : v.records[t].status = "IN_PROGRESS" /\ t \notin v.terminal}

Changed(v) == v.impl # {} \/ v.carriers # {}

\* The reservations a change is checked against: those whose carriers it
\* touches, else the only one whose scope it touches, else all of them.
Contending(v) ==
  LET own      == Active(v) \cap v.carriers
      touching == {t \in Active(v) : Readable(v, t) /\ Scope(Plan(v, t)) \cap v.impl # {}}
  IN  IF ~Changed(v) THEN {}
      ELSE IF own # {} THEN own
      ELSE IF Cardinality(Active(v)) > 1 /\ Cardinality(touching) = 1 THEN touching
      ELSE Active(v)

Valid(v, live) ==
  {t \in live : /\ Readable(v, t) /\ Plan(v, t).schema = "v3"
                         /\ Plan(v, t).workstream \in Workstream}

------------------------------------------------------------------------------
(* check_coordination *)

StatusCodes(v) ==
  When("GOV-STATUS-001", \E t \in DOMAIN v.records : v.records[t].status \notin
      {"IN_PROGRESS", "BACKLOG", "PLAN", "BLOCKED", "DONE", "CANCELLED"})

IntentCodes(v, live) ==
  {IF Readable(v, t) /\ Plan(v, t).schema = "v3" THEN "GOV-WORKSTREAM-001" ELSE "GOV-INTENT-002"
     : t \in live \ Valid(v, live)}

LimitCodes(v, valid) ==
  When("GOV-WORKSTREAM-002", \E w \in Workstream :
      Cardinality({t \in valid : Plan(v, t).workstream = w}) > MaxActive)

\* A finite graph has a cycle just when some set of nodes all have a successor
\* in it (the search the code makes is DependencyOrder!FindCycle).
Cyclic(graph) ==
  \E S \in SUBSET DOMAIN graph : S # {} /\ \A t \in S : graph[t] \cap S # {}

GraphCodes(v) ==
  LET graph == [t \in Directed(v) |-> Plan(v, t).dependsOn]
  IN  When("GOV-DEPENDENCY-001",
         \/ \E t \in Directed(v) : t \in Plan(v, t).dependsOn \cup Plan(v, t).conflictsWith
         \/ Cyclic(graph))

\* Mutant: a prerequisite that is not there is not waited for.
DependencyIsNotLive(v, d, live) == d \notin live

\* A prerequisite counts as done when its status is closed, or when it is
\* projected active and is not among the given live tickets.
DependencyIsTerminal(v, d, live) ==
  /\ d \in DOMAIN v.records
  /\ \/ v.records[d].status \in {"DONE", "CANCELLED"}
     \/ v.records[d].status = "IN_PROGRESS" /\ d \notin live

IntegrationReferenceValid(v, t) ==
  /\ t \in Directed(v)
  /\ Plan(v, t).workstream = Integration
  /\ v.records[t].status # "CANCELLED"

RelationCodes(v, live, valid) ==
  UNION {   When("GOV-DEPENDENCY-002",
                 \E d \in Plan(v, t).dependsOn : ~DependencyIsTerminal(v, d, live))
       \cup When("GOV-CONFLICT-001", Plan(v, t).conflictsWith \cap live # {})
       \cup When("GOV-INTEGRATION-001",
                 /\ Plan(v, t).integration # NoTicket
                 /\ ~IntegrationReferenceValid(v, Plan(v, t).integration))
         : t \in valid}

\* The claims of a ticket stay inside what its workstream owns, by pattern and
\* by every file there is; adopted paths are exempt.
ClaimCodes(v, valid) ==
  When("GOV-WORKSTREAM-003", \E t \in valid :
     LET plan == Plan(v, t) owned == Owned[plan.workstream] IN
     \/ \E p \in plan.allowed : ~(p \subseteq v.adopted) /\ ~\E o \in owned : p \subseteq o
     \/ ~((v.files \cap Scope(plan)) \subseteq (v.adopted \cup Matched(owned))))

OverlapCodes(v, valid) ==
  When("GOV-WORKSTREAM-004", \E t, u \in valid :
     /\ t # u
     /\ \/ v.files \cap Scope(Plan(v, t)) \cap Scope(Plan(v, u)) # {}
        \/ \E p \in Plan(v, t).allowed, q \in Plan(v, u).allowed : p \cap q # {})

CheckCoordination(v) ==
  LET live == Contending(v) valid == Valid(v, live) IN
  StatusCodes(v) \cup IntentCodes(v, live) \cup LimitCodes(v, valid) \cup GraphCodes(v)
    \cup RelationCodes(v, live, valid) \cup ClaimCodes(v, valid) \cup OverlapCodes(v, valid)

------------------------------------------------------------------------------
(* The delivery contract *)

\* Mutants: never taken for published; drift counted from the fork point.
NeverPublished(v) == FALSE
InterveningFromFork(v, accepted, observed) == UNION {v.landed[i] : i \in v.base + 1 .. observed}

\* One clean integration already published: the target is checked out and the
\* supplied base is its first parent.
IsPublishedIntegration(v) == v.onTarget /\ v.tip = v.target /\ v.base = v.target - 1

ObservedBases(v) == {v.base} \cup (IF IsPublishedIntegration(v) THEN {} ELSE {v.target})

\* What the target branch changed after the accepted base, by v.landed.
Intervening(v, accepted, observed) ==
  UNION {v.landed[i] : i \in accepted + 1 .. observed}

BaseCodes(v, t) ==
  LET accepted == v.records[t].accepted
      patterns == UNION Plan(v, t).delivery.components
  IN       When("GOV-BASE-001", \E o \in ObservedBases(v) : accepted > o)
      \cup When("GOV-BASE-002",
                \E o \in ObservedBases(v) : Intervening(v, accepted, o) \cap patterns # {})

\* Every changed path has exactly one component; the diff, the components and
\* the data movement stay within what the contract and the policy grant.
ArchitectureCodes(v, t, implementation) ==
  LET delivery  == Plan(v, t).delivery
      owners(p) == {c \in delivery.components : p \in c}
      touched   == {c \in delivery.components : \E p \in implementation : owners(p) = {c}}
  IN     When("GOV-ARCHITECTURE-001",
            \/ Cardinality(delivery.components) > MaxComponents
            \/ \E p \in implementation : Cardinality(owners(p)) # 1
            \/ delivery.movesData /\ Plan(v, t).workstream # Integration)
    \cup When("GOV-BUDGET-001",
            \/ Cardinality(implementation) > delivery.files
            \/ Cardinality(implementation) > MaxFiles
            \/ Cardinality(touched) > MaxComponents)
    \cup When("GOV-DELIVERY-001", delivery.files > MaxFiles)

DeliveryCodes(v, t, implementation) ==
  IF Plan(v, t).delivery = NoDelivery
  THEN IF implementation \cap (Manifests \cup Shared) # {} THEN {"GOV-DELIVERY-001"}
       ELSE When("GOV-BUDGET-001", Cardinality(implementation) > MaxFiles)
  ELSE BaseCodes(v, t) \cup ArchitectureCodes(v, t, implementation)

------------------------------------------------------------------------------
(* check_change_gate *)

Implementation(v) == v.impl \ v.adopted

Owns(v, t, implementation) ==
  t \in Directed(v) /\ implementation \subseteq Scope(Plan(v, t))

\* change_scoped_records: the tickets one of which must answer for the change.
Candidates(v) ==
  LET own    == Active(v) \cap v.carriers
      owners == {t \in Active(v) : Owns(v, t, Implementation(v))}
  IN  IF own # {} THEN own
      ELSE IF Cardinality(Active(v)) > 1 /\ Implementation(v) # {} /\ Cardinality(owners) = 1
           THEN owners
      ELSE Active(v)

\* select_change_ticket: the only one whose scope holds the whole change, or
\* the only one there is.
Selected(v) ==
  LET candidates == Candidates(v)
      owners == {t \in candidates : Owns(v, t, Implementation(v))}
  IN  IF Cardinality(owners) = 1 THEN CHOOSE t \in owners : TRUE
      ELSE IF owners = {} /\ Cardinality(candidates) = 1 THEN CHOOSE t \in candidates : TRUE
      ELSE NoTicket

\* check_workstream_change_scope: ownership of the paths changed, not claimed.
ChangeScopeCodes(v, t, implementation) ==
  LET w == Plan(v, t).workstream IN
       When("GOV-WORKSTREAM-003",
            w \in Workstream /\ ~(implementation \subseteq Matched(Owned[w])))
  \cup When("GOV-INTEGRATION-001", implementation \cap Shared # {} /\ w # Integration)

\* check_history_order: the ticket was there before the implementation began.
PlannedFirst(v, t) == t \in v.planned

\* Mutant: forbiddenPaths forgotten.
SelectedCodesAllowedOnly(v, t, implementation) ==
       When("GOV-INTENT-003", ~PlannedFirst(v, t))
  \cup IF ~Readable(v, t) THEN {"GOV-INTENT-002"}
       ELSE When("GOV-SCOPE-001", ~(implementation \subseteq Matched(Plan(v, t).allowed)))
         \cup ChangeScopeCodes(v, t, implementation) \cup DeliveryCodes(v, t, implementation)

\* The state, the scope and the contract of the selected ticket.
SelectedCodes(v, t, implementation) ==
       When("GOV-INTENT-003", ~PlannedFirst(v, t))
  \cup When("GOV-INTENT-001",
            v.records[t].workflow \notin {"EDIT", "VALIDATION", "PUBLICATION"})
  \cup IF ~Readable(v, t) THEN {"GOV-INTENT-002"}
       ELSE When("GOV-SCOPE-001", ~(implementation \subseteq Scope(Plan(v, t))))
         \cup (IF Plan(v, t).schema # "v1" THEN ChangeScopeCodes(v, t, implementation) ELSE {})
         \cup DeliveryCodes(v, t, implementation)

\* Evidence of an approval is bound to the repository's pull request, to its
\* exact head and to the ticket the change resolves to.
ApprovalCodes(v, t) ==
  LET bound == {e \in v.evidence : e.head = v.head} IN
  IF ~v.enforce THEN {}
  ELSE IF bound = {}
       THEN {"GOV-APPROVAL-001", "GOV-APPROVAL-002"} \cup When("GOV-APPROVAL-004", v.evidence # {})
       ELSE When("GOV-APPROVAL-002", \A e \in bound : e.ticket # t)

CheckChangeGate(v) ==
  LET implementation == Implementation(v) t == Selected(v) IN
  IF implementation = {}
  THEN When("GOV-MATERIAL-001", Changed(v) /\ v.adopted = {})
  ELSE IF Candidates(v) = {} THEN {"GOV-TICKET-001"}
  ELSE IF t = NoTicket THEN {"GOV-TICKET-005"}
  ELSE SelectedCodes(v, t, implementation) \cup ApprovalCodes(v, t)

\* run_governance_checks: every check is made, the findings are collected.
Findings(v) == CheckCoordination(v) \cup CheckChangeGate(v)
==============================================================================
