---------------------------- MODULE StandaloneTools ---------------------------
(***************************************************************************)
(* The tools of the repository that run on their own, over state no other     *)
(* module of this project has: a behaviour is of one of them.  Each keeps its  *)
(* own state machine; here they only get a name, their constants and variables. *)
(***************************************************************************)
EXTENDS BatchApplication

CONSTANTS
  Letters, Patterns, Paths, Nodes, Missing, Prerequisites,    \* Decisions
  Steps, MaxAttempts,                                         \* TicketReadiness
  Tickets, Unnamed,                                           \* TicketCurrency
  Sources,                                                    \* files of a change or an intent
  People, MaxPushes, MaxEdits, MaxMoves, MaxReviews,          \* ChangeEvaluation
  Findings, Actions, Checks, Unresolved, Template, Unset, MaxIntentEdits, MaxRuns,
                                                              \* RemediationIntent
  Members, Blobs, NoBlob, Ignored, BaseTree, SourceTree, MaxCommits, MaxChanges,
                                                              \* SnapshotMigration
  ManagedTargets, Package, Allowlisted, MaxOwnEdits,          \* StandardAdoption
  Calls, Origins, Organization, Default, Nowhere, Signed, Contents, NoContent, Malformed, Embedded,
  MaxUpdates, Inquiries                                       \* TwinMap

VARIABLES
  topic, question,
  work, world, approved, ran,
  tickets, cancelled,
  mainline, branch, contract, reviews, report,
  doc, projection, plans, tool, spent,
  main, side, checkout, intent, grant, uses, changes,
  files, installed, ownEdits, silent,
  heads, catalog, kept, keptEntry, calls, receipts, updates, inquiry, walk

Questions   == INSTANCE Decisions
Readiness   == INSTANCE TicketReadiness
Currency    == INSTANCE TicketCurrency
Evaluation  == INSTANCE ChangeEvaluation WITH Files <- Sources
Remediation == INSTANCE RemediationIntent
                 WITH Files <- Sources, Absent <- Unset, MaxEdits <- MaxIntentEdits, out <- projection
Migration   == INSTANCE SnapshotMigration WITH target <- main
Adoption    == INSTANCE StandardAdoption WITH Targets <- ManagedTargets
Twin        == INSTANCE TwinMap

\* What the modules assume of their constants.
ASSUME ToolsAssumption ==
  /\ Questions!QuestionAssumption
  /\ Remediation!RemediationAssumption /\ Migration!MigrationAssumption
  /\ Adoption!AdoptionAssumption /\ Twin!TwinAssumption

questionsVars   == <<question>>
readinessVars   == <<work, world, approved, ran>>
currencyVars    == <<tickets, cancelled>>
evaluationVars  == <<mainline, branch, contract, reviews, report>>
remediationVars == <<doc, projection, plans, tool, spent>>
migrationVars   == <<main, side, checkout, intent, grant, uses, changes>>
adoptionVars    == <<files, installed, ownEdits, silent>>
twinVars        == <<heads, catalog, kept, keptEntry, calls, receipts, updates, inquiry, walk>>

toolVars == <<topic, questionsVars, readinessVars, currencyVars, evaluationVars, remediationVars,
              migrationVars, adoptionVars, twinVars, vars>>

Topics == {"questions", "readiness", "currency", "evaluation", "remediation", "migration",
           "adoption", "twin", "batch"}

\* The tools of the other topics have no state in a behaviour.
Off == "off"

ToolsInit ==
  /\ topic \in Topics
  /\ IF topic = "questions" THEN Questions!QuestionInit
     ELSE question = Off
  /\ IF topic = "readiness" THEN Readiness!BoardInit
     ELSE work = Off /\ world = Off /\ approved = Off /\ ran = Off
  /\ IF topic = "currency" THEN Currency!CurrencyInit
     ELSE tickets = Off /\ cancelled = Off
  /\ IF topic = "evaluation" THEN Evaluation!EvaluationInit
     ELSE mainline = Off /\ branch = Off /\ contract = Off /\ reviews = Off /\ report = Off
  /\ IF topic = "remediation" THEN Remediation!IntentInit
     ELSE doc = Off /\ projection = Off /\ plans = Off /\ tool = Off /\ spent = Off
  /\ IF topic = "migration" THEN Migration!MigrationInit
     ELSE /\ main = Off /\ side = Off /\ checkout = Off /\ intent = Off
          /\ grant = Off /\ uses = Off /\ changes = Off
  /\ IF topic = "adoption" THEN Adoption!AdoptionInit
     ELSE files = Off /\ installed = Off /\ ownEdits = Off /\ silent = Off
  /\ IF topic = "twin" THEN Twin!TwinInit
     ELSE /\ heads = Off /\ catalog = Off /\ kept = Off /\ keptEntry = Off /\ calls = Off
          /\ receipts = Off /\ updates = Off /\ inquiry = Off /\ walk = Off
  /\ Init
  /\ topic # "batch" => \A e, f \in Executions : out[e] = out[f]

\* Only the tool of the behaviour moves.
ToolsNext ==
  /\ IF topic = "questions" THEN Questions!QuestionNext ELSE UNCHANGED questionsVars
  /\ IF topic = "readiness" THEN Readiness!BoardNext ELSE UNCHANGED readinessVars
  /\ IF topic = "currency" THEN Currency!CurrencyNext ELSE UNCHANGED currencyVars
  /\ IF topic = "evaluation" THEN Evaluation!EvaluationNext ELSE UNCHANGED evaluationVars
  /\ IF topic = "remediation" THEN Remediation!IntentNext ELSE UNCHANGED remediationVars
  /\ IF topic = "migration" THEN Migration!MigrationNext ELSE UNCHANGED migrationVars
  /\ IF topic = "adoption" THEN Adoption!AdoptionNext ELSE UNCHANGED adoptionVars
  /\ IF topic = "twin" THEN Twin!TwinNext ELSE UNCHANGED twinVars
  /\ IF topic = "batch" THEN Next ELSE UNCHANGED vars
  /\ UNCHANGED topic

ToolsSpec == ToolsInit /\ [][ToolsNext]_toolVars

------------------------------------------------------------------------------
\* Scopes with a common path are never taken for disjoint, and a scope that is
\* taken for covered is (governance_check.py, patterns_may_overlap).
PatternsAreSound ==
  topic = "questions" => Questions!OverlapIsSound /\ Questions!CoverageIsSound

\* The three hand-written graph searches find every cycle, and only cycles.
GraphsAreSearched ==
  topic = "questions" => Questions!CyclesAreFound /\ Questions!ProcessesAreOrdered

\* No step that needs a person's approval is run without it (ticketReadinessDecision).
HumansAreAsked ==
  topic = "readiness" => Readiness!HumansAreAsked

\* Approved work that is done never stops the rest of its ticket (a comment of
\* ticket-readiness.mjs says so; the code does otherwise).
ProgressNeverStrands ==
  topic = "readiness" => Readiness!ProgressNeverStrands

\* Work that is cancelled as superseded is still somebody's (ticketCurrencyDecision).
WorkIsNotLost ==
  topic = "currency" => Currency!WorkIsNotLost

\* An evaluation that lets a change be merged rests on approvals of just this
\* change, and no finding is made good by a score (validateEvaluation).
EvaluationHolds ==
  topic = "evaluation" => Evaluation!AllowedIsBacked /\ Evaluation!NotCompensated

\* Plans that are accepted stay within what the intent's owner allowed, and a release comes
\* after every blocking repair in each accepted order.
AcceptedPlansAreSound ==
  topic = "remediation" => Remediation!PlansStayInBounds /\ Remediation!ReleaseComesLast

\* A migration that is proved changes what its grant names and nothing else.
MigrationIsExact ==
  topic = "migration" => Migration!MigrationIsExact

\* A file of the owner is never replaced by the standard without being named.
OwnedIsNamed ==
  topic = "adoption" => Adoption!OwnedIsNamed

\* Whatever is pushed, listed, cached or out of reach: the twin map answers from a document
\* that was signed for its repository, and does not lose one it has had (load_baseline).
BaselinesAreReviewed ==
  topic = "twin" => Twin!ServedIsReviewed /\ Twin!LastKnownGoodIsKept

\* A plan of the twin map can be carried out in its order, and a gap is the deepest one
\* (resolve_intent).
IntentsAreResolved ==
  topic = "twin" => Twin!PlanIsExecutable /\ Twin!GapIsDeepest
==============================================================================
