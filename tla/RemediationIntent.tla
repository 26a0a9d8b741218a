--------------------------- MODULE RemediationIntent --------------------------
(***************************************************************************)
(* .governance/remediation_intent.py: the document that says which findings   *)
(* are repaired by which actions in which order, its projection into a task    *)
(* and a TODO file, and the overlay that todo2code's plans are analysed into.   *)
(* People and agents edit the document between the steps of the tool; the tool *)
(* writes its files one after the other and may be killed between them.         *)
(*                                                                           *)
(* Every criterion is the one of its finding.  A path is a file, and a         *)
(* pattern of the scope is the set of files it matches.                        *)
(***************************************************************************)
EXTENDS DependencyOrder

CONSTANTS
  Findings, Actions,   \* what was diagnosed, and what is done about it
  Checks,              \* the verifications
  Files, Unresolved,   \* repository paths, and the mark of one still to be found
  Template,            \* the document that is filled in
  Absent,              \* no file, no document, no analysis
  MaxEdits, MaxRuns    \* bounds: edits of the document, runs of the tool

VARIABLES
  doc,     \* the intent, with the overlay in doc.analysis
  out,     \* the task and TODO files: the intent they were rendered from
  plans,   \* what todo2code last proposed, from which projection, or Absent
  tool,    \* the run of the tool at work, with the document it read
  spent    \* edits and runs so far

intentVars == <<doc, out, plans, tool, spent>>

Operations == {"IMPLEMENT", "RELEASE", "PRESERVE"}
Categories == {"OTHER", "STATE_RISK"}
Idle == [op |-> "idle", doc |-> Absent, phase |-> "done"]

\* The parts of a document, with one of the given overlays or Absent.
Documents(overlays) ==
  [status : {"DRAFT", "READY", "ANALYZED"}, owner : {Template.owner, Unresolved},
   allowed : SUBSET (Files \cup {Unresolved}), forbidden : SUBSET Files, preserve : SUBSET Files,
   findings : [Findings -> [category : Categories, pressing : BOOLEAN, deferred : BOOLEAN,
                            path : Files \cup {Unresolved}]],
   actions : [Actions -> [repairs : SUBSET Findings, operation : Operations,
                          depends : SUBSET Actions, checks : SUBSET Checks,
                          path : Files \cup {Unresolved}, destructive : BOOLEAN,
                          human : BOOLEAN, automated : BOOLEAN]],
   checks : [Checks -> [deterministic : BOOLEAN, covers : SUBSET (Findings \cup Actions)]],
   criteria : [Findings -> SUBSET Checks], order : Seq(Actions), analysis : overlays]

RemediationAssumption ==
  /\ MaxEdits \in Nat /\ MaxRuns \in Nat /\ Unresolved \notin Files
  /\ IsFiniteSet(Actions) /\ Findings # {}
  /\ Template \in Documents({Absent}) /\ Template.status \in {"DRAFT", "READY"}

------------------------------------------------------------------------------
(* validate_document: the rules, each over one part of the document.  The      *)
(* forms of fields, identifiers and digests are taken for right.               *)

Active(d) == {f \in Findings : ~d.findings[f].deferred}
DependsOn(d) == [a \in Actions |-> SetToSeq(d.actions[a].depends)]
Selected(d, a) == d.actions[a].checks
CoveredByChecks(d, chosen) == UNION {d.checks[c].covers : c \in chosen}

\* _validate_action_paths, _validate_finding_paths: in the scope, or still to be found.
FindingPathsHold(d) ==
  \A f \in Findings : d.findings[f].path \in (d.allowed \ d.forbidden) \cup {Unresolved}
ActionPathsHold(d) ==
  \A a \in Actions : d.actions[a].path \in (d.allowed \ d.forbidden) \cup {Unresolved}

\* _validate_action_verifications: by deterministic checks, which cover the action and
\* every finding it is for.
ActionsAreVerified(d) ==
  \A a \in Actions :
    /\ Selected(d, a) # {} /\ \A c \in Selected(d, a) : d.checks[c].deterministic
    /\ d.actions[a].repairs # {}
    /\ d.actions[a].repairs \cup {a} \subseteq CoveredByChecks(d, Selected(d, a))

\* _validate_action_risk, and PRESERVE of what the scope preserves.
RiskIsBounded(d) ==
  \A a \in Actions : LET x == d.actions[a] IN
    /\ x.destructive => x.human /\ ~x.automated
    /\ (\E f \in x.repairs : d.findings[f].category = "STATE_RISK")
         => x.operation = "PRESERVE" /\ ~x.automated /\ ~x.destructive
    /\ x.operation = "PRESERVE" /\ d.preserve # {} => x.path \in d.preserve

\* _validate_action_dependencies: a release waits for what repairs a pressing finding.
Blocking(d) ==
  {a \in Actions : /\ d.actions[a].operation # "RELEASE"
                   /\ \E f \in d.actions[a].repairs \cap Active(d) : d.findings[f].pressing}

ReleasesWait(d) ==
  /\ Cycles(DependsOn(d), SetToSeq(Actions)) = <<>>
  /\ \A r \in Actions : d.actions[r].operation = "RELEASE" =>
       Blocking(d) \subseteq Reaches(DependsOn(d), r)

\* _validate_planning_guidance: every action once, after what it depends on.
\* Mutant: every action once.
OrderIsComplete(d) == ToSet(d.order) = Actions /\ Len(d.order) = Cardinality(Actions)

OrderHolds(d) ==
  /\ ToSet(d.order) = Actions /\ Len(d.order) = Cardinality(Actions)
  /\ \A i \in 1..Len(d.order) :
       d.actions[d.order[i]].depends \subseteq {d.order[j] : j \in 1..i-1}

\* _validate_finding_criteria and the criteria's own verifications.
CriteriaHold(d) == \A f \in Findings : f \in CoveredByChecks(d, d.criteria[f])

\* Every active finding is resolved by some action.
ActiveIsActedOn(d) == \A f \in Active(d) : \E a \in Actions : f \in d.actions[a].repairs

\* _validate_unresolved_paths: only a draft may leave anything open.
Resolved(d) ==
  d.status # "DRAFT" =>
    /\ d.owner # Unresolved /\ Unresolved \notin d.allowed
    /\ \A f \in Findings : d.findings[f].path # Unresolved
    /\ \A a \in Actions : d.actions[a].path # Unresolved

\* intent_projection: what the digest is of.  The overlay is not in it, and a document
\* that has one counts as ready.
Projection(d) ==
  [d EXCEPT !.analysis = Absent, !.status = IF @ = "ANALYZED" THEN "READY" ELSE @]

\* _validate_analysis: an overlay is of this very projection.
\* Mutant: the digest is of the actions alone.
AnalysisFitsByActions(d) ==
  /\ d.status = "ANALYZED" => d.analysis # Absent
  /\ d.analysis # Absent => d.analysis.intent.actions = d.actions

AnalysisFits(d) ==
  /\ d.status = "ANALYZED" => d.analysis # Absent
  /\ d.analysis # Absent => d.analysis.intent = Projection(d)

Accepted(d) ==
  /\ FindingPathsHold(d) /\ ActionPathsHold(d) /\ ActionsAreVerified(d) /\ RiskIsBounded(d) /\ ReleasesWait(d)
  /\ OrderHolds(d) /\ CriteriaHold(d) /\ ActiveIsActedOn(d) /\ Resolved(d) /\ AnalysisFits(d)

------------------------------------------------------------------------------
IntentInit ==
  /\ doc = Template
  /\ out = [task |-> Absent, todo |-> Absent]
  /\ plans = Absent /\ tool = Idle
  /\ spent = [edits |-> 0, runs |-> 0]

Destructive(action, human, automated) ==
  [action EXCEPT !.destructive = TRUE, !.human = human, !.automated = automated]

\* One part of the document is changed by hand; the overlay stays where it is.
Changed(d) ==
  {[d EXCEPT !.status = s] : s \in {"DRAFT", "READY"}}
    \cup {[d EXCEPT !.order = o] : o \in SetToSeqs(Actions)}
    \cup {[d EXCEPT !.allowed = s] : s \in (SUBSET Files) \ {{}}}
    \cup {[d EXCEPT !.findings[f].deferred = ~@] : f \in Findings}
    \cup {[d EXCEPT !.findings[f].category = c] : f \in Findings, c \in Categories}
    \cup {[d EXCEPT !.findings[f].path = p] : f \in Findings, p \in Files \cup {Unresolved}}
    \cup {[d EXCEPT !.actions[a].path = p] : a \in Actions, p \in Files}
    \cup {[d EXCEPT !.actions[a].depends = s] : a \in Actions, s \in SUBSET Actions}
    \cup {[d EXCEPT !.actions[a].operation = o] : a \in Actions, o \in Operations}
    \cup {[d EXCEPT !.actions[a] = Destructive(@, h, m)] : a \in Actions, h, m \in BOOLEAN}

Edit ==
  /\ spent.edits < MaxEdits
  /\ \E d \in Changed(doc) \ {doc} : doc' = d
  /\ spent' = [spent EXCEPT !.edits = @ + 1]
  /\ UNCHANGED <<out, plans, tool>>

\* The overlay is thrown away (the advice for one that is stale).
Discard ==
  /\ doc.analysis # Absent
  /\ doc' = Projection(doc)
  /\ UNCHANGED <<out, plans, tool, spent>>

------------------------------------------------------------------------------
\* A command of the tool reads the document; a draft, or one that breaks a rule, is refused.
Begin(op) ==
  /\ tool.op = "idle" /\ spent.runs < MaxRuns
  /\ doc.status # "DRAFT" /\ Accepted(doc)
  /\ tool' = [op |-> op, doc |-> doc, phase |-> "read"]
  /\ spent' = [spent EXCEPT !.runs = @ + 1]
  /\ UNCHANGED <<doc, out, plans>>

\* _write_todo2code_projection: the task file, then the TODO file, each replaced whole.
WriteTask ==
  /\ tool.op = "render" /\ tool.phase = "read"
  /\ out' = [out EXCEPT !.task = Projection(tool.doc)]
  /\ tool' = [tool EXCEPT !.phase = "task"]
  /\ UNCHANGED <<doc, plans, spent>>

WriteTodo ==
  /\ tool.op = "render" /\ tool.phase = "task"
  /\ out' = [out EXCEPT !.todo = Projection(tool.doc)]
  /\ tool' = Idle
  /\ UNCHANGED <<doc, plans, spent>>

\* verify_todo2code: both files have the bytes the intent renders to.
Verified(d) == out.task = Projection(d) /\ out.todo = Projection(d)

\* todo2code (external) reads both files, once they are verified, and proposes a plan.
Propose ==
  /\ Verified(doc) /\ Accepted(doc) /\ doc.status # "DRAFT"
  /\ \E file \in Files, deletes, conflicts \in BOOLEAN :
       plans' = [path |-> file, deletes |-> deletes, conflicts |-> conflicts, of |-> out.task]
  /\ plans' # plans
  /\ UNCHANGED <<doc, out, tool, spent>>

\* _analyze_plan_scope and _analyze_diagnostics: what blocks.  The gaps and drifts that
\* are only reviewed are left out.
MayDelete(d, file) ==
  \E a \in Actions : /\ d.actions[a].path = file /\ d.actions[a].destructive
                     /\ d.actions[a].human

Blockers(d, plan) ==
  (IF plan.path \notin d.allowed \ d.forbidden THEN {"T2C_SCOPE_EXPANSION"} ELSE {})
    \cup (IF plan.deletes /\ ~MayDelete(d, plan.path) THEN {"T2C_UNAUTHORIZED_DELETION"} ELSE {})
    \cup (IF plan.conflicts THEN {"T2C_CONFLICT"} ELSE {})

\* analyze_todo2code: the overlay is bound to the intent that was read, and the copy that
\* was read is written back with it.
Analyze ==
  /\ tool.op = "analyze" /\ tool.phase = "read"
  /\ IF plans = Absent THEN doc' = doc
     ELSE doc' = [tool.doc EXCEPT !.status = "ANALYZED",
                    !.analysis = [intent |-> Projection(tool.doc), plan |-> plans,
                                  blockers |-> Blockers(tool.doc, plans)]]
  /\ tool' = Idle
  /\ UNCHANGED <<out, plans, spent>>

Kill ==
  /\ tool.op # "idle" /\ tool' = Idle
  /\ UNCHANGED <<doc, out, plans, spent>>

IntentNext ==
  \/ Edit \/ Discard \/ Begin("render") \/ Begin("analyze")
  \/ WriteTask \/ WriteTodo \/ Propose \/ Analyze \/ Kill

------------------------------------------------------------------------------
\* Who follows the order of an accepted intent never comes to a release before every other
\* action on a pressing finding: dependencies, order and status can each be edited apart.
ReleaseComesLast ==
  doc.status # "DRAFT" /\ Accepted(doc) =>
    \A i, j \in 1..Len(doc.order) :
      LET r == doc.actions[doc.order[i]] x == doc.actions[doc.order[j]] IN
      /\ r.operation = "RELEASE" /\ x.operation # "RELEASE"
      /\ \E f \in x.repairs : doc.findings[f].pressing /\ ~doc.findings[f].deferred
      => j < i

\* An accepted overlay with nothing blocking in it proposes only what the intent as it now
\* stands allows, whatever was edited since the analysis.
PlansStayInBounds ==
  doc.analysis # Absent /\ Accepted(doc) /\ doc.analysis.blockers = {} =>
    LET plan == doc.analysis.plan IN
    /\ plan.path \in doc.allowed /\ plan.path \notin doc.forbidden
    /\ plan.deletes => \E a \in Actions : /\ doc.actions[a].path = plan.path
                                          /\ doc.actions[a].human /\ ~doc.actions[a].automated
==============================================================================
