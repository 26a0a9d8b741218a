---------------------------- MODULE ChangeEvaluation --------------------------
(***************************************************************************)
(* scripts/runtime.sh validate: whether the evaluation of a change allows    *)
(* its merge.  Commits are pushed, the main line moves on, the contract is   *)
(* edited and reviews are given while a producer (external) writes a report   *)
(* of some moment, which is validated at a later one.                         *)
(*                                                                           *)
(* A head is its base and the commits on top; a digest is what it is taken     *)
(* of; the contract stands for the intent with its version, the policy and      *)
(* the manifest lock, which are bound in the same way.                         *)
(***************************************************************************)
EXTENDS Naturals, Sequences, FiniteSets

CONSTANTS
  People, Files,  \* who commits and reviews, paths of the repository
  MaxPushes,      \* bound: commits of the branch
  MaxEdits,       \* bound: edits of the contract
  MaxMoves,       \* bound: moves of main
  MaxReviews      \* bound

VARIABLES
  mainline,  \* how often main has moved
  branch,    \* the head of the change
  contract,  \* its version, the accepted base and the allowed paths
  reviews,   \* <<reviewer, head>>
  report     \* the evaluation, or NoReport

evaluationVars == <<mainline, branch, contract, reviews, report>>

NoReport == [of |-> "nothing"]

PathsOf(head)   == {head.commits[i].path : i \in DOMAIN head.commits}
AuthorsOf(head) == {head.commits[i].by : i \in DOMAIN head.commits}
Listing(head)   == {SubSeq(head.commits, 1, i) : i \in DOMAIN head.commits}

EvaluationInit ==
  /\ mainline = 0
  /\ branch = [base |-> 0, commits |-> <<>>]
  /\ contract = [version |-> 0, base |-> 0, allowed |-> Files]
  /\ reviews = {} /\ report = NoReport

------------------------------------------------------------------------------
(* What goes on around the validation. *)

Push ==
  /\ Len(branch.commits) < MaxPushes
  /\ \E by \in People, path \in Files :
       branch' = [branch EXCEPT !.commits = Append(@, [by |-> by, path |-> path])]
  /\ UNCHANGED <<mainline, contract, reviews, report>>

MoveMain ==
  /\ mainline < MaxMoves
  /\ mainline' = mainline + 1
  /\ UNCHANGED <<branch, contract, reviews, report>>

Rebase ==
  /\ branch.base # mainline
  /\ branch' = [branch EXCEPT !.base = mainline]
  /\ UNCHANGED <<mainline, contract, reviews, report>>

EditContract ==
  /\ contract.version < MaxEdits
  /\ \E allowed \in SUBSET Files :
       contract' = [version |-> contract.version + 1, base |-> branch.base, allowed |-> allowed]
  /\ UNCHANGED <<mainline, branch, reviews, report>>

Review ==
  /\ branch.commits # <<>> /\ Cardinality(reviews) < MaxReviews
  /\ \E by \in People : reviews' = reviews \cup {<<by, branch>>}
  /\ UNCHANGED <<mainline, branch, contract, report>>

------------------------------------------------------------------------------
(* The report of a moment.  Its statuses are what the producer came to; one     *)
(* of the rest may be wrong: taken from before, left out, or made to fit.       *)

Passing ==
  [tests |-> "PASS", gate |-> "PASS", dimension |-> "PASS", criterion |-> "SATISFIED",
   finding |-> "none", approved |-> TRUE, merge |-> "ALLOWED", completion |-> "ACCEPTED"]

AllStatuses ==
  [tests : {"PASS", "FAILED", "NOT_APPLICABLE", "missing"}, gate : {"PASS", "WAITING"},
   dimension : {"PASS", "REVIEW_REQUIRED", "INSUFFICIENT_EVIDENCE"},
   criterion : {"SATISFIED", "unevidenced", "PARTIAL", "NOT_APPLICABLE", "missing"},
   finding : {"none", "REVIEW_REQUIRED", "BLOCKING"}, approved : BOOLEAN,
   merge : {"ALLOWED", "REVIEW_REQUIRED"}, completion : {"ACCEPTED", "CANDIDATE"}]

\* Bound: beside the verdict, at most one is not what it is for a change that passes.
Statuses ==
  {s \in AllStatuses : Cardinality({k \in DOMAIN s \ {"merge"} : s[k] # Passing[k]}) <= 1}

\* subject, contract hash, change set, actors and approval as they are; the approval is of
\* some review, with the digest of its actor and the head.
Faithful(review) ==
  [of |-> "change", head |-> branch, mergeBase |-> branch.base, contract |-> contract.version,
   paths |-> PathsOf(branch), commits |-> Listing(branch), authors |-> AuthorsOf(branch),
   actor |-> review[1], approvalHead |-> review[2],
   scope |-> <<review[1], branch>>, status |-> Passing]

\* Bound: one report in a behaviour; each is validated by itself.
Produce ==
  /\ report = NoReport
  /\ \E review \in reviews :
       LET r == Faithful(review) IN
       \/ report' = r
       \/ \E s \in Statuses : report' = [r EXCEPT !.status = s]
       \/ \E p \in PathsOf(branch) : report' = [r EXCEPT !.paths = @ \ {p}]
       \/ \E c \in Listing(branch) : report' = [r EXCEPT !.commits = @ \ {c}]
       \/ \E b \in 0..MaxMoves : report' = [r EXCEPT !.mergeBase = b]
       \/ report' = [r EXCEPT !.approvalHead = branch, !.scope = review]
  /\ UNCHANGED <<mainline, branch, contract, reviews>>

------------------------------------------------------------------------------
(* validateEvaluation *)

\* expectedVerdict: one blocking status is enough.
ExpectedVerdict(s) ==
  IF \/ s.tests = "FAILED" \/ s.gate = "WAITING" \/ s.dimension = "INSUFFICIENT_EVIDENCE"
     \/ s.criterion = "PARTIAL" \/ s.finding = "BLOCKING" \/ ~s.approved
  THEN "BLOCKED"
  ELSE IF "REVIEW_REQUIRED" \in {s.dimension, s.finding} THEN "REVIEW_REQUIRED" ELSE "ALLOWED"

ExpectedCompletion(s) ==
  IF s.criterion \notin {"SATISFIED", "unevidenced", "NOT_APPLICABLE", "missing"} THEN "NOT_DONE"
  ELSE CASE ExpectedVerdict(s) = "ALLOWED" -> "ACCEPTED"
         [] ExpectedVerdict(s) = "REVIEW_REQUIRED" -> "CANDIDATE"
         [] OTHER -> "NOT_DONE"

\* Every criterion, gate and dimension has a status, with evidence for a satisfied one, and
\* the declared verdict and completion are the expected ones.
StatusesHold(s) ==
  /\ s.criterion \notin {"missing", "unevidenced"} /\ s.tests # "missing"
  /\ s.approved <=> s.gate = "PASS"
  /\ s.merge = ExpectedVerdict(s) /\ s.completion = ExpectedCompletion(s)

\* subject and contract: the intent as it is now, and the base it accepts.
BindingHolds(r) == r.contract = contract.version /\ r.head.base = contract.base

\* The change set: allowed as declared, and declared as Git has it when a repository is given.
InScope(r, root) ==
  /\ r.paths \subseteq contract.allowed
  /\ root => /\ r.mergeBase = r.head.base
             /\ r.paths = PathsOf(r.head) /\ r.commits = Listing(r.head)

\* Mutant: the head of the approval is taken from its digest only.
ApprovalFitsByDigest(r) ==
  r.status.approved => r.scope = <<r.actor, r.head>> /\ r.actor \notin r.authors

\* A verified approval: of this head, by its actor, who is no author.
ApprovalFits(r) ==
  r.status.approved =>
    /\ r.approvalHead = r.head /\ r.scope = <<r.actor, r.head>>
    /\ r.actor \notin r.authors

\* The exit status of validate, with or without --repository-root.
MergeAllowed(root) ==
  /\ report # NoReport
  /\ BindingHolds(report) /\ InScope(report, root) /\ StatusesHold(report.status) /\ ApprovalFits(report)
  /\ report.status.merge = "ALLOWED"

EvaluationNext ==
  Push \/ MoveMain \/ Rebase \/ EditContract \/ Review \/ Produce

------------------------------------------------------------------------------
\* Whenever a report is validated, a merge that is allowed has been reviewed as it is, by
\* somebody who wrote none of it, on the base the contract accepts; with the repository at
\* hand, all it changes is what the contract of the moment allows.
AllowedIsBacked ==
  \A root \in BOOLEAN : MergeAllowed(root) =>
    LET head == report.head IN
    /\ \E by \in People \ AuthorsOf(head) : <<by, head>> \in reviews
    /\ root => PathsOf(head) \subseteq contract.allowed
    /\ head.base = contract.base

\* No status makes up for another: a hard failure of any kind is never allowed, whatever the
\* rest of the report and its verdict say.
NotCompensated ==
  \A root \in BOOLEAN : MergeAllowed(root) =>
    LET s == report.status IN
    /\ s.tests \in {"PASS", "NOT_APPLICABLE"} /\ s.gate = "PASS" /\ s.dimension = "PASS"
    /\ s.criterion \in {"SATISFIED", "NOT_APPLICABLE"} /\ s.finding = "none" /\ s.approved
==============================================================================
