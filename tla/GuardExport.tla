------------------------------ MODULE GuardExport -----------------------------
(***************************************************************************)
(* tools/guard_export.py: invocations that have the Guard run one admitted  *)
(* export (execute), or only collect its result (fetch), and publish the     *)
(* bundle at a target.  The operator starts them with the same plan, again   *)
(* after one that was killed or did not hear the answer, or side by side.     *)
(*                                                                           *)
(* The Guard is external: it answers what its contract says, or something     *)
(* that does not fit the digests it is asked with, or nothing.                *)
(***************************************************************************)
EXTENDS FiniteSets

CONSTANTS
  Exporters,   \* invocations
  Evidences,   \* files given with --out
  Bundle,      \* files of the export, its provenance and receipt among them
  Free,        \* nothing is there
  Other        \* whoever else writes to the target or an evidence file

ASSUME ExportAssumption ==
  /\ Evidences # {} /\ Bundle # {} /\ IsFiniteSet(Bundle)
  /\ Free # Other /\ {Free, Other} \cap Exporters = {}

VARIABLES
  guard,      \* the Guard: its contract is the pinned one, the grant is unused, the receipt
  target,     \* who made the directory at the target, and its files
  evidence,   \* who made each evidence file, and whether it is written
  exporter    \* the invocations

exportVars == <<guard, target, evidence, exporter>>

ExportWaiting ==
  {"begin", "look", "bind", "start", "receipt", "download", "stage", "publish", "report", "write"}
ExportEnded == {"materialized", "blocked", "killed"}

Made == [by : Exporters \cup {Free, Other}, files : SUBSET Bundle]

ExportTypeOK ==
  /\ guard \in [pinned : BOOLEAN, granted : BOOLEAN, receipt : {"none", "unknown", "verified", "failed"}]
  /\ target \in Made
  /\ evidence \in [Evidences -> [by : Exporters \cup {Free, Other}, written : BOOLEAN]]
  /\ exporter \in [Exporters -> [pc : ExportWaiting \cup ExportEnded, executes : BOOLEAN,
                                 started : BOOLEAN, out : Evidences, staged : SUBSET Bundle]]

ExportInit ==
  /\ guard = [pinned |-> TRUE, granted |-> TRUE, receipt |-> "none"]
  /\ target = [by |-> Free, files |-> {}]
  /\ evidence = [o \in Evidences |-> [by |-> Free, written |-> FALSE]]
  /\ exporter = [x \in Exporters |-> [pc |-> "begin", executes |-> FALSE, started |-> FALSE,
                                      out |-> CHOOSE o \in Evidences : TRUE, staged |-> {}]]
------------------------------------------------------------------------------
Stands(x, pc) == exporter[x].pc = pc
Moves(x, pc)  == exporter' = [exporter EXCEPT ![x].pc = pc]

\* main: started with execute or fetch, and an evidence file that must not be there.
BeginExport(x) ==
  /\ Stands(x, "begin")
  /\ \E executes \in BOOLEAN, o \in Evidences :
       exporter' = [exporter EXCEPT ![x] = [@ EXCEPT !.executes = executes, !.out = o, !.pc =
                      IF evidence[o].by # Free THEN "blocked" ELSE IF executes THEN "look" ELSE "bind"]]
  /\ UNCHANGED <<guard, target, evidence>>

\* execute: the target must be free before anything is asked of the Guard.
LookFor(x) ==
  /\ Stands(x, "look")
  /\ Moves(x, IF target.by = Free THEN "bind" ELSE "blocked")
  /\ UNCHANGED <<guard, target, evidence>>

\* discover and bound_plan: the contract and the plan are the pinned ones, and the input of
\* the plan is this export; an answer that differs in any of them ends the invocation.
Bind(x) ==
  /\ Stands(x, "bind")
  /\ \/ guard.pinned /\ Moves(x, IF exporter[x].executes /\ ~exporter[x].started
                                 THEN "start" ELSE "receipt")
     \/ Moves(x, "blocked")
  /\ UNCHANGED <<guard, target, evidence>>

\* execution.start, once. The Guard consumes the grant and has run the export, or not, or does
\* not know; its answer is ok for a verified run, and may be lost as the request may.
Start(x) ==
  /\ Stands(x, "start")
  /\ \/ /\ guard.granted
        /\ \E r \in {"verified", "failed", "unknown"} :
             /\ guard' = [guard EXCEPT !.granted = FALSE, !.receipt = r]
             /\ \/ r = "verified"
                   /\ exporter' = [exporter EXCEPT ![x].pc = "bind", ![x].started = TRUE]
                \/ Moves(x, "blocked")
     \/ UNCHANGED guard /\ Moves(x, "blocked")
  /\ UNCHANGED <<target, evidence>>

\* receipt.get: verified, and bound to the plan; or there is none, or the answer is lost.
ReadReceipt(x) ==
  /\ Stands(x, "receipt")
  /\ \/ guard.receipt = "verified" /\ Moves(x, "download")
     \/ Moves(x, "blocked")
  /\ UNCHANGED <<guard, target, evidence>>

\* The artifact of the receipt, verify_bundle, and the target once more.
Download(x) ==
  /\ Stands(x, "download")
  /\ \/ target.by = Free /\ Moves(x, "stage")
     \/ Moves(x, "blocked")
  /\ UNCHANGED <<guard, target, evidence>>

\* Mutant: the files are written in place.
StageInPlace(x) ==
  /\ Stands(x, "stage")
  /\ \E f \in Bundle \ target.files :
       /\ target' = [by |-> x, files |-> target.files \cup {f}]
       /\ Moves(x, IF target'.files = Bundle THEN "report" ELSE "stage")
  /\ UNCHANGED <<guard, evidence>>

\* A temporary directory beside the target takes one file after the other; it goes when a
\* write or the reading back fails.
StageBundle(x) ==
  /\ Stands(x, "stage")
  /\ \/ \E f \in Bundle \ exporter[x].staged :
          exporter' = [exporter EXCEPT ![x].staged = @ \cup {f}]
     \/ exporter[x].staged = Bundle /\ Moves(x, "publish")
     \/ exporter' = [exporter EXCEPT ![x].pc = "blocked", ![x].staged = {}]
  /\ UNCHANGED <<guard, target, evidence>>

\* Mutant: a rename that takes the place of what is at the target.
PublishOver(x) ==
  /\ Stands(x, "publish")
  /\ target' = [by |-> x, files |-> exporter[x].staged]
  /\ exporter' = [exporter EXCEPT ![x].pc = "report", ![x].staged = {}]
  /\ UNCHANGED <<guard, evidence>>

\* _publish_no_replace: one rename that fails when there is something at the target.
Publish(x) ==
  /\ Stands(x, "publish")
  /\ \/ /\ target.by = Free
        /\ target' = [by |-> x, files |-> exporter[x].staged]
        /\ exporter' = [exporter EXCEPT ![x].pc = "report", ![x].staged = {}]
     \/ /\ UNCHANGED target
        /\ exporter' = [exporter EXCEPT ![x].pc = "blocked", ![x].staged = {}]
  /\ UNCHANGED <<guard, evidence>>

\* open("x") of the evidence, which blocks when it has appeared; then it is written.
Report(x) ==
  /\ Stands(x, "report")
  /\ LET o == exporter[x].out IN
     IF evidence[o].by = Free
     THEN evidence' = [evidence EXCEPT ![o].by = x] /\ Moves(x, "write")
     ELSE UNCHANGED evidence /\ Moves(x, "blocked")
  /\ UNCHANGED <<guard, target>>

Write(x) ==
  /\ Stands(x, "write")
  /\ evidence' = [evidence EXCEPT ![exporter[x].out].written = TRUE]
  /\ Moves(x, "materialized")
  /\ UNCHANGED <<guard, target>>

\* A kill at any point; the temporary directory stays behind.
KillExport(x) ==
  /\ exporter[x].pc \notin ExportEnded
  /\ Moves(x, "killed")
  /\ UNCHANGED <<guard, target, evidence>>

------------------------------------------------------------------------------
\* The Guard finds out about a run it did not know of; it is replaced by another version.
Recover ==
  /\ guard.receipt = "unknown"
  /\ \E r \in {"verified", "failed"} : guard' = [guard EXCEPT !.receipt = r]
  /\ UNCHANGED <<target, evidence, exporter>>

Upgrade ==
  /\ guard.pinned
  /\ guard' = [guard EXCEPT !.pinned = FALSE]
  /\ UNCHANGED <<target, evidence, exporter>>

\* Something else appears at the target or where the evidence was to go.
Appear ==
  /\ \/ /\ target.by = Free
        /\ target' = [target EXCEPT !.by = Other]
        /\ UNCHANGED evidence
     \/ \E o \in Evidences :
          /\ evidence[o].by = Free
          /\ evidence' = [evidence EXCEPT ![o] = [by |-> Other, written |-> TRUE]]
          /\ UNCHANGED target
  /\ UNCHANGED <<guard, exporter>>

ExportStep(x) ==
  \/ BeginExport(x) \/ LookFor(x) \/ Bind(x) \/ Start(x) \/ ReadReceipt(x)
  \/ Download(x) \/ StageBundle(x) \/ Publish(x) \/ Report(x) \/ Write(x)

ExportNext == Recover \/ Upgrade \/ Appear \/ \E x \in Exporters : ExportStep(x) \/ KillExport(x)

ExportSpec == ExportInit /\ [][ExportNext]_exportVars

------------------------------------------------------------------------------
\* What an invocation puts at the target is there as a whole, at any moment and after a kill,
\* and only after the Guard has verified the run (execute and fetch, guard_export.py).
ExportIsVerified ==
  target.by \in Exporters => target.files = Bundle /\ guard.receipt = "verified"

\* The answer fits what was done: one that reports a materialized export made the target,
\* which nobody replaced, and its evidence; one that is blocked after it made the target was
\* kept from its evidence by somebody else's.
AnswerFits ==
  \A x \in Exporters :
    LET by == evidence[exporter[x].out].by IN
    /\ Stands(x, "materialized") => target.by = x /\ by = x /\ evidence[exporter[x].out].written
    /\ Stands(x, "blocked") /\ target.by = x => by \notin {x, Free}
==============================================================================
