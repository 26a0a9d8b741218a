-------------------------- MODULE BatchApplication --------------------------
(***************************************************************************)
(* tools/apply_repositories.py: the plans of a verified batch are applied  *)
(* one after the other through the Guard bridge, each effect between an    *)
(* attempt marker and a completion receipt; and the read-only observation  *)
(* of tools/inspect_repositories.py beside it.                             *)
(*                                                                         *)
(* An execution is one run of the tool; several may run over one           *)
(* workspace, at the same time or after each other, with the same or with  *)
(* different evidence directories.  URIpack (apply_plan, its exclusive     *)
(* publication and its file writer) is external: publication of a target   *)
(* that exists fails or reports it as already materialized, and a write    *)
(* may fail with or without its file.                                      *)
(***************************************************************************)
EXTENDS Naturals

CONSTANTS
    Executions,     \* runs of apply_repositories.py
    Outputs,        \* evidence directories they are given
    N,              \* repositories of the batch, in the order of the index
    None            \* nobody, nothing

ASSUME BatchAssumption == N \in Nat \ {0} /\ None \notin Executions

Repositories == 1..N

VARIABLES
    out,        \* Executions -> its evidence directory
    pc,         \* Executions -> where it is
    ordinal,    \* Executions -> the repository it is at
    owner,      \* Outputs -> the execution that made the directory, or None
    evidence,   \* Outputs -> files in the directory
    target,     \* Repositories -> status of the target and who published it
    effects,    \* history: publications, <<execution, repository>>
    inspector   \* the inspection: where it is, first inventory, what it saw

batch == <<out, pc, ordinal, owner, evidence, target, effects>>
vars == <<batch, inspector>>

Preflight == {"start", "checking", "opening", "opened"}
Execution == {"attempting", "applying", "published", "extracted", "readback",
              "concluding", "halting"}
Answers == {"blocked", "done", "halted", "unknown"}

Kinds == {"started", "attempt", "completed", "batch", "halted"}
Files == [kind : Kinds, ordinal : 0..N, by : Executions]
File(k, i, e) == [kind |-> k, ordinal |-> i, by |-> e]

Absent == [status |-> "absent", by |-> None]
Targets == [status : {"pending", "extracted"}, by : Executions] \cup {Absent}

Init ==
    /\ out \in [Executions -> Outputs]
    /\ pc = [e \in Executions |-> "start"]
    /\ ordinal = [e \in Executions |-> 1]
    /\ owner = [o \in Outputs |-> None]
    /\ evidence = [o \in Outputs |-> {}]
    /\ target = [r \in Repositories |-> Absent]
    /\ effects = {}
    /\ inspector = [pc |-> "off", before |-> None, seen |-> None]

-----------------------------------------------------------------------------
(***************************************************************************)
(* One execution.                                                          *)
(***************************************************************************)

Goto(e, from, to) == pc[e] = from /\ pc' = [pc EXCEPT ![e] = to]

\* _write: exclusive creation in the evidence directory.
Write(e, k, i) ==
    evidence' = [evidence EXCEPT ![out[e]] = @ \cup {File(k, i, e)}]

\* The write that comes next fails, with or without its file.
FailedWrite(e, k, i) == Write(e, k, i) \/ UNCHANGED evidence

\* The evidence directory is new, the whole batch verifies, every repository
\* has its bridge.
Verify(e) ==
    /\ owner[out[e]] = None
    /\ Goto(e, "start", "checking")
    /\ UNCHANGED <<out, ordinal, owner, evidence, target, effects, inspector>>

\* The plan is the one of the index and its target does not exist; the bridge
\* is constructed.
Check(e) ==
    /\ target[ordinal[e]] = Absent
    /\ IF ordinal[e] < N
       THEN Goto(e, "checking", "checking") /\ ordinal' = [ordinal EXCEPT ![e] = @ + 1]
       ELSE Goto(e, "checking", "opening") /\ ordinal' = [ordinal EXCEPT ![e] = 1]
    /\ UNCHANGED <<out, owner, evidence, target, effects, inspector>>

\* output.mkdir
Open(e) ==
    /\ owner[out[e]] = None
    /\ Goto(e, "opening", "opened")
    /\ owner' = [owner EXCEPT ![out[e]] = e]
    /\ UNCHANGED <<out, ordinal, evidence, target, effects, inspector>>

Started(e) ==
    /\ Goto(e, "opened", "attempting")
    /\ Write(e, "started", 0)
    /\ UNCHANGED <<out, ordinal, owner, target, effects, inspector>>

\* Whatever is wrong before the first attempt: "execution_started": false.
Blocked(e) ==
    /\ pc[e] \in Preflight
    /\ pc' = [pc EXCEPT ![e] = "blocked"]
    /\ IF pc[e] = "opened" THEN FailedWrite(e, "started", 0) ELSE UNCHANGED evidence
    /\ UNCHANGED <<out, ordinal, owner, target, effects, inspector>>

\* Mutant: the marker is left for the end.
AttemptUnmarked(e) ==
    /\ Goto(e, "attempting", "applying")
    /\ UNCHANGED <<out, ordinal, owner, evidence, target, effects, inspector>>

Attempt(e) ==
    /\ Goto(e, "attempting", "applying")
    /\ Write(e, "attempt", ordinal[e])
    /\ UNCHANGED <<out, ordinal, owner, target, effects, inspector>>

\* apply_plan: admitted and checked by the Guard, the target appears as a
\* whole, MATERIALIZED_PENDING_COMPLETION.
Publish(e) ==
    /\ target[ordinal[e]] = Absent
    /\ Goto(e, "applying", "published")
    /\ target' = [target EXCEPT ![ordinal[e]] = [status |-> "pending", by |-> e]]
    /\ effects' = effects \cup {<<e, ordinal[e]>>}
    /\ UNCHANGED <<out, ordinal, owner, evidence, inspector>>

\* apply_plan: the Guard completes, the target's receipt says EXTRACTED.
Finish(e) ==
    /\ Goto(e, "published", "extracted")
    /\ target' = [target EXCEPT ![ordinal[e]].status = "extracted"]
    /\ UNCHANGED <<out, ordinal, owner, evidence, effects, inspector>>

Complete(e) ==
    /\ IF ordinal[e] < N
       THEN Goto(e, "extracted", "attempting") /\ ordinal' = [ordinal EXCEPT ![e] = @ + 1]
       ELSE Goto(e, "extracted", "readback") /\ UNCHANGED ordinal
    /\ Write(e, "completed", ordinal[e])
    /\ UNCHANGED <<out, owner, target, effects, inspector>>

\* verify_repositories(extracted=True): every target is there.
Readback(e) ==
    /\ \A r \in Repositories : target[r] # Absent
    /\ Goto(e, "readback", "concluding")
    /\ UNCHANGED <<out, ordinal, owner, evidence, target, effects, inspector>>

Conclude(e) ==
    /\ Goto(e, "concluding", "done")
    /\ Write(e, "batch", 0)
    /\ UNCHANGED <<out, ordinal, owner, target, effects, inspector>>

\* The step at hand raises: a failing write, a Guard that refuses or does not
\* answer, a target that exists, a readback that differs.
Raises(e) ==
    CASE pc[e] = "attempting" -> FailedWrite(e, "attempt", ordinal[e])
      [] pc[e] = "extracted" -> FailedWrite(e, "completed", ordinal[e])
      [] pc[e] = "concluding" -> FailedWrite(e, "batch", 0)
      [] OTHER -> UNCHANGED evidence

\* The first failure ends the batch.
Halt(e) ==
    /\ pc[e] \in Execution \ {"halting"}
    /\ Raises(e)
    /\ pc' = [pc EXCEPT ![e] = "halting"]
    /\ UNCHANGED <<out, ordinal, owner, target, effects, inspector>>

\* halted.json, or ApplicationOutcomeUnknown when it cannot be written.
Report(e) ==
    /\ \/ Goto(e, "halting", "halted") /\ Write(e, "halted", 0)
       \/ Goto(e, "halting", "unknown") /\ FailedWrite(e, "halted", 0)
    /\ UNCHANGED <<out, ordinal, owner, target, effects, inspector>>

\* Abrupt process loss.
Kill(e) ==
    /\ pc[e] \in Preflight \cup Execution
    /\ pc' = [pc EXCEPT ![e] = "killed"]
    /\ UNCHANGED <<out, ordinal, owner, evidence, target, effects, inspector>>

\* The protected controller resolves the target of an execution that is gone:
\* it completes it or takes it away.
Recover(r) ==
    /\ target[r] # Absent
    /\ pc[target[r].by] \notin Execution
    /\ \/ target' = [target EXCEPT ![r].status = "extracted"]
       \/ target' = [target EXCEPT ![r] = Absent]
    /\ UNCHANGED <<out, pc, ordinal, owner, evidence, effects, inspector>>

-----------------------------------------------------------------------------
(***************************************************************************)
(* The inspection.                                                         *)
(***************************************************************************)

Statuses == {"not_materialized", "inconsistent", "pending", "extracted"}
ASSUME NoneIsNoStatus == None \notin Statuses
Inspectors ==
    [pc : {"off"}, before : {None}, seen : {None}]
    \cup [pc : {"observing", "observed", "requires_reconciliation"},
          before : [Repositories -> Executions \cup {None}],
          seen : [Repositories -> Statuses \cup {None}]]

\* Directory entries with inode and times: who published what is there.
Inventory == [r \in Repositories |-> target[r].by]

Inspect ==
    /\ inspector.pc = "off"
    /\ inspector' = [pc |-> "observing", before |-> Inventory,
                     seen |-> [r \in Repositories |-> None]]
    /\ UNCHANGED batch

\* _target_observation, for one entry of the first inventory.
Observe(r) ==
    /\ inspector.pc = "observing"
    /\ inspector.seen[r] = None
    /\ \A q \in Repositories : q < r => inspector.seen[q] # None
    /\ inspector' = [inspector EXCEPT !.seen[r] =
          CASE inspector.before[r] = None -> "not_materialized"
            [] inspector.before[r] # None /\ target[r] = Absent -> "inconsistent"
            [] OTHER -> target[r].status]
    /\ UNCHANGED batch

\* Mutant: the directory is not read again.
EndInspectionAtOnce ==
    /\ inspector.pc = "observing"
    /\ \A r \in Repositories : inspector.seen[r] # None
    /\ inspector' = [inspector EXCEPT !.pc =
          IF \A r \in Repositories : inspector.seen[r] \in {"not_materialized", "extracted"}
          THEN "observed" ELSE "requires_reconciliation"]
    /\ UNCHANGED batch

EndInspection ==
    /\ inspector.pc = "observing"
    /\ \A r \in Repositories : inspector.seen[r] # None
    /\ inspector' = [inspector EXCEPT !.pc =
          IF /\ inspector.before = Inventory
             /\ \A r \in Repositories : inspector.seen[r] \in {"not_materialized", "extracted"}
          THEN "observed" ELSE "requires_reconciliation"]
    /\ UNCHANGED batch

Next ==
    \/ \E e \in Executions :
          \/ Verify(e) \/ Check(e) \/ Open(e) \/ Started(e) \/ Blocked(e)
          \/ Attempt(e) \/ Publish(e) \/ Finish(e) \/ Complete(e)
          \/ Readback(e) \/ Conclude(e)
          \/ Halt(e) \/ Report(e) \/ Kill(e)
    \/ \E r \in Repositories : Recover(r) \/ Observe(r)
    \/ Inspect \/ EndInspection

Spec == Init /\ [][Next]_vars

-----------------------------------------------------------------------------
(***************************************************************************)
(* Properties.                                                             *)
(***************************************************************************)

\* Types of all variables.
TypeOK ==
    /\ out \in [Executions -> Outputs]
    /\ pc \in [Executions -> Preflight \cup Execution \cup Answers \cup {"killed"}]
    /\ ordinal \in [Executions -> Repositories]
    /\ owner \in [Outputs -> Executions \cup {None}]
    /\ evidence \in [Outputs -> SUBSET Files]
    /\ target \in [Repositories -> Targets]
    /\ effects \subseteq Executions \X Repositories
    /\ inspector \in Inspectors

Has(e, k, i) == File(k, i, e) \in evidence[out[e]]

\* uripack-integration.md: "An attempt marker without a completion record also
\* survives abrupt process loss": the evidence of an execution names every
\* repository it has touched, and leaves at most the last of them in doubt.
EffectsAreEvidenced ==
    \A e \in Executions, r \in Repositories : <<e, r>> \in effects =>
        /\ Has(e, "attempt", r)
        /\ Has(e, "completed", r) \/ \A q \in Repositories : q > r => ~Has(e, "attempt", q)

\* A completion receipt is about an extraction of this execution, never about
\* a target that was already there.
CompletedMeansExtracted ==
    \A e \in Executions, r \in Repositories :
        Has(e, "completed", r) => <<e, r>> \in effects

\* "it never labels that failure as an unstarted preflight".
BlockedHasNoEffect ==
    \A e \in Executions : pc[e] = "blocked" =>
        \A r \in Repositories : <<e, r>> \notin effects /\ ~Has(e, "attempt", r)

\* batch-extraction.json is there only after every repository was extracted by
\* the same execution.
SuccessIsComplete ==
    \A e \in Executions : Has(e, "batch", 0) =>
        \A r \in Repositories : <<e, r>> \in effects /\ Has(e, "completed", r)

\* "The first failure stops subsequent packages": no attempt before all the
\* earlier ones are completed.
FirstFailureStops ==
    \A e \in Executions, q, r \in Repositories :
        q < r /\ Has(e, "attempt", r) => Has(e, "completed", q)

\* The files of an evidence directory are of one execution.
EvidenceIsOwned ==
    \A o \in Outputs : \A f \in evidence[o] : f.by = owner[o]

\* What an execution leaves behind tells how far it came: the six promises above
\* together, at every moment and after every kill.
BatchIsSound ==
    /\ EffectsAreEvidenced
    /\ CompletedMeansExtracted
    /\ BlockedHasNoEffect
    /\ SuccessIsComplete
    /\ FirstFailureStops
    /\ EvidenceIsOwned

\* An inspection that reports no need of reconciliation is right at its end
\* about every target, although publications, completions and recoveries went
\* on beside it.
ObservationHolds ==
    [][inspector.pc = "observing" /\ inspector'.pc = "observed" =>
         \A r \in Repositories :
            /\ inspector.seen[r] = "not_materialized" => target[r] = Absent
            /\ inspector.seen[r] = "extracted" => target[r].status = "extracted"]_vars
=============================================================================
