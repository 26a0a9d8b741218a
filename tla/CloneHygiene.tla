----------------------------- MODULE CloneHygiene -----------------------------
(***************************************************************************)
(* The tools that observe and clean a clone, each beside people who work   *)
(* in it: the registry of terminal receipts, the prune of merged worktrees,*)
(* the work-start inspection and the watch loop of the worktree guard.     *)
(* One tool runs in a behaviour; they share nothing but the clone.         *)
(***************************************************************************)
EXTENDS WorkStart, PruneWorktrees

CONSTANTS
  WritersPause,  \* nobody commits in a worktree while a prune is running
  MaxMoves       \* bound: steps of people during one prune, inspection or recording

ASSUME HygieneAssumption == WritersPause \in BOOLEAN /\ MaxMoves \in Nat

VARIABLE moves   \* steps of people since the tool began

tools == <<activity, guard, inspection, pruner>>
vars == <<repository, tools, moves>>

HygieneTypeOK ==
  /\ TypeOK /\ ActivityTypeOK /\ GuardTypeOK /\ InspectionTypeOK /\ PrunerTypeOK

HygieneInit ==
  /\ Init /\ ActivityInit /\ moves = 0
  /\ \E tool \in {"record", "prune", "inspect", "watch"} :
       /\ GuardInit(IF tool = "watch" THEN "asleep" ELSE "off")
       /\ InspectInit(IF tool = "inspect" THEN "start" ELSE "off")
       /\ PruneInit(IF tool = "prune" THEN "start" ELSE "off")

Recording == guard.pc = "off" /\ inspection.pc = "off" /\ pruner.pc = "off"

Begun ==
  \/ inspection.pc \notin {"off", "start"}
  \/ pruner.pc \notin {"off", "start"}
  \/ \E r \in Recorders : recorder[r].pc # "idle"

Work ==
  /\ Developers
  /\ WritersPause /\ Pruning => \A c \in DOMAIN commits' \ Ids : commits'[c].by = 0
  /\ moves' = IF Begun THEN moves + 1 ELSE moves
  /\ moves' <= MaxMoves
  /\ UNCHANGED tools

Tool ==
  \/ Recording /\ Record /\ UNCHANGED <<guard, inspection, pruner>>
  \/ Prune /\ UNCHANGED <<guard, inspection>>
  \/ Inspect /\ UNCHANGED pruner
  \/ Watch /\ UNCHANGED <<inspection, pruner>>

HygieneNext == Work \/ (Tool /\ UNCHANGED moves)

\* The watch loop runs for ever: its process sleeps and wakes up again.
HygieneSpec == HygieneInit /\ [][HygieneNext]_vars
                 /\ WF_vars(Watch /\ UNCHANGED <<inspection, pruner, moves>>)
==============================================================================
