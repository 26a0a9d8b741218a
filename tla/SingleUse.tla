------------------------------- MODULE SingleUse -----------------------------
(***************************************************************************)
(* The four tools of the repository that use up what is good only once:     *)
(* mail under a grant through the approved-recipient connector, an export    *)
(* through the Guard, the authority of a change lease, and a ticket number    *)
(* taken by executions of new-ticket.sh that are interrupted by signals.      *)
(* They share nothing; a behaviour is of one of them.                         *)
(***************************************************************************)
EXTENDS ApprovedEmail, GuardExport, ChangeLease

CONSTANTS Allocators, Worktrees   \* executions of new-ticket.sh and where they run

ASSUME SingleUseAssumption == None \notin Allocators

VARIABLES
  tool,
  numberLock, highWater, dirs, rows, refs, pc, at, storage, highest, num, code, issued

Interrupted == INSTANCE TicketAllocation
                 WITH Faults <- {"signal"}, Storages <- {"files"}, Registered <- {},
                      Receipts <- {}, MergedHighest <- 1, lock <- numberLock

numberVars ==
  <<numberLock, highWater, dirs, rows, refs, pc, at, storage, highest, num, code, issued>>

Tools == {"approved-recipient-email", "guard_export", "change_lease_check", "new-ticket"}

\* The allocation has no state in a behaviour of another tool.
Off == "off"

\* Worktrees are alike, so the one of some execution may be given.
SingleUseInit ==
  /\ tool \in Tools /\ EmailInit /\ ExportInit /\ Init
  /\ IF tool = "new-ticket"
     THEN Interrupted!Init /\ at[CHOOSE a \in Allocators : TRUE] = CHOOSE w \in Worktrees : TRUE
     ELSE /\ numberLock = Off /\ highWater = Off /\ dirs = Off /\ rows = Off /\ refs = Off
          /\ pc = Off /\ at = Off /\ storage = Off /\ highest = Off /\ num = Off
          /\ code = Off /\ issued = Off
  /\ tool # "approved-recipient-email" => readable

EmailRuns ==
  tool = "approved-recipient-email" /\ EmailNext /\ UNCHANGED <<tool, exportVars, vars, numberVars>>
ExportRuns ==
  tool = "guard_export" /\ ExportNext /\ UNCHANGED <<tool, emailVars, vars, numberVars>>
LeaseRuns ==
  tool = "change_lease_check" /\ Next /\ UNCHANGED <<tool, emailVars, exportVars, numberVars>>
AllocationRuns ==
  tool = "new-ticket" /\ Interrupted!Next /\ UNCHANGED <<tool, emailVars, exportVars, vars>>

SingleUseNext == EmailRuns \/ ExportRuns \/ LeaseRuns \/ AllocationRuns

\* As FairEmailSpec, a call goes on as long as its process lives; and as FairSpec of
\* TicketAllocation, so does a script.
SingleUseSpec ==
  /\ SingleUseInit /\ [][SingleUseNext]_<<tool, emailVars, exportVars, vars, numberVars>>
  /\ \A c \in Calls : WF_emailVars(tool = "approved-recipient-email" /\ Step(c))
  /\ \A a \in Allocators : WF_numberVars(tool = "new-ticket" /\ Interrupted!Script(a))
------------------------------------------------------------------------------
\* Every call of the connector ends (CallsEnd of ApprovedEmail).
EmailCallsEnd == tool = "approved-recipient-email" => CallsEnd

\* What is left of an allocation when signals end the lock before the script: one ticket per
\* directory, and nothing of an execution that was refused (new-ticket.sh, lines 381-397).
SignalsAreSafe == tool = "new-ticket" => Interrupted!SignalsAreSafe

\* The allocation lock never stays, whatever exit of the script is taken (new-ticket.sh, the
\* trap of line 386).
LockIsReleased == tool = "new-ticket" => Interrupted!LockIsReleased
==============================================================================
