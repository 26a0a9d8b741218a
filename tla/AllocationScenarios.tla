------------------------- MODULE AllocationScenarios ------------------------
(***************************************************************************)
(* Ticket allocation in two clones: one whose processes are never killed,  *)
(* with several worktrees and an external allocator for some of them; and  *)
(* one where every allocator may be killed at any step and what it leaves, *)
(* its lock directory included, is cleaned up by hand.  A behaviour is of  *)
(* one of them.  The constants are those of the first.                     *)
(***************************************************************************)
EXTENDS TicketAllocation

CONSTANTS CrashWorktrees   \* the worktrees of the second clone

VARIABLES scenario

Killed == INSTANCE TicketAllocation
            WITH Faults <- {"crash"}, Worktrees <- CrashWorktrees, Registered <- {}, Receipts <- {}

ScenariosInit ==
    \/ scenario = "local" /\ Init
    \/ scenario = "killed" /\ Killed!Init

RunLocal == scenario = "local" /\ Next /\ UNCHANGED scenario
RunKilled == scenario = "killed" /\ Killed!Next /\ UNCHANGED scenario

ScenariosNext == RunLocal \/ RunKilled

ScenariosSpec == ScenariosInit /\ [][ScenariosNext]_<<scenario, vars>>

-----------------------------------------------------------------------------
\* What an allocation leaves: without kills, an audit that finds nothing between two of them,
\* exactly the ticket that was answered with, nothing after a refusal, and no number twice;
\* with kills, still no row of the database outside the reservation.
AllocationIsSound ==
    /\ scenario = "local" => /\ AuditClean
                             /\ SuccessIsReserved
                             /\ RefusalLeavesNothing
                             /\ NumbersNeverReused
    /\ scenario = "killed" => RowsAreReserved

\* Without kills the allocation implements the abstract numbering.
LocalNumbering == INSTANCE TicketNumbering
                    WITH Makers <- Allocators, issued <- IF scenario = "local" THEN issued ELSE {}
ImplementsLocalNumbering == LocalNumbering!Spec
=============================================================================
