-------------------------- MODULE TicketAllocation --------------------------
(***************************************************************************)
(* Ticket number allocation by project/new-ticket.sh, for the linked       *)
(* worktrees of one Git clone.                                             *)
(*                                                                         *)
(* An allocator is one execution of the script.  All executions share the  *)
(* clone's common Git directory: the lock directory made with mkdir, the   *)
(* high-water file and the refs.  Each works in one worktree, where the    *)
(* directories project/ticket-NNN are; with the sqlite storage the ticket  *)
(* is a row of the clone's database instead.                               *)
(*                                                                         *)
(* The environment commits tickets, merges them into other worktrees,      *)
(* removes worktrees and deletes branches; none of that takes the lock.    *)
(* The module also holds the allocation part of the workspace audit        *)
(* (workspace_lifecycle_check.py), which reads the same state.             *)
(***************************************************************************)
EXTENDS Naturals, FiniteSets

CONSTANTS
    Allocators,     \* executions of new-ticket.sh
    Worktrees,      \* linked worktrees of the clone
    Storages,       \* storage modes in use, a subset of {"files", "sqlite"}
    Registered,     \* worktrees whose configuration takes the numbers from receipts
                    \* of an external allocator
    Receipts,       \* numbers a valid receipt may carry
    MergedHighest,  \* highest ticket on the default branch when the clone was made
    Faults,         \* a subset of {"crash", "signal"}
    None            \* no allocator

ASSUME AllocationAssumption ==
    /\ Storages \subseteq {"files", "sqlite"}
    /\ Registered \subseteq Worktrees
    /\ Receipts \subseteq Nat \ {0}
    /\ MergedHighest \in Nat
    /\ Faults \subseteq {"crash", "signal"}
    /\ None \notin Allocators

VARIABLES
    lock,       \* the allocator whose mkdir made the lock directory, or None
    highWater,  \* number in the high-water file; 0 while the file does not exist
    dirs,       \* Worktrees -> tickets with a directory in that worktree
    rows,       \* tickets in the database
    refs,       \* tickets in the trees of refs/heads and refs/remotes
    pc,         \* Allocators -> where the execution is
    at,         \* Allocators -> the worktree it runs in
    storage,    \* Allocators -> its --storage
    highest,    \* Allocators -> its shell variable "highest"
    num,        \* Allocators -> its shell variable "next_num", 0 before it is set
    code,       \* Allocators -> the exit status it is leaving with
    issued      \* history: every ticket ever created, kept after it is deleted

vars == <<lock, highWater, dirs, rows, refs, pc, at, storage, highest, num,
          code, issued>>
run == <<at, storage>>
store == <<highWater, dirs, rows, refs, issued>>

\* A ticket is its number and its identity: the execution that created it.
\* The identity stands for the intent's (ticket, summary, workstream).
Ticket(n, a) == [number |-> n, by |-> a]
Tickets == [number : Nat, by : Allocators]
NumbersOf(S) == {t.number : t \in S}

\* Where an execution can be.  Between "locked" and "leaving" it believes
\* that it holds the lock.
Critical == {"locked", "admitted", "refsRead", "rowsRead", "stateRead",
             "scanned", "numbered", "made", "reserved", "leaving"}
Ended == {"refused", "exited", "crashed"}

Init ==
    /\ lock = None
    /\ highWater = 0
    /\ dirs = [w \in Worktrees |-> {}]
    /\ rows = {}
    /\ refs = {}
    /\ pc = [a \in Allocators |-> "start"]
    /\ at \in [Allocators -> Worktrees]
    /\ storage \in [Allocators -> Storages]
    /\ highest = [a \in Allocators |-> 0]
    /\ num = [a \in Allocators |-> 0]
    /\ code = [a \in Allocators |-> 0]
    /\ issued = {}

-----------------------------------------------------------------------------
(***************************************************************************)
(* The script.                                                             *)
(***************************************************************************)

Goto(a, from, to) == pc[a] = from /\ pc' = [pc EXCEPT ![a] = to]

\* "exit c" under set -e: the EXIT trap is still to run.
Leave(a, from, c) ==
    /\ Goto(a, from, "leaving")
    /\ code' = [code EXCEPT ![a] = c]

\* Mutant: "mkdir -p", which also succeeds when the lock directory exists.
AcquireAlways(a) ==
    /\ Goto(a, "start", "locked")
    /\ lock' = a
    /\ UNCHANGED <<store, run, highest, num, code>>

\* mkdir of the lock directory; the traps are installed with it.
Acquire(a) ==
    /\ lock = None
    /\ Goto(a, "start", "locked")
    /\ lock' = a
    /\ UNCHANGED <<store, run, highest, num, code>>

\* The lock directory exists: GOV-TICKET-LOCK-001, before any trap is set.
Refuse(a) ==
    /\ lock # None
    /\ Goto(a, "start", "refused")
    /\ code' = [code EXCEPT ![a] = 4]
    /\ UNCHANGED <<lock, store, run, highest, num>>

\* The optional remote refresh fails (4), the work-start check refuses (3),
\* the database cannot be read (1), or there is an active ticket and no
\* --force-new (3): nothing was reserved yet.
NotAdmitted(a) ==
    /\ \/ \E c \in {3, 4} : Leave(a, "locked", c)
       \/ Leave(a, "refsRead", 1)
       \/ Leave(a, "scanned", 3)
    /\ UNCHANGED <<lock, store, run, highest, num>>

Admit(a) ==
    /\ Goto(a, "locked", "admitted")
    /\ UNCHANGED <<lock, store, run, highest, num, code>>

\* h is the greatest of the numbers in S and the highest seen so far.
IsHighest(h, S) == h \in S /\ \A n \in S : n <= h

Scan(a, from, to, seen) ==
    /\ Goto(a, from, to)
    /\ \E h \in seen \cup {highest[a]} :
          /\ IsHighest(h, seen \cup {highest[a]})
          /\ highest' = [highest EXCEPT ![a] = h]
    /\ UNCHANGED <<lock, store, run, num, code>>

\* refs_highest: the trees of every local and fetched branch.
ReadRefs(a) == Scan(a, "admitted", "refsRead", NumbersOf(refs) \cup {MergedHighest})

\* ticket_storage.py highest: the rows of the clone's database.
ReadRows(a) == Scan(a, "refsRead", "rowsRead", NumbersOf(rows))

\* The high-water file.
ReadState(a) == Scan(a, "rowsRead", "stateRead", {highWater})

\* project/ticket-* of this worktree.
ReadDirs(a) == Scan(a, "stateRead", "scanned", NumbersOf(dirs[at[a]]))

\* Mutant: a receipt is believed, whatever is visible in the repository.
NumberUnchecked(a) ==
    /\ Goto(a, "scanned", "numbered")
    /\ IF at[a] \in Registered
       THEN \E r \in Receipts : num' = [num EXCEPT ![a] = r]
       ELSE num' = [num EXCEPT ![a] = highest[a] + 1]
    /\ UNCHANGED <<lock, store, run, highest, code>>

\* The local sequence, or the number of a registered receipt that is above
\* everything visible.
Number(a) ==
    /\ Goto(a, "scanned", "numbered")
    /\ IF at[a] \in Registered
       THEN \E r \in Receipts : r > highest[a] /\ num' = [num EXCEPT ![a] = r]
       ELSE num' = [num EXCEPT ![a] = highest[a] + 1]
    /\ UNCHANGED <<lock, store, run, highest, code>>

\* No key, no receipt, an invalid or expired one, or one whose number is
\* already visible (GOV-TICKET-ALLOCATION-003 and -004).
NoReceipt(a) ==
    /\ at[a] \in Registered
    /\ Leave(a, "scanned", 5)
    /\ UNCHANGED <<lock, store, run, highest, num>>

\* Mutant: "mkdir -p", the existing directory is taken over.
MakeDirectoryAnyway(a) ==
    /\ storage[a] = "files"
    /\ Goto(a, "numbered", "made")
    /\ dirs' = [dirs EXCEPT ![at[a]] = @ \cup {Ticket(num[a], a)}]
    /\ issued' = issued \cup {Ticket(num[a], a)}
    /\ UNCHANGED <<lock, highWater, rows, refs, run, highest, num, code>>

\* files: mkdir project/ticket-NNN in the own worktree.
MakeDirectory(a) ==
    /\ storage[a] = "files"
    /\ num[a] \notin NumbersOf(dirs[at[a]])
    /\ Goto(a, "numbered", "made")
    /\ dirs' = [dirs EXCEPT ![at[a]] = @ \cup {Ticket(num[a], a)}]
    /\ issued' = issued \cup {Ticket(num[a], a)}
    /\ UNCHANGED <<lock, highWater, rows, refs, run, highest, num, code>>

\* The directory is there already: GOV-TICKET-LOCK-003.
DirectoryExists(a) ==
    /\ storage[a] = "files"
    /\ num[a] \in NumbersOf(dirs[at[a]])
    /\ Leave(a, "numbered", 4)
    /\ UNCHANGED <<lock, store, run, highest, num>>

\* Mutant: the temporary file is written and never renamed.
ReserveForgotten(a) ==
    /\ Goto(a, IF storage[a] = "files" THEN "made" ELSE "numbered", "reserved")
    /\ UNCHANGED <<lock, store, run, highest, num, code>>

\* The new number replaces the high-water file with a rename: after the
\* mkdir in files mode, before the row is created in sqlite mode.
Reserve(a) ==
    /\ Goto(a, IF storage[a] = "files" THEN "made" ELSE "numbered", "reserved")
    /\ highWater' = num[a]
    /\ UNCHANGED <<lock, dirs, rows, refs, issued, run, highest, num, code>>

\* files: the templates and the scope are written, or one of them fails.
Scaffold(a) ==
    /\ storage[a] = "files"
    /\ \E c \in {0, 1} : Leave(a, "reserved", c)
    /\ UNCHANGED <<lock, store, run, highest, num>>

\* sqlite: the writer creates the row; it keeps ticket ids unique.
CreateRow(a) ==
    /\ storage[a] = "sqlite"
    /\ num[a] \notin NumbersOf(rows)
    /\ Leave(a, "reserved", 0)
    /\ rows' = rows \cup {Ticket(num[a], a)}
    /\ issued' = issued \cup {Ticket(num[a], a)}
    /\ UNCHANGED <<lock, highWater, dirs, refs, run, highest, num>>

CreateFails(a) ==
    /\ storage[a] = "sqlite"
    /\ Leave(a, "reserved", 1)
    /\ UNCHANGED <<lock, store, run, highest, num>>

\* Mutant: no EXIT trap is installed.
NoExitTrap(a) ==
    /\ Goto(a, "leaving", "exited")
    /\ UNCHANGED <<lock, store, run, highest, num, code>>

\* The EXIT trap: rmdir of the lock directory, whoever made it.
ExitTrap(a) ==
    /\ Goto(a, "leaving", "exited")
    /\ lock' = None
    /\ UNCHANGED <<store, run, highest, num, code>>

\* INT or TERM between two commands: the same handler runs and does not
\* exit, so the script goes on without the lock directory.
Signal(a) ==
    /\ "signal" \in Faults
    /\ pc[a] \in Critical
    /\ lock' = None
    /\ UNCHANGED <<store, pc, run, highest, num, code>>

\* KILL or a power failure: no trap runs, the lock directory stays.
Crash(a) ==
    /\ "crash" \in Faults
    /\ pc[a] \in Critical
    /\ pc' = [pc EXCEPT ![a] = "crashed"]
    /\ UNCHANGED <<lock, store, run, highest, num, code>>

Script(a) ==
    \/ Acquire(a) \/ Refuse(a) \/ NotAdmitted(a) \/ Admit(a)
    \/ ReadRefs(a) \/ ReadRows(a) \/ ReadState(a) \/ ReadDirs(a)
    \/ Number(a) \/ NoReceipt(a) \/ MakeDirectory(a) \/ DirectoryExists(a)
    \/ Reserve(a) \/ Scaffold(a) \/ CreateRow(a) \/ CreateFails(a)
    \/ ExitTrap(a)

-----------------------------------------------------------------------------
(***************************************************************************)
(* The clone around the script.                                            *)
(***************************************************************************)

\* Mutant: the lock is removed without looking for a running allocator.
RemoveLockBlindly ==
    /\ lock # None
    /\ lock' = None
    /\ UNCHANGED <<store, pc, run, highest, num, code>>

\* The documented remedy: the stale lock is removed after confirming that no
\* allocator is running.
RemoveStaleLock ==
    /\ lock # None
    /\ \A a \in Allocators : pc[a] \notin Critical
    /\ lock' = None
    /\ UNCHANGED <<store, pc, run, highest, num, code>>

Commit(w) ==
    /\ refs' = refs \cup dirs[w]
    /\ UNCHANGED <<lock, highWater, dirs, rows, issued, pc, run, highest, num, code>>

\* A worktree receives a committed ticket; Git refuses when the worktree has
\* another directory of that name.
Merge(w) ==
    /\ \E t \in refs :
          /\ t.number \notin NumbersOf(dirs[w])
          /\ dirs' = [dirs EXCEPT ![w] = @ \cup {t}]
    /\ UNCHANGED <<lock, highWater, rows, refs, issued, pc, run, highest, num, code>>

\* git worktree remove: only when everything in it is committed.
RemoveWorktree(w) ==
    /\ dirs[w] \subseteq refs
    /\ dirs' = [dirs EXCEPT ![w] = {}]
    /\ UNCHANGED <<lock, highWater, rows, refs, issued, pc, run, highest, num, code>>

\* A branch that was never merged is deleted, locally or by a pruning fetch.
DeleteBranch ==
    /\ \E t \in refs : refs' = refs \ {t}
    /\ UNCHANGED <<lock, highWater, dirs, rows, issued, pc, run, highest, num, code>>

Environment ==
    \/ RemoveStaleLock
    \/ DeleteBranch
    \/ \E w \in Worktrees : Commit(w) \/ Merge(w) \/ RemoveWorktree(w)

Next ==
    \/ \E a \in Allocators : Script(a) \/ Signal(a) \/ Crash(a)
    \/ Environment

Spec == Init /\ [][Next]_vars

\* The kernel schedules a live script: every execution goes on to its end.
FairSpec == Spec /\ \A a \in Allocators : WF_vars(Script(a))

-----------------------------------------------------------------------------
(***************************************************************************)
(* The audit: allocation_findings over the linked worktrees.               *)
(***************************************************************************)

IsReserved(n) ==
    \/ n <= highWater
    \/ \E m \in NumbersOf(refs) \cup {MergedHighest} : n <= m

\* GOV-TICKET-ALLOCATION-001: a directory outside the reservation.
UnreservedClaims == {t \in UNION {dirs[w] : w \in Worktrees} : ~IsReserved(t.number)}

\* GOV-TICKET-ALLOCATION-002: two identities for one number.
ConflictingClaims ==
    {n \in NumbersOf(UNION {dirs[w] : w \in Worktrees}) :
        Cardinality({t \in UNION {dirs[w] : w \in Worktrees} : t.number = n}) > 1}

-----------------------------------------------------------------------------
(***************************************************************************)
(* Properties.                                                             *)
(***************************************************************************)

\* Types of all variables; the program counter stays in the script.
TypeOK ==
    /\ lock \in Allocators \cup {None}
    /\ highWater \in Nat
    /\ dirs \in [Worktrees -> SUBSET Tickets]
    /\ rows \subseteq Tickets
    /\ refs \subseteq Tickets
    /\ pc \in [Allocators -> Critical \cup Ended \cup {"start"}]
    /\ at \in [Allocators -> Worktrees]
    /\ storage \in [Allocators -> Storages]
    /\ highest \in [Allocators -> Nat]
    /\ num \in [Allocators -> Nat]
    /\ code \in [Allocators -> {0, 1, 3, 4, 5}]
    /\ issued \subseteq Tickets

\* new-ticket.sh: "Serialize allocation across every worktree sharing this
\* clone": at most one execution is between its mkdir of the lock and its exit.
Serialized ==
    \A a, b \in Allocators : pc[a] \in Critical /\ pc[b] \in Critical => a = b

\* A number is never given twice, even after the branch and the worktree of
\* its first ticket are gone, and never repeats one merged before the clone.
NumbersNeverReused ==
    /\ \A s, t \in issued : s.number = t.number => s = t
    /\ \A t \in issued : t.number > MergedHighest

\* Between two allocations the audit has nothing to report: every ticket
\* directory is inside the reservation, and has one identity.
AuditClean == lock = None => UnreservedClaims = {} /\ ConflictingClaims = {}

\* An execution that exited with 0 left exactly its own ticket behind, and
\* the high-water file covers it.
SuccessIsReserved ==
    \A a \in Allocators : pc[a] = "exited" /\ code[a] = 0 =>
        /\ num[a] <= highWater
        /\ {t \in issued : t.by = a} = {Ticket(num[a], a)}

\* An execution that was refused or failed before reserving left nothing.
RefusalLeavesNothing ==
    \A a \in Allocators : pc[a] \in Ended /\ code[a] \in {3, 4, 5} =>
        \A t \in issued : t.by # a

\* In one worktree a number has one ticket, whoever else is allocating there:
\* mkdir of the ticket directory decides, not the lock.
OneTicketPerDirectory ==
    \A w \in Worktrees : \A s, t \in dirs[w] : s.number = t.number => s = t

\* What is left when signals end executions that no longer hold, or have lost, the lock.
SignalsAreSafe == OneTicketPerDirectory /\ RefusalLeavesNothing

\* Every row is inside the reservation that older allocators read, at every
\* moment, a crash between the two writes included.
RowsAreReserved == \A t \in rows : t.number <= highWater

\* The shared high-water mark only grows.
HighWaterGrows == [][highWater' >= highWater]_vars

\* The allocation implements the abstract numbering: every new ticket has a
\* number above all the earlier ones, whatever worktree it is made in.
Numbering == INSTANCE TicketNumbering WITH Makers <- Allocators
ImplementsNumbering == Numbering!Spec

\* The lock never stays: whoever takes it gives it back.
LockIsReleased == \A a \in Allocators : lock = a ~> lock # a

\* GOV-TICKET-ALLOCATION.md, Verification: the shared high-water is not below
\* the highest unmerged claim.
HighWaterCoversClaims ==
    lock = None =>
        \A t \in (UNION {dirs[w] : w \in Worktrees}) \ refs : t.number <= highWater
=============================================================================
