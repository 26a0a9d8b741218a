----------------------- MODULE TicketAllocationProofs -----------------------
(***************************************************************************)
(* Proofs about TicketAllocation and AllocationScenarios, for any number of*)
(* executions, worktrees and receipts.                                     *)
(*                                                                         *)
(* Type correctness, and that a refusal leaves nothing, hold under every   *)
(* fault.  That allocations are serialized, that the high-water mark grows *)
(* and covers every row and every success need executions that INT and TERM*)
(* do not interrupt; that numbers are unique and the audit is clean needs, *)
(* besides, that no execution is killed in files mode: the two runs of TLC *)
(* that end in a violation show why.                                       *)
(***************************************************************************)
EXTENDS AllocationScenarios, FiniteSetTheorems, TLAPS

-----------------------------------------------------------------------------
(* The steps of a clone, whatever its worktrees, whoever gives its numbers *)
(* and whether its executions are killed: what Next and Killed!Next share. *)

\* The number is above everything that was read.
Numbered(a) ==
    /\ Goto(a, "scanned", "numbered")
    /\ \E n \in Nat : n > highest[a] /\ num' = [num EXCEPT ![a] = n]
    /\ UNCHANGED <<lock, store, run, highest, code>>

\* No number is given.
Unnumbered(a) ==
    /\ Leave(a, "scanned", 5)
    /\ UNCHANGED <<lock, store, run, highest, num>>

Runs(a) ==
    \/ Acquire(a) \/ Refuse(a) \/ NotAdmitted(a) \/ Admit(a)
    \/ ReadRefs(a) \/ ReadRows(a) \/ ReadState(a) \/ ReadDirs(a)
    \/ Numbered(a) \/ Unnumbered(a) \/ MakeDirectory(a) \/ DirectoryExists(a)
    \/ Reserve(a) \/ Scaffold(a) \/ CreateRow(a) \/ CreateFails(a)
    \/ ExitTrap(a)

Dies(a) ==
    /\ pc[a] \in Critical
    /\ pc' = [pc EXCEPT ![a] = "crashed"]
    /\ UNCHANGED <<lock, store, run, highest, num, code>>

Around(W) ==
    \/ RemoveStaleLock
    \/ DeleteBranch
    \/ \E w \in W : Commit(w) \/ Merge(w) \/ RemoveWorktree(w)

Moves(W) == (\E a \in Allocators : Runs(a) \/ Dies(a)) \/ Around(W)

-----------------------------------------------------------------------------
(* Type correctness.                                                       *)

\* TypeOK for the worktrees W.
TypesIn(W) ==
    /\ lock \in Allocators \cup {None}
    /\ highWater \in Nat
    /\ dirs \in [W -> SUBSET Tickets]
    /\ rows \subseteq Tickets
    /\ refs \subseteq Tickets
    /\ pc \in [Allocators -> Critical \cup Ended \cup {"start"}]
    /\ at \in [Allocators -> W]
    /\ storage \in [Allocators -> Storages]
    /\ highest \in [Allocators -> Nat]
    /\ num \in [Allocators -> Nat]
    /\ code \in [Allocators -> {0, 1, 3, 4, 5}]
    /\ issued \subseteq Tickets

\* The initial state has the declared types.
LEMMA TypeInit == Init => TypeOK
  BY AllocationAssumption DEF Init, TypeOK, Tickets

\* Every step of a script keeps the types.
LEMMA TypeScript ==
  ASSUME NEW W, TypesIn(W), NEW a \in Allocators, Runs(a)
  PROVE  TypesIn(W)'
<1> USE AllocationAssumption DEF TypesIn
<1>1. CASE Acquire(a)
  BY <1>1 DEF Acquire, Goto, run, store, Critical, Ended
<1>2. CASE Refuse(a)
  BY <1>2 DEF Refuse, Goto, run, store, Critical, Ended
<1>3. CASE NotAdmitted(a)
  BY <1>3 DEF NotAdmitted, Leave, Goto, run, store, Critical, Ended
<1>4. CASE Admit(a)
  BY <1>4 DEF Admit, Goto, run, store, Critical, Ended
<1>5. CASE ReadRefs(a)
  <2>1. NumbersOf(refs) \cup {MergedHighest} \subseteq Nat
    BY DEF NumbersOf, Tickets
  <2>2. highest' \in [Allocators -> Nat]
    BY <1>5, <2>1 DEF ReadRefs, Scan
  <2> QED BY <1>5, <2>2 DEF ReadRefs, Scan, Goto, run, store, Critical, Ended
<1>6. CASE ReadRows(a)
  <2>1. NumbersOf(rows) \subseteq Nat
    BY DEF NumbersOf, Tickets
  <2>2. highest' \in [Allocators -> Nat]
    BY <1>6, <2>1 DEF ReadRows, Scan
  <2> QED BY <1>6, <2>2 DEF ReadRows, Scan, Goto, run, store, Critical, Ended
<1>7. CASE ReadState(a)
  <2>1. highest' \in [Allocators -> Nat]
    BY <1>7 DEF ReadState, Scan
  <2> QED BY <1>7, <2>1 DEF ReadState, Scan, Goto, run, store, Critical, Ended
<1>8. CASE ReadDirs(a)
  <2>1. NumbersOf(dirs[at[a]]) \subseteq Nat
    BY DEF NumbersOf, Tickets
  <2>2. highest' \in [Allocators -> Nat]
    BY <1>8, <2>1 DEF ReadDirs, Scan
  <2> QED BY <1>8, <2>2 DEF ReadDirs, Scan, Goto, run, store, Critical, Ended
<1>9. CASE Numbered(a)
  <2>1. num' \in [Allocators -> Nat]
    BY <1>9 DEF Numbered
  <2> QED BY <1>9, <2>1 DEF Numbered, Goto, run, store, Critical, Ended
<1>10. CASE Unnumbered(a)
  BY <1>10 DEF Unnumbered, Leave, Goto, run, store, Critical, Ended
<1>11. CASE MakeDirectory(a)
  <2>1. Ticket(num[a], a) \in Tickets
    BY DEF Ticket, Tickets
  <2>2. dirs' \in [W -> SUBSET Tickets] /\ issued' \subseteq Tickets
    BY <1>11, <2>1 DEF MakeDirectory
  <2> QED BY <1>11, <2>2 DEF MakeDirectory, Goto, run, Critical, Ended
<1>12. CASE DirectoryExists(a)
  BY <1>12 DEF DirectoryExists, Leave, Goto, run, store, Critical, Ended
<1>13. CASE Reserve(a)
  BY <1>13 DEF Reserve, Goto, run, Critical, Ended
<1>14. CASE Scaffold(a)
  BY <1>14 DEF Scaffold, Leave, Goto, run, store, Critical, Ended
<1>15. CASE CreateRow(a)
  <2>1. Ticket(num[a], a) \in Tickets
    BY DEF Ticket, Tickets
  <2>2. rows' \subseteq Tickets /\ issued' \subseteq Tickets
    BY <1>15, <2>1 DEF CreateRow
  <2> QED BY <1>15, <2>2 DEF CreateRow, Leave, Goto, run, Critical, Ended
<1>16. CASE CreateFails(a)
  BY <1>16 DEF CreateFails, Leave, Goto, run, store, Critical, Ended
<1>17. CASE ExitTrap(a)
  BY <1>17 DEF ExitTrap, Goto, run, store, Critical, Ended
<1> QED BY <1>1, <1>2, <1>3, <1>4, <1>5, <1>6, <1>7, <1>8, <1>9, <1>10, <1>11,
           <1>12, <1>13, <1>14, <1>15, <1>16, <1>17 DEF Runs

\* Kills and the clone around the scripts keep the types.
LEMMA TypeAround ==
  ASSUME NEW W, TypesIn(W), Around(W) \/ \E a \in Allocators : Dies(a)
  PROVE  TypesIn(W)'
<1> USE DEF TypesIn
<1>1. CASE RemoveStaleLock
  BY <1>1 DEF RemoveStaleLock, run, store
<1>2. CASE DeleteBranch
  BY <1>2 DEF DeleteBranch, run
<1>3. ASSUME NEW w \in W, Commit(w) PROVE TypesIn(W)'
  BY <1>3 DEF Commit, run
<1>4. ASSUME NEW w \in W, Merge(w) PROVE TypesIn(W)'
  BY <1>4 DEF Merge, run
<1>5. ASSUME NEW w \in W, RemoveWorktree(w) PROVE TypesIn(W)'
  BY <1>5 DEF RemoveWorktree, run
<1>6. ASSUME NEW a \in Allocators, Dies(a) PROVE TypesIn(W)'
  BY <1>6 DEF Dies, run, store, Critical, Ended
<1> QED BY <1>1, <1>2, <1>3, <1>4, <1>5, <1>6 DEF Around

LEMMA TypeMoves ==
  ASSUME NEW W, TypesIn(W), Moves(W) \/ UNCHANGED vars
  PROVE  TypesIn(W)'
<1>1. CASE UNCHANGED vars
  BY <1>1 DEF TypesIn, vars
<1> QED BY <1>1, TypeScript, TypeAround DEF Moves

\* What a step of Next is, signals apart.
LEMMA StepMoves ==
  ASSUME TypeOK, Next
  PROVE  TypesIn(Worktrees) /\ (Moves(Worktrees) \/ \E a \in Allocators : Signal(a))
<1>1. TypesIn(Worktrees)
  BY DEF TypeOK, TypesIn
<1>2. ASSUME NEW a \in Allocators, Number(a) PROVE Numbered(a)
  BY <1>2, AllocationAssumption DEF Number, Numbered, TypeOK
<1>3. ASSUME NEW a \in Allocators, NoReceipt(a) PROVE Unnumbered(a)
  BY <1>3 DEF NoReceipt, Unnumbered
<1>4. ASSUME NEW a \in Allocators, Script(a) PROVE Runs(a)
  BY <1>2, <1>3, <1>4 DEF Script, Runs
<1>5. ASSUME NEW a \in Allocators, Crash(a) PROVE Dies(a)
  BY <1>5 DEF Crash, Dies
<1>6. Environment => Around(Worktrees)
  BY DEF Environment, Around
<1> QED BY <1>1, <1>4, <1>5, <1>6 DEF Next, Moves

LEMMA TypeStep ==
  ASSUME TypeOK, [Next]_vars PROVE TypeOK'
<1>1. TypesIn(Worktrees) /\ (TypesIn(Worktrees)' => TypeOK')
  BY DEF TypeOK, TypesIn
<1>2. ASSUME NEW a \in Allocators, Signal(a) PROVE TypeOK'
  BY <1>2 DEF Signal, TypeOK, run, store
<1> QED BY <1>1, <1>2, StepMoves, TypeMoves

\* The types of all variables, under every fault.
THEOREM TypeCorrect == Spec => []TypeOK
<1>1. TypeOK /\ [Next]_vars => TypeOK'
  BY TypeStep
<1> QED BY TypeInit, <1>1, PTL DEF Spec

-----------------------------------------------------------------------------
(* Serialization.                                                          *)

\* The strengthening: whoever believes to hold the lock made the lock
\* directory that is there.
LockIsOwned == \A a \in Allocators : pc[a] \in Critical => lock = a

\* Only Acquire enters the critical part, and no action other than ExitTrap
\* and RemoveStaleLock takes the lock away.
LEMMA LockStep ==
  ASSUME NEW W, TypesIn(W), LockIsOwned, Moves(W) \/ UNCHANGED vars
  PROVE  LockIsOwned'
<1> USE DEF LockIsOwned, TypesIn
<1>1. CASE UNCHANGED vars
  BY <1>1 DEF vars
<1>2. ASSUME NEW a \in Allocators, Acquire(a) PROVE LockIsOwned'
  BY <1>2, AllocationAssumption DEF Acquire, Goto
<1>3. ASSUME NEW a \in Allocators, Refuse(a) PROVE LockIsOwned'
  BY <1>3 DEF Refuse, Goto, Critical
<1>4. ASSUME NEW a \in Allocators, ExitTrap(a) PROVE LockIsOwned'
  BY <1>4 DEF ExitTrap, Goto, Critical
<1>5. ASSUME NEW a \in Allocators, Dies(a) PROVE LockIsOwned'
  BY <1>5 DEF Dies, Critical
<1>6. ASSUME NEW a \in Allocators, Runs(a),
             ~Acquire(a), ~Refuse(a), ~ExitTrap(a)
      PROVE  LockIsOwned'
  <2>1. lock' = lock /\ pc[a] \in Critical
    BY <1>6 DEF Runs, NotAdmitted, Admit, ReadRefs, ReadRows, ReadState,
       ReadDirs, Scan, Numbered, Unnumbered, MakeDirectory, DirectoryExists,
       Reserve, Scaffold, CreateRow, CreateFails, Leave, Goto, Critical
  <2>2. \A b \in Allocators : b # a => pc'[b] = pc[b]
    BY <1>6 DEF Runs, NotAdmitted, Admit, ReadRefs, ReadRows, ReadState,
       ReadDirs, Scan, Numbered, Unnumbered, MakeDirectory, DirectoryExists,
       Reserve, Scaffold, CreateRow, CreateFails, Leave, Goto
  <2> QED BY <2>1, <2>2
<1>7. CASE Around(W)
  BY <1>7 DEF Around, RemoveStaleLock, DeleteBranch, Commit, Merge,
     RemoveWorktree
<1> QED BY <1>1, <1>2, <1>3, <1>4, <1>5, <1>6, <1>7 DEF Moves

\* Without signals a step of Next is one of these.
LEMMA StepWithoutSignals ==
  ASSUME TypeOK, "signal" \notin Faults, [Next]_vars
  PROVE  TypesIn(Worktrees) /\ (Moves(Worktrees) \/ UNCHANGED vars)
<1>1. ~ \E a \in Allocators : Signal(a)
  BY DEF Signal
<1> QED BY <1>1, StepMoves DEF TypeOK, TypesIn

\* new-ticket.sh serializes allocation across the worktrees of the clone,
\* kills and stale locks included, as long as INT and TERM stay away.
THEOREM AllocationSerialized ==
  ASSUME "signal" \notin Faults
  PROVE  Spec => []Serialized
<1>1. Init => LockIsOwned
  BY DEF Init, LockIsOwned, Critical
<1>2. TypeOK /\ LockIsOwned /\ [Next]_vars => LockIsOwned'
  BY StepWithoutSignals, LockStep
<1>3. LockIsOwned => Serialized
  BY DEF LockIsOwned, Serialized
<1> QED BY <1>1, <1>2, <1>3, TypeCorrect, PTL DEF Spec

-----------------------------------------------------------------------------
(* The high-water mark.                                                    *)

\* What an execution knows about the reservation at each place: the highest
\* number it has read, then its own number, are not below the high-water mark.
RunKnows ==
    \A a \in Allocators :
        /\ pc[a] \in {"refsRead", "rowsRead", "stateRead", "scanned"} =>
              highest[a] >= MergedHighest
        /\ pc[a] \in {"stateRead", "scanned"} => highest[a] >= highWater
        /\ pc[a] \in {"numbered", "made", "reserved"} => num[a] > MergedHighest
        /\ pc[a] \in {"numbered", "made"} => num[a] > highWater
        /\ pc[a] = "made" => storage[a] = "files"
        /\ pc[a] = "reserved" => num[a] = highWater

\* No other execution is in the critical part.
LEMMA Alone ==
  ASSUME LockIsOwned, NEW a \in Allocators, pc[a] \in Critical,
         NEW b \in Allocators, b # a
  PROVE  pc[b] \notin Critical
  BY DEF LockIsOwned

\* The steps that write no number: no execution enters or leaves the places
\* RunKnows is about, other than by leaving for good.
Quiet ==
    /\ UNCHANGED <<highWater, run, highest, num>>
    /\ \A a \in Allocators : \/ pc'[a] = pc[a]
                             \/ pc'[a] \in {"locked", "admitted", "leaving"} \cup Ended

LEMMA QuietMoves ==
  ASSUME NEW W, TypesIn(W),
         \/ Around(W) \/ UNCHANGED vars
         \/ \E a \in Allocators :
              \/ Dies(a) \/ Acquire(a) \/ Refuse(a) \/ NotAdmitted(a) \/ Admit(a) \/ Unnumbered(a)
              \/ DirectoryExists(a) \/ Scaffold(a) \/ CreateRow(a) \/ CreateFails(a) \/ ExitTrap(a)
  PROVE  Quiet
<1>1. CASE Around(W) \/ UNCHANGED vars
  BY <1>1 DEF Around, RemoveStaleLock, DeleteBranch, Commit, Merge, RemoveWorktree, store, run,
     vars, Quiet
<1>2. ASSUME NEW a \in Allocators,
             \/ Dies(a) \/ Acquire(a) \/ Refuse(a) \/ NotAdmitted(a) \/ Admit(a) \/ Unnumbered(a)
             \/ DirectoryExists(a) \/ Scaffold(a) \/ CreateRow(a) \/ CreateFails(a) \/ ExitTrap(a)
      PROVE  Quiet
  <2>1. UNCHANGED <<highWater, run, highest, num>>
    BY <1>2 DEF Dies, Acquire, Refuse, NotAdmitted, Admit, Unnumbered, DirectoryExists,
       Scaffold, CreateRow, CreateFails, ExitTrap, store
  <2>2. /\ \A b \in Allocators : b # a => pc'[b] = pc[b]
        /\ pc'[a] \in {"locked", "admitted", "leaving"} \cup Ended
    BY <1>2 DEF Dies, Acquire, Refuse, NotAdmitted, Admit, Unnumbered, DirectoryExists,
       Scaffold, CreateRow, CreateFails, ExitTrap, Leave, Goto, Ended, TypesIn
  <2> QED BY <2>1, <2>2 DEF Quiet
<1> QED BY <1>1, <1>2

\* Reading raises the highest number, to what was read at least.
LEMMA ScanRaises ==
  ASSUME NEW W, TypesIn(W), NEW a \in Allocators,
         ReadRefs(a) \/ ReadRows(a) \/ ReadState(a) \/ ReadDirs(a)
  PROVE  /\ highest'[a] \in Nat /\ highest'[a] >= highest[a]
         /\ ReadRefs(a) => highest'[a] >= MergedHighest
         /\ ReadState(a) => highest'[a] >= highWater
<1> USE DEF TypesIn
<1>1. \A n \in NumbersOf(refs) \cup NumbersOf(rows) \cup NumbersOf(dirs[at[a]]) : n \in Nat
  BY DEF NumbersOf, Tickets
<1>2. highest'[a] \in Nat /\ highest'[a] >= highest[a]
  BY <1>1, AllocationAssumption DEF ReadRefs, ReadRows, ReadState, ReadDirs, Scan, IsHighest
<1>3. ReadRefs(a) => highest'[a] >= MergedHighest
  BY <1>1, AllocationAssumption DEF ReadRefs, Scan, IsHighest
<1>4. ReadState(a) => highest'[a] >= highWater
  BY <1>1 DEF ReadState, Scan, IsHighest
<1> QED BY <1>2, <1>3, <1>4

\* Every execution keeps knowing what it knows, and no step lowers the mark: the mark is raised
\* only by the one that holds the lock, to a number it has found to be above.
LEMMA KnowsStep ==
  ASSUME NEW W, TypesIn(W), LockIsOwned, RunKnows, Moves(W) \/ UNCHANGED vars
  PROVE  RunKnows' /\ highWater' >= highWater
<1> USE DEF TypesIn
<1>0. highWater \in Nat /\ (highWater' = highWater => highWater' >= highWater)
  OBVIOUS
<1>1. ASSUME Quiet PROVE RunKnows' /\ highWater' >= highWater
  BY <1>0, <1>1 DEF Quiet, RunKnows, run, Ended
<1>2. ASSUME NEW a \in Allocators, ReadRefs(a) \/ ReadRows(a) \/ ReadState(a) \/ ReadDirs(a)
      PROVE  RunKnows' /\ highWater' >= highWater
  <2>1. /\ highest'[a] \in Nat /\ highest'[a] >= highest[a]
        /\ ReadRefs(a) => highest'[a] >= MergedHighest
        /\ ReadState(a) => highest'[a] >= highWater
    BY <1>2, ScanRaises
  <2>2. /\ UNCHANGED <<store, run, num>>
        /\ \A b \in Allocators : b # a => pc'[b] = pc[b] /\ highest'[b] = highest[b]
        /\ <<pc[a], pc'[a]>> \in {<<"admitted", "refsRead">>, <<"refsRead", "rowsRead">>,
                                  <<"rowsRead", "stateRead">>, <<"stateRead", "scanned">>}
        /\ ReadRefs(a) <=> pc'[a] = "refsRead"
        /\ ReadState(a) <=> pc'[a] = "stateRead"
    BY <1>2 DEF ReadRefs, ReadRows, ReadState, ReadDirs, Scan, Goto
  <2> QED BY <1>0, <2>1, <2>2, AllocationAssumption DEF RunKnows, store, run
<1>3. ASSUME NEW a \in Allocators, Numbered(a) PROVE RunKnows' /\ highWater' >= highWater
  <2>1. num'[a] \in Nat /\ num'[a] > highest[a]
    BY <1>3 DEF Numbered
  <2>2. /\ UNCHANGED <<store, run, highest>>
        /\ \A b \in Allocators : b # a => pc'[b] = pc[b] /\ num'[b] = num[b]
        /\ pc[a] = "scanned" /\ pc'[a] = "numbered"
    BY <1>3 DEF Numbered, Goto
  <2> QED BY <1>0, <2>1, <2>2, AllocationAssumption DEF RunKnows, store, run
<1>4. ASSUME NEW a \in Allocators, MakeDirectory(a) PROVE RunKnows' /\ highWater' >= highWater
  <2>1. /\ UNCHANGED <<highWater, run, highest, num>>
        /\ \A b \in Allocators : b # a => pc'[b] = pc[b]
        /\ pc[a] = "numbered" /\ pc'[a] = "made" /\ storage[a] = "files"
    BY <1>4 DEF MakeDirectory, Goto
  <2> QED BY <1>0, <2>1 DEF RunKnows, run
<1>5. ASSUME NEW a \in Allocators, Reserve(a) PROVE RunKnows' /\ highWater' >= highWater
  <2>1. /\ UNCHANGED <<run, highest, num>>
        /\ \A b \in Allocators : b # a => pc'[b] = pc[b]
        /\ pc[a] \in {"numbered", "made"} /\ pc'[a] = "reserved"
        /\ highWater' = num[a]
    BY <1>5 DEF Reserve, Goto
  <2>2. highWater' > highWater /\ highWater' \in Nat
    BY <2>1 DEF RunKnows
  <2>3. \A b \in Allocators : b # a => pc[b] \notin Critical
    BY <2>1, Alone DEF Critical
  <2> QED BY <1>0, <2>1, <2>2, <2>3 DEF RunKnows, run, Critical
<1>6. CASE UNCHANGED vars \/ Around(W)
  BY <1>1, <1>6, QuietMoves
<1>7. ASSUME NEW a \in Allocators, Runs(a) \/ Dies(a) PROVE RunKnows' /\ highWater' >= highWater
  <2>1. CASE \/ ReadRefs(a) \/ ReadRows(a) \/ ReadState(a) \/ ReadDirs(a)
             \/ Numbered(a) \/ MakeDirectory(a) \/ Reserve(a)
    BY <2>1, <1>2, <1>3, <1>4, <1>5
  <2>2. CASE \/ Dies(a) \/ Acquire(a) \/ Refuse(a) \/ NotAdmitted(a) \/ Admit(a) \/ Unnumbered(a)
             \/ DirectoryExists(a) \/ Scaffold(a) \/ CreateRow(a) \/ CreateFails(a) \/ ExitTrap(a)
    BY <2>2, <1>1, QuietMoves
  <2> QED BY <1>7, <2>1, <2>2 DEF Runs
<1> QED BY <1>6, <1>7 DEF Moves

\* A row is created with the number that is the mark.
LEMMA RowsStep ==
  ASSUME NEW W, TypesIn(W), LockIsOwned, RunKnows, RowsAreReserved, Moves(W) \/ UNCHANGED vars
  PROVE  RowsAreReserved'
<1>1. highWater' >= highWater /\ highWater \in Nat /\ highWater' \in Nat
  BY KnowsStep, TypeMoves DEF TypesIn
<1>2. ASSUME NEW a \in Allocators, CreateRow(a) PROVE RowsAreReserved'
  <2>1. num[a] = highWater /\ highWater' = highWater
    BY <1>2 DEF CreateRow, Leave, Goto, RunKnows
  <2> QED BY <1>1, <1>2, <2>1 DEF CreateRow, RowsAreReserved, Ticket
<1>3. CASE rows' = rows
  <2>1. \A t \in rows : t.number \in Nat
    BY DEF TypesIn, Tickets
  <2> QED BY <1>1, <1>3, <2>1 DEF RowsAreReserved
<1>4. rows' = rows \/ \E a \in Allocators : CreateRow(a)
  BY DEF Moves, Around, RemoveStaleLock, DeleteBranch, Commit, Merge, RemoveWorktree, Runs, Dies,
     Acquire, Refuse, NotAdmitted, Admit, ReadRefs, ReadRows, ReadState, ReadDirs, Scan, Numbered,
     Unnumbered, MakeDirectory, DirectoryExists, Reserve, Scaffold, CreateFails, ExitTrap, store,
     vars
<1> QED BY <1>2, <1>3, <1>4

\* The inductive invariant, under any kills.
MarkInv == LockIsOwned /\ RunKnows /\ RowsAreReserved

LEMMA MarkInit == Init => MarkInv
  BY DEF Init, MarkInv, LockIsOwned, RunKnows, RowsAreReserved, Critical

LEMMA MarkStep ==
  ASSUME NEW W, TypesIn(W), MarkInv, Moves(W) \/ UNCHANGED vars
  PROVE  MarkInv' /\ highWater' >= highWater
  BY LockStep, KnowsStep, RowsStep DEF MarkInv

LEMMA MarkAlways ==
  ASSUME "signal" \notin Faults
  PROVE  Spec => [](TypeOK /\ MarkInv)
<1>1. TypeOK /\ MarkInv /\ [Next]_vars => MarkInv'
  BY StepWithoutSignals, MarkStep
<1> QED BY MarkInit, <1>1, TypeCorrect, PTL DEF Spec

\* The reservation shared by the worktrees never goes back, whoever is killed and whatever
\* lock they leave: the mark is replaced by a number found to be above it, under the lock.
THEOREM HighWaterOnlyGrows ==
  ASSUME "signal" \notin Faults
  PROVE  Spec => HighWaterGrows
<1>1. TypeOK /\ MarkInv /\ [Next]_vars => [highWater' >= highWater]_vars
  BY StepWithoutSignals, MarkStep
<1> QED BY <1>1, MarkAlways, PTL DEF Spec, HighWaterGrows

-----------------------------------------------------------------------------
(* Numbers.                                                                *)

\* Every ticket is inside the reservation, but for the one whose directory
\* was made and whose number is not in the high-water file yet.
IssuedIsReserved ==
    \A t \in issued :
        /\ t.number > MergedHighest
        /\ \/ t.number <= highWater
           \/ pc[t.by] = "made" /\ t.number = num[t.by]

IssuedOnce == \A s, t \in issued : s.number = t.number => s = t

\* The number of a row that is about to be created is above all tickets.
RowIsNext ==
    \A a \in Allocators : pc[a] = "reserved" /\ storage[a] = "sqlite" =>
        \A t \in issued : t.number < num[a]

NumberInv == RowIsNext /\ IssuedIsReserved /\ IssuedOnce

\* What the theorems on numbers assume of the faults.
FaultsSpareFiles ==
    /\ "signal" \notin Faults
    /\ "crash" \notin Faults \/ "files" \notin Storages

\* The tickets issued before are below the number of the execution that is
\* about to create one.
LEMMA FreshNumber ==
  ASSUME TypeOK, MarkInv, NumberInv, NEW a \in Allocators,
         pc[a] = "numbered" \/ (pc[a] = "reserved" /\ storage[a] = "sqlite")
  PROVE  \A t \in issued : t.number < num[a]
<1> USE DEF TypeOK, MarkInv
<1>1. CASE pc[a] = "numbered"
  <2> SUFFICES ASSUME NEW t \in issued PROVE t.number < num[a]
    OBVIOUS
  <2>1. t.by \in Allocators /\ t.number \in Nat
    BY DEF Tickets
  <2>2. pc[t.by] # "made"
    BY <1>1, <2>1, Alone DEF Critical
  <2>3. t.number <= highWater /\ highWater < num[a]
    BY <1>1, <2>2 DEF NumberInv, IssuedIsReserved, RunKnows
  <2> QED BY <2>1, <2>3
<1>2. CASE pc[a] = "reserved" /\ storage[a] = "sqlite"
  BY <1>2 DEF NumberInv, RowIsNext
<1> QED BY <1>1, <1>2

\* files: the directory is made with a number above all issued ones.
LEMMA MakeDirectoryStep ==
  ASSUME TypeOK, MarkInv, NumberInv, NEW a \in Allocators, MakeDirectory(a)
  PROVE  NumberInv'
<1> USE DEF TypeOK, NumberInv, MarkInv
<1>1. /\ UNCHANGED <<highWater, run, highest, num>>
      /\ \A b \in Allocators : b # a => pc'[b] = pc[b]
      /\ pc[a] = "numbered" /\ pc'[a] = "made" /\ storage[a] = "files"
      /\ issued' = issued \cup {Ticket(num[a], a)}
  BY DEF MakeDirectory, Goto
<1>2. \A t \in issued : t.number < num[a]
  BY <1>1, FreshNumber
<1>3. \A b \in Allocators : b # a => pc[b] \notin Critical
  BY <1>1, Alone DEF Critical
<1>4. RowIsNext'
  BY <1>1, <1>3 DEF RowIsNext, run, Critical
<1>5. IssuedIsReserved'
  BY <1>1, <1>3 DEF IssuedIsReserved, RunKnows, Ticket, Tickets, Critical
<1>6. IssuedOnce'
  BY <1>1, <1>2 DEF IssuedOnce, Ticket, Tickets
<1> QED BY <1>4, <1>5, <1>6

\* The reservation reaches the number of the execution that holds the lock.
LEMMA ReserveStep ==
  ASSUME TypeOK, MarkInv, NumberInv, NEW a \in Allocators, Reserve(a)
  PROVE  NumberInv'
<1> USE DEF TypeOK, NumberInv, MarkInv
<1>1. /\ UNCHANGED <<issued, run, highest, num>>
      /\ \A b \in Allocators : b # a => pc'[b] = pc[b]
      /\ pc[a] \in {"numbered", "made"} /\ pc'[a] = "reserved"
      /\ storage[a] # "files" => pc[a] = "numbered"
      /\ highWater' = num[a]
  BY DEF Reserve, Goto
<1>2. highWater' > highWater
  BY <1>1 DEF RunKnows
<1>3. \A b \in Allocators : b # a => pc[b] \notin Critical
  BY <1>1, Alone DEF Critical
<1>4. pc[a] = "numbered" => \A t \in issued : t.number < num[a]
  BY FreshNumber
<1>5. RowIsNext'
  BY <1>1, <1>3, <1>4 DEF RowIsNext, run, Critical
<1>6. IssuedIsReserved'
  BY <1>1, <1>2, <1>3 DEF IssuedIsReserved, Tickets, Critical
<1>7. IssuedOnce'
  BY <1>1 DEF IssuedOnce
<1> QED BY <1>5, <1>6, <1>7

\* sqlite: the row is created with the number just reserved.
LEMMA CreateRowStep ==
  ASSUME TypeOK, MarkInv, NumberInv, NEW a \in Allocators, CreateRow(a)
  PROVE  NumberInv'
<1> USE DEF TypeOK, NumberInv, MarkInv
<1>1. /\ UNCHANGED <<highWater, run, highest, num>>
      /\ \A b \in Allocators : b # a => pc'[b] = pc[b]
      /\ pc[a] = "reserved" /\ pc'[a] = "leaving" /\ storage[a] = "sqlite"
      /\ issued' = issued \cup {Ticket(num[a], a)}
  BY DEF CreateRow, Leave, Goto
<1>2. \A t \in issued : t.number < num[a]
  BY <1>1, FreshNumber
<1>3. \A b \in Allocators : b # a => pc[b] \notin Critical
  BY <1>1, Alone DEF Critical
<1>4. RowIsNext'
  BY <1>1, <1>3 DEF RowIsNext, run, Critical
<1>5. IssuedIsReserved'
  BY <1>1, <1>3 DEF IssuedIsReserved, RunKnows, Ticket, Tickets, Critical
<1>6. IssuedOnce'
  BY <1>1, <1>2 DEF IssuedOnce, Ticket, Tickets
<1> QED BY <1>4, <1>5, <1>6

\* All other steps: no ticket is issued, and who has made a directory stays where it is.
LEMMA OtherStep ==
  ASSUME TypeOK, NumberInv, UNCHANGED <<highWater, issued, run>>,
         \A a \in Allocators :
           /\ pc[a] = "made" => pc'[a] = "made" /\ num'[a] = num[a]
           /\ pc'[a] = "reserved" => pc[a] = "reserved" /\ num'[a] = num[a]
  PROVE  NumberInv'
<1> USE DEF TypeOK, NumberInv
<1>1. RowIsNext'
  BY DEF RowIsNext, run
<1>2. IssuedIsReserved'
  BY DEF IssuedIsReserved, Tickets
<1>3. IssuedOnce'
  BY DEF IssuedOnce
<1> QED BY <1>1, <1>2, <1>3

\* NumberInv is inductive.
LEMMA NumberInvStep ==
  ASSUME FaultsSpareFiles, TypeOK, MarkInv, NumberInv, [Next]_vars
  PROVE  NumberInv'
<1>0. TypesIn(Worktrees) /\ (Moves(Worktrees) \/ UNCHANGED vars)
  BY StepWithoutSignals DEF FaultsSpareFiles
<1>1. ASSUME NEW a \in Allocators, Dies(a), pc[a] = "made", Next PROVE FALSE
  <2>1. "files" \in Storages
    BY <1>1 DEF MarkInv, RunKnows, TypeOK
  <2>2. pc' = [pc EXCEPT ![a] = "crashed"] /\ pc'[a] = "crashed"
    BY <1>1 DEF Dies, TypeOK
  <2>3. ~ \E b \in Allocators : Crash(b) \/ Signal(b)
    BY <2>1 DEF FaultsSpareFiles, Crash, Signal
  <2>4. \A b \in Allocators : Script(b) => pc'[a] # "crashed"
    BY <1>1 DEF Script, Acquire, Refuse, NotAdmitted, Admit, ReadRefs, ReadRows, ReadState,
       ReadDirs, Scan, Number, NoReceipt, MakeDirectory, DirectoryExists, Reserve, Scaffold,
       CreateRow, CreateFails, ExitTrap, Leave, Goto, TypeOK
  <2>5. Environment => pc' = pc
    BY DEF Environment, RemoveStaleLock, DeleteBranch, Commit, Merge, RemoveWorktree
  <2> QED BY <1>1, <2>2, <2>3, <2>4, <2>5 DEF Next
<1>2. ASSUME NEW a \in Allocators, Dies(a), Next PROVE NumberInv'
  <2>1. pc[a] # "made"
    BY <1>1, <1>2
  <2> QED BY <1>2, <2>1, OtherStep DEF Dies, store, TypeOK
<1>3. CASE UNCHANGED vars \/ Around(Worktrees)
  <2>1. UNCHANGED <<highWater, issued, run, pc, num>>
    BY <1>3 DEF vars, run, Around, RemoveStaleLock, DeleteBranch, Commit, Merge, RemoveWorktree,
       store
  <2> QED BY <2>1, OtherStep
<1>4. ASSUME NEW a \in Allocators,
             \/ Acquire(a) \/ Refuse(a) \/ NotAdmitted(a) \/ Admit(a)
             \/ ReadRefs(a) \/ ReadRows(a) \/ ReadState(a) \/ ReadDirs(a)
             \/ Numbered(a) \/ Unnumbered(a) \/ DirectoryExists(a)
             \/ Scaffold(a) \/ CreateFails(a) \/ ExitTrap(a)
      PROVE  NumberInv'
  <2>1. /\ UNCHANGED <<highWater, issued, run>>
        /\ \A b \in Allocators : b # a => pc'[b] = pc[b] /\ num'[b] = num[b]
        /\ pc[a] # "made" /\ pc'[a] # "reserved"
    BY <1>4 DEF Acquire, Refuse, NotAdmitted, Admit, ReadRefs, ReadRows, ReadState, ReadDirs, Scan,
       Numbered, Unnumbered, DirectoryExists, Scaffold, CreateFails, ExitTrap, Leave, Goto, store,
       TypeOK
  <2> QED BY <2>1, OtherStep
<1> QED BY <1>0, <1>2, <1>3, <1>4, MakeDirectoryStep, ReserveStep, CreateRowStep
        DEF Moves, Runs, vars

\* The inductive invariant of the theorems below.
LEMMA NumberInvAlways ==
  ASSUME FaultsSpareFiles
  PROVE  Spec => [](TypeOK /\ MarkInv /\ NumberInv)
<1>1. Init => NumberInv
  BY DEF Init, NumberInv, RowIsNext, IssuedIsReserved, IssuedOnce
<1>2. TypeOK /\ MarkInv /\ NumberInv /\ [Next]_vars => NumberInv'
  BY NumberInvStep
<1>3. Spec => [](TypeOK /\ MarkInv)
  BY MarkAlways DEF FaultsSpareFiles
<1> QED BY <1>1, <1>2, <1>3, PTL DEF Spec

\* No number is ever given twice in a clone, whatever happens to the branches
\* and worktrees of the earlier tickets.
THEOREM NumbersUnique ==
  ASSUME FaultsSpareFiles
  PROVE  Spec => []NumbersNeverReused
<1>1. NumberInv => NumbersNeverReused
  BY DEF NumberInv, IssuedOnce, IssuedIsReserved, NumbersNeverReused
<1> QED BY <1>1, NumberInvAlways, PTL

-----------------------------------------------------------------------------
(* What an execution leaves.                                               *)

Own(a) == {t \in issued : t.by = a}

\* At each place: what the execution has created, and the status it is leaving with.
Leaves(a) ==
    /\ pc[a] \notin {"leaving"} \cup Ended => code[a] = 0
    /\ pc[a] \in {"start", "locked", "admitted", "refsRead", "rowsRead", "stateRead", "scanned",
                  "numbered"} => Own(a) = {}
    /\ pc[a] = "made" => Own(a) = {Ticket(num[a], a)}
    /\ pc[a] = "reserved" /\ storage[a] = "files" => Own(a) = {Ticket(num[a], a)}
    /\ pc[a] = "reserved" /\ storage[a] # "files" => Own(a) = {}
    /\ pc[a] \in {"leaving", "exited"} /\ code[a] = 0 => Own(a) = {Ticket(num[a], a)}
    /\ pc[a] \in {"leaving"} \cup Ended /\ code[a] \in {3, 4, 5} => Own(a) = {}

LeavesInv == \A a \in Allocators : Leaves(a)

\* A step of one execution is nothing to the others.
LEMMA LeavesOthers ==
  ASSUME TypeOK, NEW a \in Allocators, Runs(a) \/ Dies(a) \/ Signal(a),
         NEW b \in Allocators, b # a, Leaves(b)
  PROVE  Leaves(b)'
<1>1. /\ UNCHANGED storage
      /\ pc'[b] = pc[b] /\ num'[b] = num[b] /\ code'[b] = code[b]
  BY DEF Runs, Dies, Signal, Acquire, Refuse, NotAdmitted, Admit, ReadRefs, ReadRows, ReadState,
     ReadDirs, Scan, Numbered, Unnumbered, MakeDirectory, DirectoryExists, Reserve, Scaffold,
     CreateRow, CreateFails, ExitTrap, Leave, Goto, run, store, TypeOK
<1>2. issued' = issued \/ issued' = issued \cup {Ticket(num[a], a)}
  BY DEF Runs, Dies, Signal, Acquire, Refuse, NotAdmitted, Admit, ReadRefs, ReadRows, ReadState,
     ReadDirs, Scan, Numbered, Unnumbered, MakeDirectory, DirectoryExists, Reserve, Scaffold,
     CreateRow, CreateFails, ExitTrap, store
<1>3. Own(b)' = Own(b)
  BY <1>2 DEF Own, Ticket
<1> QED BY <1>1, <1>3 DEF Leaves

\* A step of the execution itself.
LEMMA LeavesOwn ==
  ASSUME TypeOK, NEW a \in Allocators, Runs(a) \/ Dies(a) \/ Signal(a), Leaves(a)
  PROVE  Leaves(a)'
<1> USE DEF TypeOK
<1>1. ASSUME issued' = issued PROVE Own(a)' = Own(a)
  BY <1>1 DEF Own
<1>2. CASE Acquire(a) \/ Refuse(a) \/ Admit(a)
  BY <1>1, <1>2 DEF Acquire, Refuse, Admit, Goto, store, run, Leaves, Ended
<1>3. CASE ReadRefs(a) \/ ReadRows(a) \/ ReadState(a) \/ ReadDirs(a)
  BY <1>1, <1>3 DEF ReadRefs, ReadRows, ReadState, ReadDirs, Scan, Goto, store, run, Leaves, Ended
<1>4. CASE Numbered(a)
  BY <1>1, <1>4 DEF Numbered, Goto, store, run, Leaves, Ended
<1>5. CASE NotAdmitted(a) \/ Unnumbered(a) \/ DirectoryExists(a)
  BY <1>1, <1>5 DEF NotAdmitted, Unnumbered, DirectoryExists, Leave, Goto, store, run, Leaves, Ended
<1>6. CASE MakeDirectory(a)
  <2>1. /\ pc[a] = "numbered" /\ pc'[a] = "made" /\ num' = num /\ code' = code
        /\ issued' = issued \cup {Ticket(num[a], a)}
    BY <1>6 DEF MakeDirectory, Goto
  <2>2. Own(a)' = {Ticket(num[a], a)}
    BY <2>1 DEF Own, Ticket, Leaves
  <2> QED BY <2>1, <2>2 DEF Leaves, Ended
<1>7. CASE Reserve(a)
  <2>1. /\ pc[a] = IF storage[a] = "files" THEN "made" ELSE "numbered"
        /\ pc'[a] = "reserved" /\ UNCHANGED <<num, code, issued, storage>>
    BY <1>7 DEF Reserve, Goto, run
  <2> QED BY <1>1, <2>1 DEF Leaves, Ended
<1>8. CASE Scaffold(a) \/ CreateFails(a)
  BY <1>1, <1>8 DEF Scaffold, CreateFails, Leave, Goto, store, run, Leaves, Ended
<1>9. CASE CreateRow(a)
  <2>1. /\ pc[a] = "reserved" /\ pc'[a] = "leaving" /\ num' = num /\ code'[a] = 0
        /\ storage[a] = "sqlite" /\ issued' = issued \cup {Ticket(num[a], a)}
    BY <1>9 DEF CreateRow, Leave, Goto
  <2>2. Own(a)' = {Ticket(num[a], a)}
    BY <2>1 DEF Own, Ticket, Leaves
  <2> QED BY <2>1, <2>2 DEF Leaves, Ended
<1>10. CASE ExitTrap(a)
  BY <1>1, <1>10 DEF ExitTrap, Goto, store, run, Leaves, Ended
<1>11. CASE Dies(a)
  BY <1>1, <1>11 DEF Dies, Critical, store, run, Leaves, Ended
<1>12. CASE Signal(a)
  BY <1>1, <1>12 DEF Signal, store, run, Leaves, Ended
<1> QED BY <1>2, <1>3, <1>4, <1>5, <1>6, <1>7, <1>8, <1>9, <1>10, <1>11, <1>12 DEF Runs

LEMMA LeavesStep ==
  ASSUME TypeOK, LeavesInv, [Next]_vars
  PROVE  LeavesInv'
<1>1. CASE UNCHANGED vars \/ Around(Worktrees)
  <2>1. UNCHANGED <<issued, pc, run, num, code>>
    BY <1>1 DEF vars, run, Around, RemoveStaleLock, DeleteBranch, Commit, Merge, RemoveWorktree,
       store
  <2> QED BY <2>1 DEF LeavesInv, Leaves, Own, run
<1>2. ASSUME NEW a \in Allocators, Runs(a) \/ Dies(a) \/ Signal(a) PROVE LeavesInv'
  BY <1>2, LeavesOthers, LeavesOwn DEF LeavesInv
<1> QED BY <1>1, <1>2, StepMoves DEF Moves

LEMMA LeavesAlways == Spec => [](TypeOK /\ LeavesInv)
<1>1. Init => LeavesInv
  BY DEF Init, LeavesInv, Leaves, Own, Ended
<1>2. TypeOK /\ LeavesInv /\ [Next]_vars => LeavesInv'
  BY LeavesStep
<1> QED BY <1>1, <1>2, TypeCorrect, PTL DEF Spec

\* An execution that was refused, or failed before it reserved a number, left nothing, even when
\* it was interrupted, killed or ran beside others: nothing is created before the exits with 3,
\* 4 and 5, and after a creation no command exits with one of these.
THEOREM RefusalsLeaveNothing == Spec => []RefusalLeavesNothing
<1>1. LeavesInv => RefusalLeavesNothing
  BY DEF LeavesInv, Leaves, Own, RefusalLeavesNothing
<1> QED BY <1>1, LeavesAlways, PTL

LEMMA DirectoryStep ==
  ASSUME TypeOK, OneTicketPerDirectory, [Next]_vars
  PROVE  OneTicketPerDirectory'
<1> USE DEF TypeOK, OneTicketPerDirectory
<1>1. ASSUME UNCHANGED dirs PROVE OneTicketPerDirectory'
  BY <1>1
<1>2. ASSUME NEW a \in Allocators, MakeDirectory(a) PROVE OneTicketPerDirectory'
  <2>1. /\ dirs' = [dirs EXCEPT ![at[a]] = @ \cup {Ticket(num[a], a)}] /\ at[a] \in Worktrees
        /\ \A t \in dirs[at[a]] : t.number # num[a]
    BY <1>2 DEF MakeDirectory, NumbersOf
  <2> QED BY <2>1 DEF Ticket
<1>3. ASSUME NEW a \in Allocators, Runs(a) \/ Dies(a) \/ Signal(a), ~MakeDirectory(a)
      PROVE  UNCHANGED dirs
  BY <1>3 DEF Runs, Dies, Signal, Acquire, Refuse, NotAdmitted, Admit, ReadRefs, ReadRows, ReadState,
     ReadDirs, Scan, Numbered, Unnumbered, DirectoryExists, Reserve, Scaffold, CreateRow,
     CreateFails, ExitTrap, store
<1>4. UNCHANGED vars \/ RemoveStaleLock \/ DeleteBranch => UNCHANGED dirs
  BY DEF vars, RemoveStaleLock, DeleteBranch, store
<1>5. ASSUME NEW w \in Worktrees, Commit(w) \/ Merge(w) \/ RemoveWorktree(w)
      PROVE  OneTicketPerDirectory'
  <2>1. CASE Commit(w)
    BY <1>1, <2>1 DEF Commit
  <2>2. CASE Merge(w)
    <3>1. PICK t \in refs : /\ \A s \in dirs[w] : s.number # t.number
                            /\ dirs' = [dirs EXCEPT ![w] = @ \cup {t}]
      BY <2>2 DEF Merge, NumbersOf
    <3> QED BY <3>1
  <2>3. CASE RemoveWorktree(w)
    BY <2>3 DEF RemoveWorktree
  <2> QED BY <1>5, <2>1, <2>2, <2>3
<1> QED BY <1>1, <1>2, <1>3, <1>4, <1>5, StepMoves DEF Moves, Around

\* Whatever signals and kills do to the lock, a worktree has one ticket for a number, because
\* mkdir of the directory decides, and a refused execution leaves nothing.
THEOREM SignalsStaySafe == Spec => []SignalsAreSafe
<1>1. Init => OneTicketPerDirectory
  BY DEF Init, OneTicketPerDirectory
<1>2. TypeOK /\ OneTicketPerDirectory /\ [Next]_vars => OneTicketPerDirectory'
  BY DirectoryStep
<1> QED BY <1>1, <1>2, TypeCorrect, RefusalsLeaveNothing, PTL DEF Spec, SignalsAreSafe

\* The number of an execution that has succeeded stays inside the reservation.
DoneIsReserved ==
    \A a \in Allocators : pc[a] \in {"leaving", "exited"} /\ code[a] = 0 => num[a] <= highWater

LEMMA DoneStep ==
  ASSUME TypeOK, MarkInv, LeavesInv, DoneIsReserved, "signal" \notin Faults, [Next]_vars
  PROVE  DoneIsReserved'
<1> USE DEF TypeOK
<1>1. highWater' >= highWater /\ highWater' \in Nat /\ RunKnows
  BY StepWithoutSignals, MarkStep, TypeStep DEF MarkInv
<1>2. ASSUME NEW b \in Allocators, pc'[b] = pc[b], code'[b] = code[b], num'[b] = num[b]
      PROVE  pc'[b] \in {"leaving", "exited"} /\ code'[b] = 0 => num'[b] <= highWater'
  <2>1. pc[b] \in {"leaving", "exited"} /\ code[b] = 0 => num[b] <= highWater
    BY DEF DoneIsReserved
  <2>2. num[b] \in Nat /\ highWater \in Nat
    OBVIOUS
  <2> QED BY <1>1, <1>2, <2>1, <2>2
<1>3. CASE UNCHANGED vars \/ Around(Worktrees)
  <2>1. UNCHANGED <<pc, num, code>>
    BY <1>3 DEF vars, Around, RemoveStaleLock, DeleteBranch, Commit, Merge, RemoveWorktree
  <2> QED BY <1>2, <2>1 DEF DoneIsReserved
<1>4. ASSUME NEW a \in Allocators, Runs(a) \/ Dies(a) PROVE DoneIsReserved'
  <2>1. \A b \in Allocators : b # a => pc'[b] = pc[b] /\ code'[b] = code[b] /\ num'[b] = num[b]
    BY <1>4 DEF Runs, Dies, Acquire, Refuse, NotAdmitted, Admit, ReadRefs, ReadRows, ReadState,
       ReadDirs, Scan, Numbered, Unnumbered, MakeDirectory, DirectoryExists, Reserve, Scaffold,
       CreateRow, CreateFails, ExitTrap, Leave, Goto
  <2>2. ASSUME pc'[a] \in {"leaving", "exited"}, code'[a] = 0
        PROVE  pc[a] \in {"reserved", "leaving"} /\ num' = num /\ (pc[a] = "leaving" => code[a] = 0)
    BY <1>4, <2>2 DEF Runs, Dies, Acquire, Refuse, NotAdmitted, Admit, ReadRefs, ReadRows, ReadState,
       ReadDirs, Scan, Numbered, Unnumbered, MakeDirectory, DirectoryExists, Reserve, Scaffold,
       CreateRow, CreateFails, ExitTrap, Leave, Goto
  <2>3. pc'[a] \in {"leaving", "exited"} /\ code'[a] = 0 => num'[a] <= highWater'
    BY <1>1, <2>2 DEF RunKnows, DoneIsReserved
  <2> QED BY <1>2, <2>1, <2>3 DEF DoneIsReserved
<1> QED BY <1>3, <1>4, StepWithoutSignals DEF Moves

\* An execution that exited with 0 left exactly its own ticket, inside the reservation.
THEOREM SuccessesAreReserved ==
  ASSUME "signal" \notin Faults
  PROVE  Spec => []SuccessIsReserved
<1>1. Init => DoneIsReserved
  BY DEF Init, DoneIsReserved
<1>2. TypeOK /\ MarkInv /\ LeavesInv /\ DoneIsReserved /\ [Next]_vars => DoneIsReserved'
  BY DoneStep
<1>3. LeavesInv /\ DoneIsReserved => SuccessIsReserved
  BY DEF LeavesInv, Leaves, Own, DoneIsReserved, SuccessIsReserved
<1> QED BY <1>1, <1>2, <1>3, LeavesAlways, MarkAlways, PTL DEF Spec

-----------------------------------------------------------------------------
(* The audit.                                                              *)

\* What a worktree or a branch has was issued.
KeptIsIssued == refs \subseteq issued /\ \A w \in Worktrees : dirs[w] \subseteq issued

LEMMA KeptStep ==
  ASSUME TypeOK, KeptIsIssued, [Next]_vars
  PROVE  KeptIsIssued'
<1> USE DEF TypeOK, KeptIsIssued
<1>1. CASE UNCHANGED vars
  BY <1>1 DEF vars
<1>2. ASSUME NEW a \in Allocators, MakeDirectory(a) PROVE KeptIsIssued'
  BY <1>2 DEF MakeDirectory
<1>3. ASSUME NEW a \in Allocators, CreateRow(a) PROVE KeptIsIssued'
  BY <1>3 DEF CreateRow
<1>4. ASSUME UNCHANGED <<dirs, refs, issued>> PROVE KeptIsIssued'
  BY <1>4
<1>5. ASSUME NEW a \in Allocators, Runs(a) \/ Dies(a) \/ Signal(a), ~MakeDirectory(a), ~CreateRow(a)
      PROVE  UNCHANGED <<dirs, refs, issued>>
  BY <1>5 DEF Runs, Dies, Signal, Acquire, Refuse, NotAdmitted, Admit, ReadRefs, ReadRows, ReadState,
     ReadDirs, Scan, Numbered, Unnumbered, DirectoryExists, Reserve, Scaffold, CreateFails,
     ExitTrap, store
<1>6. CASE RemoveStaleLock
  BY <1>4, <1>6 DEF RemoveStaleLock, store
<1>7. CASE DeleteBranch
  BY <1>7 DEF DeleteBranch
<1>8. ASSUME NEW w \in Worktrees, Commit(w) \/ Merge(w) \/ RemoveWorktree(w) PROVE KeptIsIssued'
  BY <1>8 DEF Commit, Merge, RemoveWorktree
<1> QED BY <1>1, <1>2, <1>3, <1>4, <1>5, <1>6, <1>7, <1>8, StepMoves DEF Moves, Around

\* The inductive invariant of a clone without kills in files mode.
CloneInv == MarkInv /\ NumberInv /\ LeavesInv /\ DoneIsReserved /\ KeptIsIssued

LEMMA CloneInit == Init => TypeOK /\ CloneInv
<1> SUFFICES ASSUME Init PROVE TypeOK /\ CloneInv
  OBVIOUS
<1>1. NumberInv /\ LeavesInv /\ DoneIsReserved /\ KeptIsIssued
  BY DEF Init, NumberInv, RowIsNext, IssuedIsReserved, IssuedOnce, LeavesInv, Leaves, Own, Ended,
     DoneIsReserved, KeptIsIssued
<1> QED BY <1>1, TypeInit, MarkInit DEF CloneInv

LEMMA CloneStep ==
  ASSUME FaultsSpareFiles, TypeOK, CloneInv, [Next]_vars
  PROVE  TypeOK' /\ CloneInv' /\ highWater' >= highWater
  BY TypeStep, StepWithoutSignals, MarkStep, NumberInvStep, LeavesStep, DoneStep, KeptStep
     DEF CloneInv, FaultsSpareFiles

\* What the invariant says of a clone is what an allocation leaves there.
LEMMA CloneIsSound ==
  ASSUME TypeOK, CloneInv
  PROVE  AuditClean /\ SuccessIsReserved /\ RefusalLeavesNothing /\ NumbersNeverReused
<1> USE DEF CloneInv
<1> DEFINE claims == UNION {dirs[w] : w \in Worktrees}
<1>1. claims \subseteq issued
  BY DEF KeptIsIssued
<1> HIDE DEF claims
<1>2. SuccessIsReserved /\ RefusalLeavesNothing
  BY DEF LeavesInv, Leaves, Own, DoneIsReserved, SuccessIsReserved, RefusalLeavesNothing
<1>3. NumbersNeverReused
  BY DEF NumberInv, IssuedOnce, IssuedIsReserved, NumbersNeverReused
<1>4. ASSUME lock = None, NEW t \in claims PROVE t.number <= highWater
  <2>1. t \in issued /\ t.by \in Allocators
    BY <1>1 DEF TypeOK, Tickets
  <2>2. pc[t.by] # "made"
    BY <1>4, <2>1, AllocationAssumption DEF MarkInv, LockIsOwned, Critical
  <2> QED BY <2>1, <2>2 DEF NumberInv, IssuedIsReserved
<1>5. ASSUME NEW n \in NumbersOf(claims) PROVE Cardinality({t \in claims : t.number = n}) = 1
  <2>1. PICK t \in claims : t.number = n
    BY DEF NumbersOf
  <2>2. {u \in claims : u.number = n} = {t}
    BY <1>1, <2>1 DEF NumberInv, IssuedOnce
  <2> QED BY <2>2, FS_Singleton
<1>6. lock = None => UnreservedClaims = {}
  BY <1>4 DEF UnreservedClaims, IsReserved, claims
<1>7. ConflictingClaims = {}
  <2> SUFFICES ASSUME NEW n \in ConflictingClaims PROVE FALSE
    OBVIOUS
  <2>1. n \in NumbersOf(claims) /\ Cardinality({t \in claims : t.number = n}) > 1
    BY DEF ConflictingClaims, claims
  <2> QED BY <1>5, <2>1
<1> QED BY <1>2, <1>3, <1>6, <1>7 DEF AuditClean

\* Between two allocations the audit finds nothing, whatever was committed, merged, removed and
\* deleted: a directory in any worktree was issued, once, with a number the reservation covers.
THEOREM AuditStaysClean ==
  ASSUME FaultsSpareFiles
  PROVE  Spec => []AuditClean
<1>1. TypeOK /\ CloneInv /\ [Next]_vars => TypeOK' /\ CloneInv'
  BY CloneStep
<1>2. TypeOK /\ CloneInv => AuditClean
  BY CloneIsSound
<1> QED BY CloneInit, <1>1, <1>2, PTL DEF Spec

-----------------------------------------------------------------------------
(* The abstract numbering.                                                 *)

\* What a step issues: nothing, or one ticket above all the earlier ones.
LEMMA StepNumbers ==
  ASSUME TypeOK, MarkInv, NumberInv, [Next]_vars
  PROVE  [Numbering!Next]_issued
<1>1. ASSUME NEW a \in Allocators, issued' = issued \cup {Ticket(num[a], a)},
             pc[a] = "numbered" \/ (pc[a] = "reserved" /\ storage[a] = "sqlite")
      PROVE  Numbering!Next
  <2>1. \A t \in issued : num[a] > t.number
    BY <1>1, FreshNumber DEF TypeOK, Tickets
  <2>2. num[a] > MergedHighest
    BY <1>1 DEF MarkInv, RunKnows
  <2>3. Numbering!Issue(a, num[a])
    BY <1>1, <2>1, <2>2 DEF Numbering!Issue, Ticket
  <2>4. /\ Ticket(num[a], a) \in issued'
        /\ Ticket(num[a], a).by = a /\ Ticket(num[a], a).number = num[a]
    BY <1>1 DEF Ticket
  <2> QED BY <2>3, <2>4 DEF Numbering!Next
<1>2. ASSUME NEW a \in Allocators, MakeDirectory(a) PROVE Numbering!Next
  BY <1>1, <1>2 DEF MakeDirectory, Goto
<1>3. ASSUME NEW a \in Allocators, CreateRow(a) PROVE Numbering!Next
  BY <1>1, <1>3 DEF CreateRow, Leave, Goto
<1>4. ASSUME NEW a \in Allocators, Runs(a) \/ Dies(a) \/ Signal(a), ~MakeDirectory(a), ~CreateRow(a)
      PROVE  issued' = issued
  BY <1>4 DEF Runs, Dies, Signal, Acquire, Refuse, NotAdmitted, Admit, ReadRefs, ReadRows, ReadState,
     ReadDirs, Scan, Numbered, Unnumbered, DirectoryExists, Reserve, Scaffold, CreateFails,
     ExitTrap, store
<1>5. ASSUME Around(Worktrees) \/ UNCHANGED vars PROVE issued' = issued
  BY <1>5 DEF Around, RemoveStaleLock, DeleteBranch, Commit, Merge, RemoveWorktree, store, vars
<1> QED BY <1>2, <1>3, <1>4, <1>5, StepMoves DEF Moves

\* The allocation implements the abstract numbering: each step issues at most
\* one ticket, with a number above all the earlier ones.
THEOREM AllocationImplementsNumbering ==
  ASSUME FaultsSpareFiles
  PROVE  Spec => ImplementsNumbering
<1>1. Init => Numbering!Init
  BY DEF Init, Numbering!Init
<1>2. TypeOK /\ MarkInv /\ NumberInv /\ [Next]_vars => [Numbering!Next]_issued
  BY StepNumbers
<1> QED BY <1>1, <1>2, NumberInvAlways, PTL DEF Spec, ImplementsNumbering, Numbering!Spec

-----------------------------------------------------------------------------
(* The two clones of AllocationScenarios.                                  *)

\* The steps of the clone whose executions are killed.
LEMMA KilledMoves ==
  ASSUME TypesIn(CrashWorktrees), Killed!Next
  PROVE  Moves(CrashWorktrees)
<1> USE DEF Killed!Goto, Goto, Killed!Leave, Leave, Killed!Scan, Scan, Killed!IsHighest, IsHighest,
            Killed!NumbersOf, NumbersOf, Killed!Ticket, Ticket,
            Killed!store, store, Killed!run, run, Killed!Critical, Critical
<1>1. ASSUME NEW a \in Allocators, Killed!Script(a) PROVE Runs(a)
  <2>1. Killed!Acquire(a) => Acquire(a)
    BY DEF Killed!Acquire, Acquire
  <2>2. Killed!Refuse(a) => Refuse(a)
    BY DEF Killed!Refuse, Refuse
  <2>3. Killed!NotAdmitted(a) => NotAdmitted(a)
    BY DEF Killed!NotAdmitted, NotAdmitted
  <2>4. Killed!Admit(a) => Admit(a)
    BY DEF Killed!Admit, Admit
  <2>5. Killed!ReadRefs(a) => ReadRefs(a)
    BY DEF Killed!ReadRefs, ReadRefs
  <2>6. Killed!ReadRows(a) => ReadRows(a)
    BY DEF Killed!ReadRows, ReadRows
  <2>7. Killed!ReadState(a) => ReadState(a)
    BY DEF Killed!ReadState, ReadState
  <2>8. Killed!ReadDirs(a) => ReadDirs(a)
    BY DEF Killed!ReadDirs, ReadDirs
  <2>9. Killed!Number(a) => Numbered(a)
    <3>1. highest[a] \in Nat
      BY DEF TypesIn
    <3>2. highest[a] + 1 \in Nat /\ highest[a] + 1 > highest[a]
      BY <3>1
    <3>3. SUFFICES ASSUME Killed!Number(a) PROVE Numbered(a)
      OBVIOUS
    <3>4. num' = [num EXCEPT ![a] = highest[a] + 1]
      BY <3>3 DEF Killed!Number
    <3> QED BY <3>2, <3>3, <3>4 DEF Killed!Number, Numbered
  <2>10. ~Killed!NoReceipt(a)
    BY DEF Killed!NoReceipt
  <2>11. Killed!MakeDirectory(a) => MakeDirectory(a)
    BY DEF Killed!MakeDirectory, MakeDirectory
  <2>12. Killed!DirectoryExists(a) => DirectoryExists(a)
    BY DEF Killed!DirectoryExists, DirectoryExists
  <2>13. Killed!Reserve(a) => Reserve(a)
    BY DEF Killed!Reserve, Reserve
  <2>14. Killed!Scaffold(a) => Scaffold(a)
    BY DEF Killed!Scaffold, Scaffold
  <2>15. Killed!CreateRow(a) => CreateRow(a)
    BY DEF Killed!CreateRow, CreateRow
  <2>16. Killed!CreateFails(a) => CreateFails(a)
    BY DEF Killed!CreateFails, CreateFails
  <2>17. Killed!ExitTrap(a) => ExitTrap(a)
    BY DEF Killed!ExitTrap, ExitTrap
  <2> QED BY <1>1, <2>1, <2>2, <2>3, <2>4, <2>5, <2>6, <2>7, <2>8, <2>9, <2>10, <2>11, <2>12,
             <2>13, <2>14, <2>15, <2>16, <2>17 DEF Killed!Script, Runs
<1>2. ASSUME NEW a \in Allocators PROVE ~Killed!Signal(a) /\ (Killed!Crash(a) => Dies(a))
  BY DEF Killed!Signal, Killed!Crash, Dies
<1>3. Killed!RemoveStaleLock => RemoveStaleLock
  BY DEF Killed!RemoveStaleLock, RemoveStaleLock
<1>4. Killed!DeleteBranch => DeleteBranch
  BY DEF Killed!DeleteBranch, DeleteBranch
<1>5. ASSUME NEW w \in CrashWorktrees
      PROVE  /\ Killed!Commit(w) => Commit(w)
             /\ Killed!Merge(w) => Merge(w)
             /\ Killed!RemoveWorktree(w) => RemoveWorktree(w)
  BY DEF Killed!Commit, Commit, Killed!Merge, Merge, Killed!RemoveWorktree, RemoveWorktree
<1>6. Killed!Environment => Around(CrashWorktrees)
  BY <1>3, <1>4, <1>5 DEF Killed!Environment, Around
<1> QED BY <1>1, <1>2, <1>6 DEF Killed!Next, Moves

LEMMA KilledInit == Killed!Init => TypesIn(CrashWorktrees) /\ MarkInv
<1> SUFFICES ASSUME Killed!Init PROVE TypesIn(CrashWorktrees) /\ MarkInv
  OBVIOUS
<1>1. TypesIn(CrashWorktrees)
  BY AllocationAssumption DEF Killed!Init, TypesIn, Tickets
<1>2. MarkInv
  BY DEF Killed!Init, MarkInv, LockIsOwned, RunKnows, RowsAreReserved, Critical
<1> QED BY <1>1, <1>2

\* What holds of each of the two clones.
ScenarioInv ==
    /\ scenario \in {"local", "killed"}
    /\ scenario = "local" => TypeOK /\ CloneInv
    /\ scenario = "killed" => TypesIn(CrashWorktrees) /\ MarkInv

LEMMA ScenarioStep ==
  ASSUME FaultsSpareFiles, ScenarioInv, [ScenariosNext]_<<scenario, vars>>
  PROVE  ScenarioInv' /\ highWater' >= highWater
<1>1. CASE scenario = "local"
  <2>1. scenario' = scenario /\ [Next]_vars
    BY <1>1 DEF ScenariosNext, RunLocal, RunKilled
  <2> QED BY <1>1, <2>1, CloneStep DEF ScenarioInv
<1>2. CASE scenario = "killed"
  <2>1. scenario' = scenario /\ (Killed!Next \/ UNCHANGED vars)
    BY <1>2 DEF ScenariosNext, RunLocal, RunKilled
  <2>2. TypesIn(CrashWorktrees) /\ MarkInv
    BY <1>2 DEF ScenarioInv
  <2> QED BY <1>2, <2>1, <2>2, KilledMoves, TypeMoves, MarkStep DEF ScenarioInv
<1> QED BY <1>1, <1>2 DEF ScenarioInv

LEMMA ScenarioAlways ==
  ASSUME FaultsSpareFiles
  PROVE  ScenariosSpec => []ScenarioInv
<1>1. ScenariosInit => ScenarioInv
  BY CloneInit, KilledInit DEF ScenariosInit, ScenarioInv
<1>2. ScenarioInv /\ [ScenariosNext]_<<scenario, vars>> => ScenarioInv'
  BY ScenarioStep
<1> QED BY <1>1, <1>2, PTL DEF ScenariosSpec

\* What allocations leave in the two clones: without kills a clean audit, the ticket that was
\* answered with, nothing after a refusal and no number twice; with kills in any storage and any
\* worktrees, and locks removed by hand, no row outside the reservation.
THEOREM AllocationStaysSound ==
  ASSUME FaultsSpareFiles
  PROVE  ScenariosSpec => []AllocationIsSound
<1>1. ScenarioInv => AllocationIsSound
  BY CloneIsSound DEF ScenarioInv, AllocationIsSound, MarkInv
<1> QED BY <1>1, ScenarioAlways, PTL

\* In both of them allocation is serialized and the mark only grows, after every kill.
THEOREM ScenariosAreSerialized ==
  ASSUME FaultsSpareFiles
  PROVE  ScenariosSpec => []Serialized /\ HighWaterGrows
<1>1. ScenarioInv => Serialized
  BY DEF ScenarioInv, CloneInv, MarkInv, LockIsOwned, Serialized
<1>2. ScenarioInv /\ [ScenariosNext]_<<scenario, vars>> => [highWater' >= highWater]_vars
  BY ScenarioStep
<1> QED BY <1>1, <1>2, ScenarioAlways, PTL DEF ScenariosSpec, HighWaterGrows

\* The clone without kills implements the abstract numbering.
THEOREM ScenariosImplementNumbering ==
  ASSUME FaultsSpareFiles
  PROVE  ScenariosSpec => ImplementsLocalNumbering
<1> DEFINE shown == IF scenario = "local" THEN issued ELSE {}
<1>1. ScenariosInit => LocalNumbering!Init
  BY DEF ScenariosInit, Init, LocalNumbering!Init
<1>2. ASSUME ScenarioInv, [ScenariosNext]_<<scenario, vars>>
      PROVE  [LocalNumbering!Next]_shown
  <2>1. CASE scenario = "local"
    <3>1. scenario' = scenario /\ [Next]_vars
      BY <1>2, <2>1 DEF ScenariosNext, RunLocal, RunKilled
    <3>2. [Numbering!Next]_issued
      BY <1>2, <2>1, <3>1, StepNumbers DEF ScenarioInv, CloneInv
    <3>3. shown = issued /\ shown' = issued'
      BY <2>1, <3>1
    <3>4. Numbering!Next => LocalNumbering!Next
      BY <3>3 DEF Numbering!Next, LocalNumbering!Next, Numbering!Issue, LocalNumbering!Issue
    <3> QED BY <3>2, <3>3, <3>4
  <2>2. CASE scenario # "local"
    <3>1. scenario' = scenario
      BY <1>2, <2>2 DEF ScenariosNext, RunLocal, RunKilled
    <3> QED BY <2>2, <3>1
  <2> QED BY <2>1, <2>2
<1> QED BY <1>1, <1>2, ScenarioAlways, PTL
        DEF ScenariosSpec, ImplementsLocalNumbering, LocalNumbering!Spec
=============================================================================
