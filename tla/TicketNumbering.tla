-------------------------- MODULE TicketNumbering ---------------------------
(***************************************************************************)
(* What ticket allocation promises, without locks, files or worktrees: the *)
(* clone has one sequence of tickets, and each new ticket has a number     *)
(* above all the earlier ones and above those merged before the clone was  *)
(* made.  Numbers may be skipped; they are never given twice.              *)
(***************************************************************************)
EXTENDS Naturals

CONSTANTS
    Makers,         \* who may create a ticket
    MergedHighest   \* highest number on the default branch of the clone

VARIABLE issued     \* every ticket ever created

Init == issued = {}

Issue(a, n) ==
    /\ n > MergedHighest
    /\ \A t \in issued : n > t.number
    /\ issued' = issued \cup {[number |-> n, by |-> a]}

\* The tickets of a step are read off the new state, so that a checker need
\* not enumerate the natural numbers.
Next == \E t \in issued' : t.by \in Makers /\ Issue(t.by, t.number)

Spec == Init /\ [][Next]_issued
=============================================================================
