---------------------------- MODULE PruneWorktrees ----------------------------
(***************************************************************************)
(* prune_merged_worktrees.py: the worktrees are listed once with their     *)
(* heads; then each is looked at, removed, and its branch deleted, while   *)
(* others may go on working in the clone.                                  *)
(***************************************************************************)
EXTENDS TicketActivity

VARIABLE pruner   \* the run of prune: its place, the listing, the worktree at hand, the result

Actions == {"skipped", "removed"}

PrunerTypeOK ==
  /\ pruner.pc \in {"off", "start", "next", "clean", "remove", "delete", "force", "done"}
  /\ pruner.listed \in SUBSET (Tickets \X Nat)
  /\ pruner.at \in Tickets \cup {0}
  /\ pruner.result \in SUBSET (Tickets \X Actions)

PruneInit(start) ==
  pruner = [pc |-> start, listed |-> {}, at |-> 0, result |-> {}]

\* get_worktrees: every linked worktree with the head it has now.
List ==
  /\ pruner.pc = "start"
  /\ pruner' = [pruner EXCEPT !.pc = "next",
                              !.listed = {<<t, refs[t]>> : t \in Open}]
  /\ UNCHANGED repository

ListedHead(t) == (CHOOSE w \in pruner.listed : w[1] = t)[2]
Result(t, action) == pruner.result \cup {<<t, action>>}
Rest(t) == {w \in pruner.listed : w[1] # t}

\* The next worktree of the listing; one whose directory is missing is skipped.
Take ==
  /\ pruner.pc = "next" /\ pruner.listed # {}
  /\ LET t == (CHOOSE w \in pruner.listed : \A v \in pruner.listed : w[1] <= v[1])[1]
     IN  pruner' =
           IF t \in Open THEN [pruner EXCEPT !.pc = "clean", !.at = t]
           ELSE [pruner EXCEPT !.listed = Rest(t), !.result = Result(t, "skipped")]
  /\ UNCHANGED repository

Skip(t) == [pruner EXCEPT !.pc = "next", !.listed = Rest(t), !.result = Result(t, "skipped")]

\* Mutant: the head is not compared with the target.
JudgeClean ==
  /\ pruner.pc = "clean"
  /\ LET t == pruner.at
     IN  pruner' = IF t \in Open /\ Clean(t)
                   THEN [pruner EXCEPT !.pc = "remove"] ELSE Skip(t)
  /\ UNCHANGED repository

\* is_worktree_clean, and is_ancestor of the head that was listed.
Judge ==
  /\ pruner.pc = "clean"
  /\ LET t == pruner.at
     IN  pruner' = IF t \in Open /\ Clean(t) /\ IsAncestor(ListedHead(t), origin)
                   THEN [pruner EXCEPT !.pc = "remove"] ELSE Skip(t)
  /\ UNCHANGED repository

\* Mutant: git worktree remove --force.
RemoveForced ==
  /\ pruner.pc = "remove"
  /\ LET t == pruner.at
     IN  IF t \in Open
         THEN /\ present' = [present EXCEPT ![t] = "gone"]
              /\ pruner' = [pruner EXCEPT !.pc = "delete"]
         ELSE /\ pruner' = Skip(t)
              /\ UNCHANGED present
  /\ UNCHANGED <<commits, refs, origin, dirty, mergeHead>>

\* git worktree remove, which refuses a worktree that has become dirty or is gone.
Remove ==
  /\ pruner.pc = "remove"
  /\ LET t == pruner.at
     IN  IF t \in Open /\ Clean(t)
         THEN /\ present' = [present EXCEPT ![t] = "gone"]
              /\ pruner' = [pruner EXCEPT !.pc = "delete"]
         ELSE /\ pruner' = Skip(t)
              /\ UNCHANGED present
  /\ UNCHANGED <<commits, refs, origin, dirty, mergeHead>>

Deleted(t) == [pruner EXCEPT !.pc = "next", !.listed = Rest(t), !.result = Result(t, "removed")]

\* git branch -d, which wants the branch merged into the HEAD of the primary checkout: some
\* commit the target has had. A refusal is answered by git branch -D.
Delete ==
  /\ pruner.pc = "delete"
  /\ \E behind \in Anc(origin) :
       IF IsAncestor(refs[pruner.at], behind)
       THEN /\ refs' = [refs EXCEPT ![pruner.at] = 0]
            /\ pruner' = Deleted(pruner.at)
       ELSE /\ pruner' = [pruner EXCEPT !.pc = "force"]
            /\ UNCHANGED refs
  /\ UNCHANGED <<commits, origin, present, dirty, mergeHead>>

ForceDelete ==
  /\ pruner.pc = "force"
  /\ refs' = [refs EXCEPT ![pruner.at] = 0]
  /\ pruner' = Deleted(pruner.at)
  /\ UNCHANGED <<commits, origin, present, dirty, mergeHead>>

Finish ==
  /\ pruner.pc = "next" /\ pruner.listed = {}
  /\ pruner' = [pruner EXCEPT !.pc = "done", !.at = 0]
  /\ UNCHANGED repository

Prune ==
  /\ List \/ Take \/ Judge \/ Remove \/ Delete \/ ForceDelete \/ Finish
  /\ UNCHANGED activity

Pruning == pruner.pc \notin {"off", "start", "done"}
------------------------------------------------------------------------------
\* Every commit stays reachable from a branch or the target: pruning releases branches
\* "whose branches are already merged" and loses nobody's work (docstring of the module).
CommitsSurvive ==
  \A c \in Ids : \/ IsAncestor(c, origin)
                 \/ \E t \in Tickets : refs[t] # 0 /\ IsAncestor(c, refs[t])

\* What is not committed stays in its worktree until its writer commits it.
DirtySurvives == [][\A t \in Tickets : present'[t] = "gone" => dirty[t] = {}]_<<present, dirty>>
==============================================================================
