--------------------------- MODULE WorktreeOverlap ----------------------------
(***************************************************************************)
(* worktree_overlap_check.py on the checkouts of one clone: which pairs of *)
(* writers contend for the same paths, or reserve the same scope; and the  *)
(* loop of worktree_guard.py that runs it when the clone has changed.      *)
(***************************************************************************)
EXTENDS TicketActivity

CONSTANTS
  AllowedOf,      \* allowedPaths of the intent of every ticket
  ConflictsWith,  \* conflictsWith of the intent
  MergeTreeWorks  \* git is new enough for merge-tree --write-tree

ASSUME OverlapAssumption ==
  /\ AllowedOf \in [Tickets -> SUBSET Paths]
  /\ ConflictsWith \in [Tickets -> SUBSET Tickets]
  /\ MergeTreeWorks \in BOOLEAN

VARIABLE guard    \* the watch loop: its place, what it remembers, what the last check saw

Places(edits) == {PathOf[e] : e \in edits}
\* changed_paths against the default branch, and the paths of git status.
DirtyPaths(t) == Places(dirty[t])
ChangedPaths(t) ==
  DirtyPaths(t) \cup DiffPaths(MergeBase(refs[t], origin), refs[t])

\* has_pending_work: is this checkout a writer at all?
Pending(t) == ~Clean(t) \/ ~IsAncestor(refs[t], origin)

\* Mutant: what a pending merge has staged counts as a local edit.
MainImportsNone(t) == {}

\* pending_main_imports: staged content of the target that nobody here has touched.
MainImports(t) ==
  IF mergeHead[t] # origin THEN {}
  ELSE Places(Staged(t)) \ (Places(dirty[t] \ Staged(t))
         \cup DiffPaths(MergeBase(refs[t], origin), refs[t]))

OwnDirty(t) == DirtyPaths(t) \ MainImports(t)

\* Mutant: the dirty paths count only where something is committed too.
ContributionCommitted(t, o) ==
  DiffPaths(MergeBase(refs[t], refs[o]), refs[t])
    \cap DiffPaths(MergeBase(refs[t], origin), refs[t])

\* What t has changed that matters beside o: since their common ancestor, narrowed by
\* changes_against_shared_default to what it committed since it left the target.
Contribution(t, o) ==
  OwnDirty(t) \cup ((DiffPaths(MergeBase(refs[t], refs[o]), refs[t]) \cup OwnDirty(t))
                      \cap DiffPaths(MergeBase(refs[t], origin), refs[t]))

\* contested_paths: dirty against changed, and what Git itself cannot merge.
Contested(t, o) ==
  LET mine == Contribution(t, o)
      theirs == Contribution(o, t)
      dirtyOverlap == (OwnDirty(t) \cap theirs) \cup (OwnDirty(o) \cap mine)
      diverged == ~IsAncestor(refs[t], refs[o]) /\ ~IsAncestor(refs[o], refs[t])
      conflicts == IF MergeTreeWorks THEN ConflictPaths(refs[t], refs[o]) ELSE mine \cap theirs
  IN  dirtyOverlap \cup (IF diverged THEN conflicts \cap (mine \cap theirs) ELSE {})

\* attributed_tickets: the ticket of a branch is owned by the checkout of that branch; one
\* whose branch is checked out nowhere, by those that change its directory, which here
\* nobody does. ticket_scopes leaves released tickets out.
Owned(t) == IF t \in Open /\ Pending(t) /\ ~Released(t, t) THEN {t} ELSE {}

\* ticket_pair_findings.
ReservationOverlap(t, o) ==
  \E a \in Owned(t), b \in Owned(o) :
    /\ a # b
    /\ b \notin ConflictsWith[a] /\ a \notin ConflictsWith[b]
    /\ AllowedOf[a] \cap AllowedOf[b] # {}

\* overlap_findings of a workspace scan.
Findings ==
  {pair \in SUBSET Open : \E t, o \in pair :
     /\ pair = {t, o} /\ t < o
     /\ Pending(t) /\ Pending(o)
     /\ Contested(t, o) # {} \/ ReservationOverlap(t, o)}
------------------------------------------------------------------------------
\* Mutant: the heads are not part of the snapshot.
SnapshotPaths == {<<Primary, 1>>} \cup {<<t, 1>> : t \in Open}

\* snapshot: the output of git worktree list, which names every checkout and its HEAD.
Snapshot == {<<Primary, 1>>} \cup {<<t, refs[t]>> : t \in Open}

GuardTypeOK ==
  /\ guard.pc \in {"off", "asleep", "checking"}
  /\ guard.previous \in SUBSET ((Tickets \cup {Primary}) \X Nat)
  /\ guard.found \in SUBSET SUBSET Tickets

GuardInit(start) == guard = [pc |-> start, previous |-> {}, found |-> {}]

\* One round of watch up to the check: the snapshot is remembered, then looked into.
Notice ==
  /\ guard.pc = "asleep"
  /\ guard.previous # Snapshot
  /\ guard' = [guard EXCEPT !.pc = "checking", !.previous = Snapshot]

\* run_once, and the sleep after it; its exit status is printed and forgotten.
RunOnce ==
  /\ guard.pc = "checking"
  /\ guard' = [guard EXCEPT !.pc = "asleep", !.found = Findings]

Watch == (Notice \/ RunOnce) /\ UNCHANGED <<repository, activity>>
------------------------------------------------------------------------------
Unlanded(t) == (EditsOf(refs[t]) \cup dirty[t]) \ EditsOf(origin)

\* The pairs of checkouts with different edits in one region, each lacked by the target.
Collisions(W(_)) ==
  {pair \in SUBSET Open : \E t, o \in pair :
     /\ pair = {t, o} /\ t < o
     /\ \E e \in W(t) \ W(o), f \in W(o) \ W(t) : RegionOf[e] = RegionOf[f]}

\* Two writers with unlanded work of different edits in one region are reported: no writer
\* can hide behind a pending merge, a common base or an old common ancestor
\* (contested_paths: "Paths these two checkouts genuinely contend for").
CollisionIsReported == Collisions(Unlanded) \subseteq Findings

\* What t did since it left the target, or does now. Content that a pending merge of an
\* older target has staged counts as its own: "older merge heads retain conservative
\* behavior" (pending_main_imports).
Own(t) == (EditsOf(refs[t]) \ EditsOf(MergeBase(refs[t], origin)))
            \cup (dirty[t] \ (IF mergeHead[t] = origin THEN Staged(t) ELSE {}))

\* Nobody is blamed for what came from the target or with the other's branch, by a merge
\* that is committed or still pending: a contested path was changed by both themselves.
ContendersBothWrote ==
  \A t, o \in Open :
    t < o /\ Pending(t) /\ Pending(o) =>
      Contested(t, o) \subseteq Places(Own(t)) \cap Places(Own(o))

\* What a check reports is what there is: no collision is missed, and none of the contenders
\* has nothing to do with it.
OverlapIsExact == CollisionIsReported /\ ContendersBothWrote

\* When nobody works any more, the last report of the watch loop has every collision of
\* committed work: a commit during a check is noticed in the next round. (Edits that are
\* not committed do not change the snapshot; nor does a worktree that came and went.)
Committed(t) == EditsOf(refs[t]) \ EditsOf(origin)
WatchCatchesUp == guard.pc = "asleep" => <>[](Collisions(Committed) \subseteq guard.found)
==============================================================================
