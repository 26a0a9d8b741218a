------------------------------ MODULE Repository ------------------------------
(***************************************************************************)
(* One clone of the repository and the people who work in it: the commits, *)
(* the branch of every ticket, its linked worktree, and the target branch  *)
(* as the clone last fetched it.  Git is not part of the repository; it is *)
(* modelled from how the tools under src/ use it, for the modules that     *)
(* read and change a clone.                                                *)
(*                                                                         *)
(* A commit holds the edits of its tree.  An edit touches one region of    *)
(* one path, and a tree is a set of edits, so that a merge is a union, a   *)
(* diff a difference, and a patch the pair of what was added and removed.  *)
(***************************************************************************)
EXTENDS Naturals, FiniteSets, Sequences

CONSTANTS
  Tickets,      \* numbers of tickets; each has its branch and its worktree
  Paths,        \* paths that are not ignored
  Edits,        \* the edits people may make, each once per tree
  PathOf,       \* the path an edit touches
  RegionOf,     \* the region of that path; edits of one region conflict
  EditsBy,      \* the edits made in the worktree of each ticket
  Methods,      \* how the hosting service lands a pull request
  MaxCommits    \* bound: commits of the whole history

ASSUME RepositoryAssumption ==
  /\ Tickets \subseteq Nat \ {0}
  /\ PathOf \in [Edits -> Paths]
  /\ \A e, f \in Edits : RegionOf[e] = RegionOf[f] => PathOf[e] = PathOf[f]
  /\ EditsBy \in [Tickets -> SUBSET Edits]
  /\ \A t, o \in Tickets : t # o => EditsBy[t] \cap EditsBy[o] = {}
  /\ Methods \subseteq {"merge", "squash", "rebase"}
  /\ MaxCommits \in Nat \ {0}

VARIABLES
  commits,      \* commits in the order they were made
  refs,         \* refs/heads/ticket/NNN, 0 when there is no such branch
  origin,       \* refs/remotes/origin/main
  present,      \* worktrees: "none" yet, "open", or "gone"
  dirty,        \* edits of a worktree that are not committed
  mergeHead     \* MERGE_HEAD of a worktree, 0 when no merge is pending

repository == <<commits, refs, origin, present, dirty, mergeHead>>

Ids == DOMAIN commits
EditsOf(c) == commits[c].edits
Anc(c) == commits[c].anc
IsAncestor(older, newer) == older \in Anc(newer)
Open == {t \in Tickets : present[t] = "open"}

\* git merge-base: ids grow with time, so the largest common ancestor is a best one.
MergeBase(a, b) ==
  CHOOSE c \in Anc(a) \cap Anc(b) : \A d \in Anc(a) \cap Anc(b) : d <= c

\* git diff --name-only a b.
DiffPaths(a, b) ==
  {PathOf[e] : e \in (EditsOf(a) \ EditsOf(b)) \cup (EditsOf(b) \ EditsOf(a))}

\* What somebody changed between a and b: the input of git patch-id.
Patch(a, b) == <<EditsOf(b) \ EditsOf(a), EditsOf(a) \ EditsOf(b)>>
NoPatch == <<{}, {}>>

\* git merge-tree: the paths on which the two sides changed one region differently.
ConflictPaths(a, b) ==
  LET base == EditsOf(MergeBase(a, b))
  IN  {PathOf[e] : e \in {x \in (EditsOf(a) \ EditsOf(b)) \ base :
                            \E y \in (EditsOf(b) \ EditsOf(a)) \ base :
                               RegionOf[x] = RegionOf[y]}}

\* The ticket directory is untracked until the first commit takes it along.
HasCarrier(t) == t \in commits[refs[t]].carriers
Staged(t) == IF mergeHead[t] = 0 THEN {} ELSE EditsOf(mergeHead[t]) \ EditsOf(refs[t])
Clean(t) == dirty[t] = {} /\ HasCarrier(t) /\ mergeHead[t] = 0

TypeOK ==
  /\ commits \in Seq([parents : SUBSET Nat, anc : SUBSET Nat,
                      edits : SUBSET Edits, carriers : SUBSET Tickets,
                      by : Tickets \cup {0}])
  /\ refs \in [Tickets -> Ids \cup {0}]
  /\ origin \in Ids
  /\ present \in [Tickets -> {"none", "open", "gone"}]
  /\ dirty \in [Tickets -> SUBSET Edits]
  /\ mergeHead \in [Tickets -> Ids \cup {0}]

Init ==
  /\ commits = <<[parents |-> {}, anc |-> {1}, edits |-> {}, carriers |-> {}, by |-> 0]>>
  /\ refs = [t \in Tickets |-> 0]
  /\ origin = 1
  /\ present = [t \in Tickets |-> "none"]
  /\ dirty = [t \in Tickets |-> {}]
  /\ mergeHead = [t \in Tickets |-> 0]
------------------------------------------------------------------------------
\* A commit with the given parents and tree, made on the branch of a ticket or, where by
\* is 0, on the target.
NewCommit(parents, edits, carriers, by) ==
  LET id == Len(commits) + 1
  IN  [parents |-> parents, anc |-> {id} \cup UNION {Anc(p) : p \in parents},
       edits |-> edits, carriers |-> carriers, by |-> by]

\* git worktree add -b ticket/NNN <path> origin/main.
OpenWorktree(t) ==
  /\ present[t] = "none"
  /\ present' = [present EXCEPT ![t] = "open"]
  /\ refs' = [refs EXCEPT ![t] = origin]
  /\ UNCHANGED <<commits, origin, dirty, mergeHead>>

\* Everybody makes edits of their own, once.
Edit(t, e) ==
  /\ t \in Open
  /\ e \notin dirty[t]
  /\ \A c \in Ids : e \notin EditsOf(c)
  /\ dirty' = [dirty EXCEPT ![t] = @ \cup {e}]
  /\ UNCHANGED <<commits, refs, origin, present, mergeHead>>

\* A commit of everything in the worktree; one of the ticket directory alone is refused.
Commit(t) ==
  /\ t \in Open
  /\ dirty[t] # {} \/ mergeHead[t] # 0
  /\ Len(commits) < MaxCommits
  /\ commits' = Append(commits,
       NewCommit({refs[t]} \cup ({mergeHead[t]} \ {0}), EditsOf(refs[t]) \cup dirty[t],
                 commits[refs[t]].carriers \cup {t}
                   \cup UNION {commits[c].carriers : c \in {mergeHead[t]} \ {0}}, t))
  /\ refs' = [refs EXCEPT ![t] = Len(commits')]
  /\ dirty' = [dirty EXCEPT ![t] = {}]
  /\ mergeHead' = [mergeHead EXCEPT ![t] = 0]
  /\ UNCHANGED <<origin, present>>

\* git merge --no-commit origin/main: the target's edits are staged, no commit yet.
StartMerge(t) ==
  /\ t \in Open
  /\ dirty[t] = {} /\ mergeHead[t] = 0
  /\ ~IsAncestor(origin, refs[t])
  /\ ConflictPaths(refs[t], origin) = {}
  /\ mergeHead' = [mergeHead EXCEPT ![t] = origin]
  /\ dirty' = [dirty EXCEPT ![t] = EditsOf(origin) \ EditsOf(refs[t])]
  /\ UNCHANGED <<commits, refs, origin, present>>

\* The commits a rebase of the branch onto the target would copy, oldest first.
Series(base, head) ==
  LET S == {c \in Anc(head) \ Anc(base) : base \in Anc(c)}
  IN  [i \in 1..Cardinality(S) |->
         CHOOSE c \in S : Cardinality({d \in S : d <= c}) = i]

\* The pull request of a ticket is landed and the result fetched: a merge commit, one
\* squashed commit, or a copy of every commit on top of the target.
Land(t, method) ==
  LET head == refs[t]
      base == MergeBase(head, origin)
      old == commits[origin]
      series == Series(base, head)
      added == [i \in 1..Len(series) |->
                  old.edits \cup (EditsOf(series[i]) \ EditsOf(base))]
      copied == [i \in 1..Len(series) |->
                   [parents |-> {IF i = 1 THEN origin ELSE Len(commits) + i - 1},
                    anc |-> old.anc \cup (Len(commits) + 1)..(Len(commits) + i),
                    edits |-> added[i],
                    carriers |-> old.carriers \cup commits[series[i]].carriers,
                    by |-> 0]]
      one(parents) == NewCommit(parents, old.edits \cup (EditsOf(head) \ EditsOf(base)),
                                old.carriers \cup commits[head].carriers, 0)
  IN  /\ head # 0
      /\ ~IsAncestor(head, origin)
      /\ ConflictPaths(head, origin) = {}
      /\ \/ method = "merge" /\ commits' = Append(commits, one({origin, head}))
         \/ method = "squash" /\ commits' = Append(commits, one({origin}))
         \/ /\ method = "rebase"
            /\ \A c \in Anc(head) \ Anc(base) : Cardinality(commits[c].parents) = 1
            /\ commits' = commits \o copied
      /\ Len(commits') <= MaxCommits
      /\ origin' = Len(commits')
      /\ UNCHANGED <<refs, present, dirty, mergeHead>>

\* Somebody removes a worktree and keeps its branch.
Leave(t) ==
  /\ t \in Open /\ Clean(t)
  /\ present' = [present EXCEPT ![t] = "gone"]
  /\ UNCHANGED <<commits, refs, origin, dirty, mergeHead>>

\* What people do in the worktree of one ticket, and what the hosting service does.
Write(t) == Commit(t) \/ StartMerge(t) \/ \E e \in EditsBy[t] : Edit(t, e)
Developers ==
  \E t \in Tickets : \/ OpenWorktree(t) \/ Write(t) \/ Leave(t)
                     \/ \E m \in Methods : Land(t, m)
==============================================================================
