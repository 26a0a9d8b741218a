--------------------------- MODULE StandardAdoption ---------------------------
(***************************************************************************)
(* How a repository takes over revisions of the standard (governance_check:    *)
(* atomic_standard_adoption_paths): the ticket that adopts may change the        *)
(* managed files of the package outside its scope, and no others, while the       *)
(* owners of the repository go on editing, removing and adding files.             *)
(*                                                                           *)
(* The base of an adoption is the default branch as it is (the delivery check).   *)
(* Content stands for its digest: <<"std", r>> is what revision r installs at a     *)
(* path, <<"own", k>> what an owner wrote, <<>> no file.                           *)
(***************************************************************************)
EXTENDS Naturals, FiniteSets

CONSTANTS
  Targets,        \* paths of the repository
  Package,        \* revision -> path -> "managed", "seed" or "none"
  Allowlisted,    \* paths digestBoundTargetPatterns allows a transition of
  MaxOwnEdits     \* bound: edits by the owners

VARIABLES
  files,      \* the default branch
  installed,  \* the revision of its package manifest and lock, 0 before there is one
  ownEdits,   \* edits so far
  silent      \* history: files replaced outside the scope though nobody named what was there

adoptionVars == <<files, installed, ownEdits, silent>>

Revisions == DOMAIN Package
NoFile == <<>>
Std(r) == <<"std", r>>
Own(k) == <<"own", k>>

AdoptionAssumption ==
  /\ Revisions \subseteq Nat \ {0} /\ Allowlisted \subseteq Targets /\ MaxOwnEdits \in Nat
  /\ \A r \in Revisions : Package[r] \in [Targets -> {"managed", "seed", "none"}]

Managed(r) == IF r = 0 THEN {} ELSE {p \in Targets : Package[r][p] = "managed"}
Packaged(r) == IF r = 0 THEN {} ELSE {p \in Targets : Package[r][p] # "none"}

AdoptionInit ==
  /\ files = [p \in Targets |-> NoFile] /\ installed = 0
  /\ ownEdits = 0 /\ silent = {}

\* An ordinary ticket edits, adds or removes a file, a managed one included.
OwnEdit ==
  /\ ownEdits < MaxOwnEdits /\ ownEdits' = ownEdits + 1
  /\ \E p \in Targets, c \in {NoFile, Own(ownEdits + 1)} :
       c # files[p] /\ files' = [files EXCEPT ![p] = c]
  /\ UNCHANGED <<installed, silent>>

------------------------------------------------------------------------------
(* The check of a candidate: the head it leads to and what its intent declares, *)
(* d.takeover, d.restoration (path -> base digest) and d.transition (path ->      *)
(* digests of base and head).  What a path is not declared with is <<>>.          *)

Undeclared == [takeover |-> {}, restoration |-> {}, transition |-> {}]

\* verify_managed_base: what may be replaced at a managed path.
\* Mutant: a path the lock did not have yet is free.
ReplacesLockedOnly(p, from, d) ==
  \/ p \notin Managed(from)
  \/ files[p] = Std(from)
  \/ files[p] = NoFile /\ <<p, Std(from)>> \in d.restoration
  \/ files[p] # NoFile /\ <<p, files[p]>> \in d.takeover

MayReplace(p, from, d) ==
  IF p \in Managed(from)
  THEN \/ files[p] = Std(from)
       \/ files[p] = NoFile /\ <<p, Std(from)>> \in d.restoration
       \/ files[p] # NoFile /\ <<p, files[p]>> \in d.takeover
  ELSE \/ files[p] = NoFile
       \/ from # 0 /\ <<p, files[p]>> \in d.takeover

\* A first adoption leaves a path its owner has to the scope of the ticket.
IsOrdinary(p, from) == from = 0 /\ files[p] # NoFile

Changed(head) == {p \in Targets : head[p] # files[p]}

\* verify_adoption_transitions.
TransitionHolds(t, head, from, to) ==
  LET p == t[1] IN
  /\ p \in Changed(head) \cap Allowlisted /\ p \notin Packaged(from) \cup Packaged(to)
  /\ files[p] # NoFile /\ head[p] # NoFile
  /\ t[2] = files[p] /\ t[3] = head[p]

\* Declarations are consumed: each is needed by a managed path that changed.
NothingUnused(head, from, to, d) ==
  LET payload == Changed(head) \cap Managed(to) IN
  /\ \A t \in d.takeover : t[1] \in payload /\ files[t[1]] \notin {NoFile, Std(from)}
  /\ \A t \in d.restoration : t[1] \in payload \cap Managed(from) /\ files[t[1]] = NoFile

\* atomic_standard_adoption_paths: the paths that are exempt from the ticket's scope, when
\* the candidate is consistent.
Exempt(head, from, to, d) ==
  {p \in Changed(head) \cap Managed(to) : ~IsOrdinary(p, from)} \cup {t[1] : t \in d.transition}

Consistent(head, from, to, d) ==
  /\ from # to /\ (from = 0 => d = Undeclared)
  /\ \A p \in Changed(head) \cap Managed(to) :
       head[p] = Std(to) /\ (IsOrdinary(p, from) \/ MayReplace(p, from, d))
  /\ NothingUnused(head, from, to, d)
  /\ \A t \in d.transition : TransitionHolds(t, head, from, to)
  /\ Exempt(head, from, to, d) # {}

------------------------------------------------------------------------------
\* What a ticket may declare: of each path at most one binding, to any content.
Declarations ==
  {Undeclared}
    \cup {[Undeclared EXCEPT !.takeover = {<<p, c>>}] : p \in Targets,
            c \in {files[q] : q \in Targets} \cup {Own(1)}}
    \cup {[Undeclared EXCEPT !.restoration = {<<p, Std(installed)>>}] : p \in Targets}
    \cup {[Undeclared EXCEPT !.transition = {<<p, files[p], Own(9)>>}] : p \in Targets}

\* The package is installed (external: Goal), a ticket's own changes with it; the candidate
\* passes the gate and is merged.  What is not exempt has to be in the ticket's scope; the
\* narrowest scope is taken.
Installation(to) ==
  [p \in Targets |-> IF p \in Managed(to) THEN Std(to)
                     ELSE IF p \in Packaged(to) /\ files[p] = NoFile THEN Std(to)
                     ELSE files[p]]

Adopt ==
  /\ \E to \in Revisions, d \in Declarations, other \in {{}} \cup {{p} : p \in Targets} :
       /\ to # installed
       /\ LET head == [p \in Targets |-> IF p \in other THEN Own(9) ELSE Installation(to)[p]]
              exempt == Exempt(head, installed, to, d) IN
          /\ Consistent(head, installed, to, d)
          /\ files' = head /\ installed' = to
          /\ silent' = silent \cup
               {p \in exempt :
                  /\ files[p] # (IF p \in Managed(installed) THEN Std(installed) ELSE NoFile)
                  /\ <<p, files[p]>> \notin d.takeover
                  /\ <<p, Std(installed)>> \notin d.restoration
                  /\ <<p, files[p], head[p]>> \notin d.transition}
  /\ UNCHANGED ownEdits

AdoptionNext == OwnEdit \/ Adopt

------------------------------------------------------------------------------
\* Through any sequence of adoptions and own edits, of packages that take a path up, drop it
\* and take it up again: what the owners made of a path is replaced only in the scope of a
\* ticket, or by a declaration of just what was there.
OwnedIsNamed == silent = {}

==============================================================================
