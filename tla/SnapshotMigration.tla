--------------------------- MODULE SnapshotMigration --------------------------
(***************************************************************************)
(* .governance/snapshot_migration.py: the proof that a branch imports one      *)
(* preserved source snapshot, byte for byte, under a grant that is good for     *)
(* one publication, and which of its files were changed since (the repairs,      *)
(* which governance_check gates like any other change).                          *)
(*                                                                           *)
(* The branch starts at base 0; a tree gives every member its blob.  The         *)
(* metadata of the new ticket is apart: a commit only says which intent it has.   *)
(***************************************************************************)
EXTENDS Naturals, Sequences, SequencesExt

CONSTANTS
  Members, Blobs, NoBlob,   \* paths, what they hold, and a path that is not there
  Ignored,                  \* members .gitignore hides while they are not tracked
  BaseTree, SourceTree,     \* the accepted base and the preserved source
  MaxCommits, MaxChanges    \* bounds: commits of the branch; edits and moves around it

VARIABLES
  target,    \* the protected branch: how far it has moved
  side,      \* commits of the migration branch
  checkout,  \* its working tree
  intent,    \* the intent with its migration contract: the base it names, its edits
  grant,     \* the protected authorization, or NoGrant
  uses,      \* history: publications under the grant
  changes    \* edits and moves so far

migrationVars == <<target, side, checkout, intent, grant, uses, changes>>

NoGrant == [status |-> "none"]

MigrationAssumption ==
  /\ BaseTree \in [Members -> Blobs \cup {NoBlob}] /\ SourceTree \in [Members -> Blobs \cup {NoBlob}]
  /\ Ignored \subseteq Members /\ NoBlob \notin Blobs /\ MaxCommits \in Nat /\ MaxChanges \in Nat

HeadTree == IF side = <<>> THEN BaseTree ELSE Last(side).tree
Hidden(tree) == {p \in Ignored : tree[p] = NoBlob}

MigrationInit ==
  /\ target = 0 /\ side = <<>> /\ checkout = BaseTree
  /\ intent = [base |-> 0, edits |-> 0]
  /\ grant = NoGrant /\ uses = 0 /\ changes = 0

------------------------------------------------------------------------------
(* prove: the rules, in the code's order of errors.                            *)

Inventory == {p \in Members : BaseTree[p] # SourceTree[p]}

\* load_authorization and the bindings: issued for just this intent, not consumed.
Authorized == grant # NoGrant /\ grant.status = "reserved" /\ grant.intent = intent

\* The contract's base is the protected one as it is now.
Fresh == target = intent.base

Boundaries == {i \in DOMAIN side : side[i].imports /\ side[i].first /\ intent.base = 0}

\* One commit has just the base and the source as parents; its tree is the source's and
\* has the accepted intent.
ImportedExactly ==
  /\ \E i \in DOMAIN side : side[i].imports
  /\ \E i \in DOMAIN side : /\ Boundaries = {i} /\ side[i].tree = SourceTree
                            /\ side[i].intent = intent

\* The metadata of historical tickets is what it was, in the head and in the checkout.
HistoryKept ==
  \A p \in grant.historical :
    SourceTree[p] # NoBlob /\ HeadTree[p] = SourceTree[p] /\ checkout[p] = SourceTree[p]

Proved ==
  /\ Authorized /\ Fresh /\ grant.paths \subseteq Inventory
  /\ ImportedExactly /\ HistoryKept

\* git diff of the head, and untracked files that are not ignored.
Dirty == {p \in Members \ Hidden(HeadTree) : checkout[p] # HeadTree[p]}

Unchanged == {p \in grant.paths : HeadTree[p] = SourceTree[p] /\ checkout[p] = SourceTree[p]}

\* Mutant: a file that was put back to what the base had is not one.
RepairsAgainstBase ==
  {p \in Members : HeadTree[p] \notin {SourceTree[p], BaseTree[p]}} \cup Dirty

Repairs ==
  {p \in Members : HeadTree[p] # SourceTree[p]} \cup Dirty \cup (grant.paths \ Unchanged)

------------------------------------------------------------------------------
(* What goes on around the proof. *)

Around == changes < MaxChanges /\ changes' = changes + 1

\* The protected policy process issues the grant for the intent as it stands.
Authorize ==
  /\ grant = NoGrant
  /\ \E paths \in (SUBSET Members) \ {{}}, historical \in SUBSET Members :
       grant' = [status |-> "reserved", intent |-> intent, paths |-> paths,
                 historical |-> historical]
  /\ UNCHANGED <<target, side, checkout, intent, uses, changes>>

\* A merge of the source: whole, or with one file left as the branch had it.
Import ==
  /\ Len(side) < MaxCommits
  /\ \E kept \in {{}} \cup {{p} : p \in Members} :
       LET tree == [p \in Members |-> IF p \in kept THEN HeadTree[p] ELSE SourceTree[p]] IN
       /\ side' = Append(side, [first |-> side = <<>>, imports |-> TRUE,
                                tree |-> tree, intent |-> intent])
       /\ checkout' = [p \in Members |-> IF p \in Hidden(tree) \cap Hidden(HeadTree)
                                        THEN checkout[p] ELSE tree[p]]
  /\ UNCHANGED <<target, intent, grant, uses, changes>>

CommitAll ==
  /\ Len(side) < MaxCommits /\ Dirty # {}
  /\ side' = Append(side, [first |-> side = <<>>, imports |-> FALSE, intent |-> intent,
                           tree |-> [p \in Members |-> IF p \in Dirty THEN checkout[p]
                                                       ELSE HeadTree[p]]])
  /\ UNCHANGED <<target, checkout, intent, grant, uses, changes>>

EditMember ==
  /\ Around
  /\ \E p \in Members, b \in Blobs \cup {NoBlob} :
       b # checkout[p] /\ checkout' = [checkout EXCEPT ![p] = b]
  /\ UNCHANGED <<target, side, intent, grant, uses>>

EditIntent ==
  /\ Around
  /\ \E base \in {intent.base, target} :
       intent' = [base |-> base, edits |-> intent.edits + 1]
  /\ UNCHANGED <<target, side, checkout, grant, uses>>

MoveTarget ==
  /\ Around /\ target' = target + 1
  /\ UNCHANGED <<side, checkout, intent, grant, uses>>

\* The protected publisher (external) proves at the base it has just observed, and merges;
\* that the grant is used is recorded in its journal later.
Publish ==
  /\ Proved /\ target' = target + 1 /\ uses' = uses + 1
  /\ UNCHANGED <<side, checkout, intent, grant, changes>>

RecordUse ==
  /\ uses > 0 /\ grant.status = "reserved"
  /\ grant' = [grant EXCEPT !.status = "consumed"]
  /\ UNCHANGED <<target, side, checkout, intent, uses, changes>>

MigrationNext ==
  \/ Authorize \/ Import \/ CommitAll \/ EditMember \/ EditIntent \/ MoveTarget
  \/ Publish \/ RecordUse

------------------------------------------------------------------------------
\* What is not among the repairs of a proved migration is the authorized source, byte for
\* byte, in the head and, unless Git hides it, in the checkout; a path the grant names is
\* even then.  And one grant is used once, also before its use is on record.
MigrationIsExact ==
  /\ Proved =>
       \A p \in Members \ Repairs :
         /\ HeadTree[p] = SourceTree[p]
         /\ p \notin Ignored \/ p \in grant.paths => checkout[p] = SourceTree[p]
  /\ uses <= 1
==============================================================================
