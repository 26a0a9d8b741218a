------------------------------ MODULE WorkStart -------------------------------
(***************************************************************************)
(* work_start_check.py: an admission report is made of many readings of the*)
(* clone, one after the other, and given out only when a second reading of *)
(* the same things agrees with the first.                                  *)
(***************************************************************************)
EXTENDS WorktreeOverlap

CONSTANTS
  Workstream,   \* the workstream of every ticket's intent
  Limit,        \* maxActiveTicketsPerWorkstream
  Requests      \* the command lines: selected ticket or 0, workstream, paths, digest or <<>>

ASSUME WorkStartAssumption ==
  /\ DOMAIN Workstream = Tickets
  /\ Limit \in Nat \ {0}
  /\ \A r \in Requests : r.selected \in Tickets \cup {0} /\ r.requested \in (SUBSET Paths) \ {{}}

VARIABLE inspection

\* What is read of a checkout that is clean, with its ticket directory committed.
Calm == <<{}, TRUE, 0>>

Routes == {"none", "NEW_TICKET_CANDIDATE", "REUSE_EXISTING", "SERIALIZE",
           "ASSIST_READ_ONLY", "HANDOFF_REQUIRED", "RECONCILE"}

InspectionTypeOK ==
  /\ inspection.pc \in {"off", "start", "refs", "checkouts", "report", "again", "reread",
                        "accepted", "failed"}
  /\ inspection.selected \in Tickets \cup {0}
  /\ inspection.requested \in SUBSET Paths
  /\ inspection.route \in Routes
  /\ inspection.contested \in BOOLEAN

InspectInit(start) ==
  inspection = [pc |-> start, selected |-> 0, stream |-> 0, requested |-> {},
                expected |-> <<>>, refs |-> <<>>, registered |-> {}, dirty |-> <<>>,
                released |-> {}, reread |-> {}, route |-> "none", contested |-> FALSE]

\* The command line: a workstream, perhaps a ticket, the paths the work will touch, and
\* perhaps the digest of an earlier report.
Ask ==
  /\ inspection.pc = "start"
  /\ \E r \in Requests :
       inspection' = [inspection EXCEPT !.pc = "refs", !.selected = r.selected,
         !.stream = r.stream, !.requested = r.requested, !.expected = r.expected]

\* git for-each-ref.
ReadRefs ==
  /\ inspection.pc = "refs"
  /\ inspection' = [inspection EXCEPT !.pc = "checkouts", !.refs = <<refs, origin>>]

\* Unlanded work of somebody else on a requested path, in the clone as it is at
\* this moment: what contested remembers to have held at every moment of the readings.
TrulyContested ==
  \E t \in Tickets \ {inspection.selected} :
    /\ refs[t] # 0
    /\ inspection.requested \cap
         Places(Unlanded(t) \ UNION {EditsOf(c) : c \in {refs[o] : o \in
                                      Tickets \cap {inspection.selected}} \ {0}}) # {}

\* git worktree list, made once before the checkouts are visited.
Register ==
  /\ inspection.pc = "checkouts" /\ inspection.registered = {}
  /\ inspection' = [inspection EXCEPT !.registered = Snapshot, !.contested = TrulyContested]

Registered == {t \in Tickets : \E w \in inspection.registered : w[1] = t}
RegisteredHead(t) == (CHOOSE w \in inspection.registered : w[1] = t)[2]
Visited == DOMAIN inspection.dirty
NextCheckout == CHOOSE t \in Registered \ Visited : \A o \in Registered \ Visited : t <= o
Fail == [inspection EXCEPT !.pc = "failed"]

\* One registered checkout: it must still be there with the head of the registration; then
\* git status, with the bytes of every dirty path, and the activity of its ticket.
Observation(t) == <<dirty[t], HasCarrier(t), mergeHead[t]>>
Visit ==
  /\ inspection.pc = "checkouts" /\ inspection.registered # {}
  /\ Registered \ Visited # {}
  /\ LET t == NextCheckout
     IN  inspection' =
           IF t \in Open /\ refs[t] = RegisteredHead(t)
           THEN [inspection EXCEPT
                   !.dirty = [o \in Visited \cup {t} |-> IF o = t THEN Observation(t) ELSE @[o]],
                   !.released = IF Released(t, t) THEN @ \cup {t} ELSE @,
                   !.contested = @ /\ TrulyContested]
           ELSE Fail

\* What the report is computed from: the readings, never the clone itself. The commits are
\* immutable, so everything that follows from a head may be asked of Git at any time.
Seen == inspection.refs[1]
Target == inspection.refs[2]
SeenDirty(t) == Places(inspection.dirty[t][1])
IsPending(t) == \/ inspection.dirty[t] # Calm
                \/ ~IsAncestor(RegisteredHead(t), Target)
Active(t) == IsPending(t) /\ t \notin inspection.released
Compared == IF inspection.selected # 0 THEN RegisteredHead(inspection.selected) ELSE Target
Changes(head) == DiffPaths(MergeBase(Compared, head), head)

\* A checkout other than the selected one that reserves or has changed a requested path.
Blocking(t) ==
  /\ t # inspection.selected /\ IsPending(t)
  /\ \/ inspection.requested \cap (SeenDirty(t) \cup Changes(RegisteredHead(t))) # {}
     \/ Active(t) /\ inspection.requested \cap AllowedOf[t] # {}

\* commit_trees: every tree of the branch since it left the target is one the target had.
Trees(C) == {<<commits[c].edits, commits[c].carriers>> : c \in C}
Snapshotted(head) ==
  LET base == MergeBase(Target, head)
  IN  /\ base # Target
      /\ Trees(Anc(head) \ Anc(Target))
           \subseteq Trees({c \in Anc(Target) \ Anc(base) : base \in Anc(c)})

\* A local branch without a checkout.
Unassigned(t) ==
  /\ t \notin Registered /\ Seen[t] # 0
  /\ ~IsAncestor(Seen[t], Target)
  /\ inspection.requested \cap Changes(Seen[t]) # {}
  /\ ~Snapshotted(Seen[t])

SelectedChanged ==
  /\ inspection.selected # 0 /\ inspection.expected # <<>>
  /\ inspection.dirty[inspection.selected] # inspection.expected

ActiveTickets ==
  {t \in Registered : Active(t) /\ Workstream[t] = inspection.stream}

Route ==
  IF \E t \in Tickets : Unassigned(t) THEN "RECONCILE"
  ELSE IF (\E t \in Registered : Blocking(t)) \/ SelectedChanged
    THEN IF \/ \E t \in Registered : Blocking(t) /\ Active(t)
            \/ SelectedChanged /\ Active(inspection.selected)
         THEN "ASSIST_READ_ONLY" ELSE "HANDOFF_REQUIRED"
  ELSE IF inspection.selected # 0 THEN "REUSE_EXISTING"
  ELSE IF Cardinality(ActiveTickets) >= Limit THEN "SERIALIZE"
  ELSE "NEW_TICKET_CANDIDATE"

\* The selected ticket has one registered checkout with something of its own (only then is
\* its intent read), of this workstream, and the request stays within its intent.
Selectable ==
  inspection.selected # 0 =>
    /\ inspection.selected \in Registered
    /\ IsPending(inspection.selected)
    /\ Workstream[inspection.selected] = inspection.stream
    /\ inspection.requested \subseteq AllowedOf[inspection.selected]

\* The decision, from the readings.
Report ==
  /\ inspection.pc = "checkouts" /\ inspection.registered # {}
  /\ Registered \ Visited = {}
  /\ inspection' = IF Selectable
                   THEN [inspection EXCEPT !.pc = "again", !.route = Route,
                                           !.contested = @ /\ TrulyContested]
                   ELSE Fail

\* Mutant: the refs are not read again.
ReadRefsOnce ==
  /\ inspection.pc = "again"
  /\ inspection' = [inspection EXCEPT !.pc = "report"]

\* The second reading: refs, then registrations, then the bytes of every checkout.
ReadRefsAgain ==
  /\ inspection.pc = "again"
  /\ inspection' = IF inspection.refs = <<refs, origin>>
                   THEN [inspection EXCEPT !.pc = "report"] ELSE Fail

RegisterAgain ==
  /\ inspection.pc = "report"
  /\ inspection' = IF inspection.registered = Snapshot
                   THEN [inspection EXCEPT !.pc = "reread"] ELSE Fail

VisitAgain ==
  /\ inspection.pc = "reread" /\ Visited \ inspection.reread # {}
  /\ LET t == CHOOSE o \in Visited \ inspection.reread :
                \A u \in Visited \ inspection.reread : o <= u
     IN  inspection' = IF t \in Open /\ inspection.dirty[t] = Observation(t)
                       THEN [inspection EXCEPT !.reread = @ \cup {t}] ELSE Fail

Accept ==
  /\ inspection.pc = "reread" /\ Visited = inspection.reread
  /\ inspection' = [inspection EXCEPT !.pc = "accepted"]

Inspect ==
  /\ \/ Ask \/ ReadRefs \/ Register \/ Visit \/ Report
     \/ ReadRefsAgain \/ RegisterAgain \/ VisitAgain \/ Accept
  /\ UNCHANGED <<repository, activity, guard>>
------------------------------------------------------------------------------
\* A report that admits work was right at one moment of its making: nobody else had work
\* on the requested paths that the target lacks, although the clone was read piece by piece
\* while people worked in it ("Refs changed during observation; retry").
AdmittedIsUncontested ==
  inspection.pc = "accepted" /\ inspection.route \in {"NEW_TICKET_CANDIDATE", "REUSE_EXISTING"}
    => ~inspection.contested
==============================================================================
