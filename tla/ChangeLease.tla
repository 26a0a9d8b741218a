---------------------------- MODULE ChangeLease -----------------------------
(***************************************************************************)
(* The change lease of .governance/change_lease_check.py: the authority to *)
(* edit and publish one ticket, moved from phase to phase by requests that *)
(* name the revision, fencing token and phase they were written for.       *)
(*                                                                         *)
(* The checker evaluates one request against the lease and answers with a  *)
(* receipt.  A change controller, outside the repository, has requests     *)
(* evaluated, replaces the lease by what an accepted receipt says and adds *)
(* the receipt to the event trace; whether controllers take turns is       *)
(* Overlapping.  Actors write requests from the lease as they last saw it, *)
(* and may send them late, twice or never.                                 *)
(*                                                                         *)
(* A rejected request changes nothing, so only acceptance is an action.    *)
(***************************************************************************)
EXTENDS Naturals

CONSTANTS
    Actors,         \* who sends requests
    Controllers,    \* who applies receipts
    Heads,          \* commits
    Replacements,   \* receipts of other leases an actor can attach
    References,     \* receipt references an actor can name
    FirstToken,     \* fencing token of the new lease
    MaxRevision,    \* bound of the model on the revisions of the lease
    Overlapping,    \* TRUE: a controller may evaluate while another has not yet applied
    None            \* no head, no receipt, no reference

Phases == {"claimed", "editing", "validating", "publication_frozen", "dispatching",
           "approved", "merged", "closed", "cancelled", "expired", "released"}
FrozenPhases == {"publication_frozen", "dispatching", "approved"}
EndedPhases == {"merged", "closed", "cancelled", "expired", "released"}
TerminalReplacementPhases == {"merged", "closed", "cancelled", "released"}

ASSUME LeaseAssumption ==
    /\ FirstToken \in Nat \ {0}
    /\ MaxRevision \in Nat
    /\ Overlapping \in BOOLEAN
    /\ None \notin Heads
    /\ \A r \in Replacements :
          /\ r.ref \in References
          /\ r.valid \in BOOLEAN
          /\ r.outcome \in {"accepted", "rejected"}
          /\ r.after \in Phases

Heartbeats == {<<"heartbeat", p, p>> : p \in Phases \ {"released"}}

\* TRANSITIONS: action, phase before, phase after.
Transitions ==
    Heartbeats
    \cup {<<"begin-edit", "claimed", "editing">>,
          <<"begin-validation", "editing", "validating">>,
          <<"freeze-publication", "validating", "publication_frozen">>,
          <<"dispatch-validation", "publication_frozen", "dispatching">>,
          <<"approve", "dispatching", "approved">>,
          <<"record-merge", "approved", "merged">>,
          <<"close", "merged", "closed">>}
    \cup {<<"cancel", p, "cancelled">> : p \in Phases \ EndedPhases}
    \cup {<<"expire", p, "expired">> : p \in Phases \ EndedPhases}
    \cup {<<"release", p, "released">> : p \in {"closed", "cancelled", "expired"}}
    \cup {<<"supersede", p, "cancelled">> : p \in {"claimed", "editing", "validating"}}

Actions == {t[1] : t \in Transitions}

Leases == [phase : Phases, revision : Nat \ {0}, token : Nat \ {0}, head : Heads \cup {None}]
Views == [phase : Phases, revision : Nat \ {0}, token : Nat \ {0}]
Receipts == [action : Actions, before : Phases, after : Phases,
             previousRevision : Nat \ {0}, revision : Nat \ {0},
             previousToken : Nat \ {0}, token : Nat \ {0}, head : Heads \cup {None}]
Authorities == (Nat \ {0}) \X (Nat \ {0})

ASSUME NoneIsNoReceipt == None \notin Receipts

VARIABLES
    lease,      \* the lease document
    view,       \* Actors -> the CAS fields each actor saw last
    held,       \* Controllers -> an accepted receipt not applied yet and the
                \* authority its request names, or None
    last,       \* the last accepted receipt of the trace, or None
    monotonic,  \* validate_trace has no GOV-CHANGE-LEASE-002 for the trace
    consumed,   \* history: authorities (revision, token) applied requests named
    reused      \* history: an authority was named by two of them

trace == <<last, monotonic, consumed, reused>>
vars == <<lease, view, held, trace>>

ViewOf(l) == [phase |-> l.phase, revision |-> l.revision, token |-> l.token]
Authority(v) == <<v.revision, v.token>>

Init ==
    /\ lease = [phase |-> "claimed", revision |-> 1, token |-> FirstToken, head |-> None]
    /\ view = [a \in Actors |-> ViewOf(lease)]
    /\ held = [c \in Controllers |-> None]
    /\ last = None
    /\ monotonic = TRUE
    /\ consumed = {}
    /\ reused = FALSE

-----------------------------------------------------------------------------
(***************************************************************************)
(* The checker.                                                            *)
(***************************************************************************)

\* validate_publication_lease_fields: what evaluate_transition asks of a lease.
ValidLease(l) == l.phase \in FrozenPhases \cup {"merged", "closed", "released"} => l.head # None

\* Mutant: the phase alone is compared.
CurrentByPhase(v) == lease.phase = v.phase

\* transition_identity_error: the compare-and-swap.
Current(v) == v = ViewOf(lease)

\* Mutant: a freeze need not name a head.
HeadOptional(action, target) ==
    /\ lease.phase \in FrozenPhases => target \in {None, lease.head}
    /\ action \in {"dispatch-validation", "approve", "record-merge"} => target = lease.head

\* transition_phase_error, the rules about the target head.
HeadAllowed(action, target) ==
    /\ action = "freeze-publication" => target # None
    /\ lease.phase \in FrozenPhases => target \in {None, lease.head}
    /\ action \in {"dispatch-validation", "approve", "record-merge"} => target = lease.head

\* replacement_receipt_error: supersede needs an accepted terminal receipt,
\* the one it names.
ReplacementAllowed(action, reference, replacement) ==
    action = "supersede" =>
        /\ replacement \in Replacements
        /\ replacement.valid
        /\ replacement.outcome = "accepted"
        /\ replacement.after \in TerminalReplacementPhases
        /\ replacement.ref = reference

\* transition_receipt, accepted: revision and token both grow by one.
Receipt(action, next, target) ==
    [action |-> action, before |-> lease.phase, after |-> next,
     previousRevision |-> lease.revision, revision |-> lease.revision + 1,
     previousToken |-> lease.token, token |-> lease.token + 1,
     head |-> IF action = "freeze-publication" THEN target ELSE lease.head]

\* validate_trace: r may follow the last accepted receipt.
Follows(r) ==
    last # None =>
        /\ r.previousRevision = last.revision
        /\ r.previousToken = last.token
        /\ r.before = last.after

-----------------------------------------------------------------------------
(***************************************************************************)
(* Actors and controllers.                                                 *)
(***************************************************************************)

\* An actor reads the lease.  Its requests are written for what it saw, until
\* it reads again.
Look(a) ==
    /\ view' = [view EXCEPT ![a] = ViewOf(lease)]
    /\ UNCHANGED <<lease, held, trace>>

\* evaluate_transition accepts a request of actor a.
Accept(c, a) ==
    /\ held[c] = None
    /\ Overlapping \/ \A d \in Controllers : held[d] = None
    /\ lease.revision < MaxRevision
    /\ ValidLease(lease)
    /\ Current(view[a])
    /\ \E t \in Transitions, target \in Heads \cup {None} :
          /\ t[2] = lease.phase
          /\ HeadAllowed(t[1], target)
          /\ \E reference \in References \cup {None}, replacement \in Replacements \cup {None} :
                ReplacementAllowed(t[1], reference, replacement)
          /\ held' = [held EXCEPT ![c] =
                          [receipt |-> Receipt(t[1], t[3], target), named |-> Authority(view[a])]]
    /\ UNCHANGED <<lease, view, trace>>

\* The controller replaces the lease and adds the receipt to the trace.
Apply(c) ==
    /\ held[c] # None
    /\ LET r == held[c].receipt IN
          /\ lease' = [phase |-> r.after, revision |-> r.revision,
                       token |-> r.token, head |-> r.head]
          /\ last' = r
          /\ monotonic' = (monotonic /\ Follows(r))
    /\ consumed' = consumed \cup {held[c].named}
    /\ reused' = (reused \/ held[c].named \in consumed)
    /\ held' = [held EXCEPT ![c] = None]
    /\ UNCHANGED view

\* The controller stops before it applied the receipt.
Abandon(c) ==
    /\ held[c] # None
    /\ held' = [held EXCEPT ![c] = None]
    /\ UNCHANGED <<lease, view, trace>>

Next ==
    \/ \E a \in Actors : Look(a)
    \/ \E c \in Controllers, a \in Actors : Accept(c, a)
    \/ \E c \in Controllers : Apply(c) \/ Abandon(c)

Spec == Init /\ [][Next]_vars

-----------------------------------------------------------------------------
(***************************************************************************)
(* Properties.                                                             *)
(***************************************************************************)

\* Types of all variables.
TypeOK ==
    /\ lease \in Leases
    /\ view \in [Actors -> Views]
    /\ held \in [Controllers -> [receipt : Receipts, named : Authorities] \cup {None}]
    /\ last \in Receipts \cup {None}
    /\ monotonic \in BOOLEAN
    /\ consumed \subseteq Authorities
    /\ reused \in BOOLEAN

\* GOV-CHANGE-LEASE.md, "Do not reuse a revision or fencing token": however
\* late and however often requests are sent, no two of those that take effect
\* name the same revision and token.
AuthorityUsedOnce == ~reused

\* An authority that was used is below the one the lease asks for now: no
\* request written for it is ever accepted again.
FencedOff ==
    \A u \in consumed : u[1] < lease.revision /\ u[2] < lease.token

\* The trace of controllers that take turns passes validate_trace.
TracePasses == monotonic

\* What turns are for, together: an authority takes effect once, is fenced off from then
\* on, and the trace that is left passes the audit.
AuthorityIsFenced ==
    /\ AuthorityUsedOnce
    /\ FencedOff
    /\ TracePasses

\* When controllers do overlap, validate_trace finds every authority that was
\* used twice.
AuditFindsReuse == monotonic => ~reused

\* An ended lease never comes back to work or to publication.
EndIsFinal ==
    [][lease.phase \in EndedPhases => lease'.phase \in EndedPhases]_vars

\* The lease implements the publication gate: one head is frozen, it stays as
\* it is, and only it lands.
Stage ==
    CASE lease.phase \in FrozenPhases -> "frozen"
      [] lease.phase = "merged" -> "landed"
      [] lease.phase \in EndedPhases \ {"merged"} -> "ended"
      [] OTHER -> "working"
GatedHead == IF lease.phase \in FrozenPhases \cup {"merged"} THEN lease.head ELSE None
Gate == INSTANCE PublicationGate WITH stage <- Stage, head <- GatedHead
ImplementsGate == Gate!Spec

\* change_lease_check.py:79: a lease that was moved by accepted receipts only
\* is one that validate_lease accepts.
LeaseStaysValid == ValidLease(lease)
=============================================================================
