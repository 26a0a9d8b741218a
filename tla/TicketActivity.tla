---------------------------- MODULE TicketActivity ----------------------------
(***************************************************************************)
(* ticket_activity.py: is a ticket that is still projected as active really*)
(* still reserving its scope?  It is released by a terminal receipt that   *)
(* Git confirms, or, where the policy says so, by its directory being on   *)
(* the target.  record appends a receipt to the registry in the common Git *)
(* directory: read, verify, replace the file.                              *)
(***************************************************************************)
EXTENDS Repository

CONSTANTS
  Recorders,          \* invocations of the record command
  RecordersTakeTurns, \* one invocation of record at a time
  Derive,             \* missingPolicy of the registry is git-ancestry
  Primary             \* the checkout of the target branch

ASSUME ActivityAssumption ==
  /\ RecordersTakeTurns \in BOOLEAN
  /\ Derive \in BOOLEAN
  /\ Primary \notin Tickets

VARIABLES
  receipts,     \* the receipts in the registry file
  recorder      \* the invocations of record

activity == <<receipts, recorder>>

Receipt == [ticket : Tickets, head : Nat, terminal : Nat]
NoReceipt == [ticket |-> 0, head |-> 0, terminal |-> 0]
Reading == [pc : {"idle", "read", "verified", "recorded", "refused"},
            receipt : Receipt \cup {NoReceipt}, known : SUBSET Receipt]

ActivityTypeOK ==
  /\ receipts \in SUBSET Receipt
  /\ recorder \in [Recorders -> Reading]

ActivityInit ==
  /\ receipts = {}
  /\ recorder = [r \in Recorders |-> [pc |-> "idle", receipt |-> NoReceipt, known |-> {}]]
------------------------------------------------------------------------------
\* _linear_series: the commits between base and head form one chain of single parents.
Linear(base, head) ==
  LET s == Series(base, head)
  IN  /\ s # <<>>
      /\ \A i \in DOMAIN s :
           commits[s[i]].parents = {IF i = 1 THEN base ELSE s[i - 1]}

\* The first parent n generations back, or 0 where there is none.
Back[c \in Nat, n \in Nat] ==
  IF n = 0 THEN c
  ELSE IF c = 0 \/ commits[c].parents = {} THEN 0
  ELSE Back[CHOOSE p \in commits[c].parents : \A q \in commits[c].parents : p <= q, n - 1]

PatchId(base, s, i) == Patch(IF i = 1 THEN base ELSE s[i - 1], s[i])

\* _rebased_patch_series: two linear series of the same patches in the same order.
Rebased(head, terminal) ==
  LET base == MergeBase(head, terminal)
      original == Series(base, head)
      onto == Back[terminal, Len(original)]
      copy == Series(onto, terminal)
  IN  /\ Linear(base, head)
      /\ onto # 0 /\ Linear(onto, terminal)
      /\ Len(copy) = Len(original)
      /\ \A i \in DOMAIN original :
           /\ PatchId(base, original, i) # NoPatch
           /\ PatchId(base, original, i) = PatchId(onto, copy, i)

\* _squashed_patch: one commit that changes what the whole branch changed.
Squashed(head, terminal) ==
  LET base == MergeBase(head, terminal)
  IN  /\ Cardinality(commits[terminal].parents) = 1
      /\ Patch(base, head) # NoPatch
      /\ Patch(base, head) = Patch(CHOOSE p \in commits[terminal].parents : TRUE, terminal)

\* Mutant: the branch of the checkout may have moved on.
AdvancedNever(w, t, head, terminal) == FALSE

\* _advanced_ticket_branch: the checkout w is on the ticket's branch, which has moved on.
Advanced(w, t, head, terminal) ==
  /\ w = t
  /\ refs[t] # head
  /\ IsAncestor(head, refs[t])
  /\ ~IsAncestor(refs[t], terminal)

\* _terminal_verified, asked in checkout w.
Verified(w, r) ==
  /\ r.head \in Ids /\ r.terminal \in Ids
  /\ IsAncestor(r.terminal, origin)
  /\ \/ IsAncestor(r.head, r.terminal)
     \/ Rebased(r.head, r.terminal)
     \/ Squashed(r.head, r.terminal)
  /\ ~Advanced(w, r.ticket, r.head, r.terminal)

\* delivery_landed: the directory is on the target, and no branch of the ticket is outside it.
DeliveryLanded(t, target) ==
  /\ t \in commits[target].carriers
  /\ refs[t] # 0 => IsAncestor(refs[t], target)

\* resolve for a ticket that its own documents project as active.
Released(w, t) ==
  \/ \E r \in receipts : r.ticket = t /\ Verified(w, r)
  \/ Derive /\ DeliveryLanded(t, origin)
------------------------------------------------------------------------------
\* record reads the registry. Receipts come from a protected source: they name a head that
\* was committed on the branch of the ticket, and some commit as the terminal one.
Read(r) ==
  /\ recorder[r].pc = "idle"
  /\ RecordersTakeTurns =>
       \A q \in Recorders : recorder[q].pc \notin {"read", "verified"}
  /\ \E t \in Tickets : \E h \in {c \in Ids : commits[c].by = t}, c \in Ids :
       recorder' = [recorder EXCEPT ![r] =
         [pc |-> "read", receipt |-> [ticket |-> t, head |-> h, terminal |-> c],
          known |-> receipts]]
  /\ UNCHANGED receipts

\* The receipt is checked against Git as it is now, in the primary checkout.
Verify(r) ==
  /\ recorder[r].pc = "read"
  /\ recorder' = [recorder EXCEPT ![r].pc =
       IF Verified(Primary, recorder[r].receipt) THEN "verified" ELSE "refused"]
  /\ UNCHANGED receipts

\* os.replace with the receipts that were read and the new one.
Replace(r) ==
  /\ recorder[r].pc = "verified"
  /\ receipts' = recorder[r].known \cup {recorder[r].receipt}
  /\ recorder' = [recorder EXCEPT ![r].pc = "recorded"]

Record == (\E r \in Recorders : Read(r) \/ Verify(r) \/ Replace(r)) /\ UNCHANGED repository

------------------------------------------------------------------------------
\* A ticket that its own checkout resolves as released has nothing on its branch that the
\* target lacks: ticket_activity.py releases a reservation only when the delivery is there,
\* whatever receipts were recorded and whatever was committed since.
ReleasedIsIntegrated ==
  \A t \in Tickets :
    refs[t] # 0 /\ Released(t, t) => EditsOf(refs[t]) \subseteq EditsOf(origin)
==============================================================================
