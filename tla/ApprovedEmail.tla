---------------------------- MODULE ApprovedEmail -----------------------------
(***************************************************************************)
(* The approved-recipient-email connector: one call plans a message, or    *)
(* sends it under a signed grant that is consumed in a replay store.  Many *)
(* calls run at the same time, each in a process of its own; processes die *)
(* and callers call again, with the same grant.                            *)
(*                                                                         *)
(* Time is counted in steps.  LastMoment of a grant is its expires_at with *)
(* the clock skew added; that the clock reads exactly that value is left   *)
(* out, so a grant is accepted, and its entry kept, up to that step.       *)
(***************************************************************************)
EXTENDS Naturals, FiniteSets, Sequences

CONSTANTS
  Calls,         \* the processes that run send()
  Plans,         \* source ticket and message, as the hash of the plan names them
  Addresses,     \* recipients there may be
  RecipientsOf,  \* recipients of the message, in order, without repetition
  Grants,        \* grants that callers hold, by jti
  NoGrant,       \* an empty apply_grant
  Nobody,        \* nobody holds the lock
  PlanOf,        \* the plan hash a grant was signed for
  Signed,        \* the grants with a good signature
  LastMoment,    \* expires_at + GRANT_CLOCK_SKEW_SECONDS
  Prompt,        \* no grant expires between its verification and its consumption
  EndOfTime      \* bound: steps of the clock

ASSUME EmailAssumption ==
  /\ RecipientsOf \in [Plans -> Seq(Addresses)]
  /\ \A p \in Plans : \A i, j \in DOMAIN RecipientsOf[p] :
       RecipientsOf[p][i] = RecipientsOf[p][j] => i = j
  /\ Plans # {} /\ NoGrant \notin Grants /\ Nobody \notin Calls
  /\ PlanOf \in [Grants -> Plans]
  /\ Signed \subseteq Grants
  /\ LastMoment \in [Grants -> Nat]
  /\ Prompt \in BOOLEAN
  /\ EndOfTime \in Nat

VARIABLES
  now,       \* the clock
  store,     \* APPLY_GRANT_JTI_STORE: grants with an entry, or not readable as a store
  readable,  \* whether that file is absent or well formed
  lock,      \* the call that holds the flock on the lock file, or Nobody
  call,      \* the running calls
  mail       \* messages the SMTP server took, by grant and recipient

emailVars == <<now, store, readable, lock, call, mail>>

Waiting == {"idle", "verify", "preflight", "lock", "inspect", "replace", "connect", "send", "quit"}
Ended == {"refused", "planned", "failed", "sent", "crashed"}

\* A call: the plan built from its arguments, the apply flag, the plan hash and the grant it
\* was given, the entries it has read, and how many recipients it has receipts for.
CallState ==
  [pc : Waiting \cup Ended, plan : Plans, apply : BOOLEAN, hash : Plans,
   grant : Grants \cup {NoGrant}, entries : SUBSET Grants, receipts : Nat]

Uncalled ==
  [pc |-> "idle", plan |-> CHOOSE p \in Plans : TRUE, apply |-> FALSE,
   hash |-> CHOOSE p \in Plans : TRUE, grant |-> NoGrant, entries |-> {}, receipts |-> 0]

EmailTypeOK ==
  /\ now \in Nat
  /\ store \in SUBSET Grants
  /\ readable \in BOOLEAN
  /\ lock \in Calls \cup {Nobody}
  /\ call \in [Calls -> CallState]
  /\ mail \in [Grants -> [Addresses -> Nat]]

EmailInit ==
  /\ now = 0
  /\ store = {}
  /\ readable \in BOOLEAN
  /\ lock = Nobody
  /\ call = [c \in Calls |-> Uncalled]
  /\ mail = [g \in Grants |-> [r \in Addresses |-> 0]]
------------------------------------------------------------------------------
At(c, pc) == call[c].pc = pc
Go(c, pc) == call' = [call EXCEPT ![c].pc = pc]

\* send() is called with some message, apply flag, plan hash and grant: _build_plan, and the
\* plan hash that an apply must repeat.
Build(c) ==
  /\ At(c, "idle")
  /\ \E p, h \in Plans, a \in BOOLEAN, g \in Grants \cup {NoGrant} :
       call' = [call EXCEPT ![c] = [@ EXCEPT !.plan = p, !.apply = a, !.hash = h, !.grant = g, !.pc =
                  IF RecipientsOf[p] = <<>> \/ (a /\ h # p) THEN "refused"
                  ELSE IF a THEN "verify" ELSE "preflight"]]
  /\ UNCHANGED <<now, store, readable, lock, mail>>

\* Mutant: the plan of the grant is not compared.
AcceptableForAny(g, plan) == g \in Signed /\ now <= LastMoment[g]

\* _verify_grant: there is a grant, it is signed, not expired, and for this very plan.
Acceptable(g, plan) == g \in Signed /\ now <= LastMoment[g] /\ PlanOf[g] = plan

Verify(c) ==
  /\ At(c, "verify")
  /\ Go(c, IF Acceptable(call[c].grant, call[c].plan) THEN "preflight" ELSE "refused")
  /\ UNCHANGED <<now, store, readable, lock, mail>>

\* _smtp_settings with the password leased from the vault, and _preflight: each may fail.
Preflight(c) ==
  /\ At(c, "preflight")
  /\ \/ Go(c, IF call[c].apply THEN "lock" ELSE "planned")
     \/ Go(c, "refused")
  /\ UNCHANGED <<now, store, readable, lock, mail>>

\* _consume_grant: flock(LOCK_EX).
Acquire(c) ==
  /\ At(c, "lock") /\ lock = Nobody
  /\ lock' = c
  /\ Go(c, "inspect")
  /\ UNCHANGED <<now, store, readable, mail>>

\* Mutant: the entries are dropped as soon as expires_at is over, without the skew.
InspectWithoutSkew(c) ==
  /\ At(c, "inspect")
  /\ LET kept == {g \in store : now < LastMoment[g]}
     IN  IF readable /\ call[c].grant \notin kept
         THEN /\ call' = [call EXCEPT ![c].pc = "replace", ![c].entries = kept]
              /\ UNCHANGED lock
         ELSE Go(c, "refused") /\ lock' = Nobody
  /\ UNCHANGED <<now, store, readable, mail>>

\* Mutant: a refused call leaves the lock to its process, which lives on.
InspectKeepsLock(c) ==
  /\ At(c, "inspect")
  /\ LET kept == {g \in store : now <= LastMoment[g]}
     IN  IF readable /\ call[c].grant \notin kept
         THEN call' = [call EXCEPT ![c].pc = "replace", ![c].entries = kept]
         ELSE Go(c, "refused")
  /\ UNCHANGED <<now, store, readable, lock, mail>>

\* The entries that are not over yet; a replay, or a file that is no store, ends the call.
Inspect(c) ==
  /\ At(c, "inspect")
  /\ LET kept == {g \in store : now <= LastMoment[g]}
     IN  IF readable /\ call[c].grant \notin kept
         THEN /\ call' = [call EXCEPT ![c].pc = "replace", ![c].entries = kept]
              /\ UNCHANGED lock
         ELSE Go(c, "refused") /\ lock' = Nobody
  /\ UNCHANGED <<now, store, readable, mail>>

\* os.replace of the store by the entries that were read and the new one; the lock is freed.
Replace(c) ==
  /\ At(c, "replace")
  /\ store' = call[c].entries \cup {call[c].grant}
  /\ lock' = Nobody
  /\ Go(c, "connect")
  /\ UNCHANGED <<now, readable, mail>>

\* _deliver: _open_smtp, then one message after the other.
Connect(c) ==
  /\ At(c, "connect")
  /\ Go(c, "send") \/ Go(c, "failed")
  /\ UNCHANGED <<now, store, readable, lock, mail>>

Next_(c) == RecipientsOf[call[c].plan][call[c].receipts + 1]
Taken(c) == mail' = [mail EXCEPT ![call[c].grant][Next_(c)] = @ + 1]

\* The server takes a message, and says so; or the exchange fails before or after it took it.
SendOne(c) ==
  /\ At(c, "send") /\ call[c].receipts < Len(RecipientsOf[call[c].plan])
  /\ \/ Taken(c) /\ call' = [call EXCEPT ![c].receipts = @ + 1]
     \/ Taken(c) /\ Go(c, "quit")
     \/ UNCHANGED mail /\ Go(c, "quit")
  /\ UNCHANGED <<now, store, readable, lock>>

\* smtp.quit of a finished or failed delivery; it may fail itself, and then nothing is sent
\* as far as the caller hears.
AllSent(c) == call[c].receipts = Len(RecipientsOf[call[c].plan])
\* Mutant: a failed exchange is taken for an accepted one.
QuitRegardless(c) ==
  /\ At(c, "quit") \/ (At(c, "send") /\ AllSent(c))
  /\ Go(c, "sent") \/ Go(c, "failed")
  /\ UNCHANGED <<now, store, readable, lock, mail>>

Quit(c) ==
  /\ At(c, "quit") \/ (At(c, "send") /\ AllSent(c))
  /\ \/ AllSent(c) /\ Go(c, "sent")
     \/ Go(c, "failed")
  /\ UNCHANGED <<now, store, readable, lock, mail>>

\* The process of a call dies; the kernel frees its lock. The store is whole at any time.
Crash(c) ==
  /\ call[c].pc \notin Ended
  /\ Go(c, "crashed")
  /\ lock' = IF lock = c THEN Nobody ELSE lock
  /\ UNCHANGED <<now, store, readable, mail>>

Verified(c) == call[c].apply /\ call[c].pc \in {"preflight", "lock", "inspect"}

Tick ==
  /\ now < EndOfTime
  /\ Prompt => \A c \in Calls : Verified(c) => now < LastMoment[call[c].grant]
  /\ now' = now + 1
  /\ UNCHANGED <<store, readable, lock, call, mail>>

Step(c) ==
  \/ Build(c) \/ Verify(c) \/ Preflight(c)
  \/ Acquire(c) \/ Inspect(c) \/ Replace(c)
  \/ Connect(c) \/ SendOne(c) \/ Quit(c)

EmailNext == Tick \/ \E c \in Calls : Step(c) \/ Crash(c)

\* A call goes on as long as its process lives; there are finitely many calls, so the lock is
\* free for good in the end and a waiting flock is granted.
EmailSpec == EmailInit /\ [][EmailNext]_emailVars
Fair == \A c \in Calls : WF_emailVars(Step(c))
FairEmailSpec == EmailSpec /\ Fair
------------------------------------------------------------------------------
\* A grant is good for one delivery: no recipient gets a message twice under it, whatever
\* calls run with it at once, crash, or come again later ("signed one-time grant", send).
AtMostOnce == \A g \in Grants, r \in Addresses : mail[g][r] <= 1

\* Only a message that was approved is sent: under a grant with a good signature, to the
\* recipients of the plan it was signed for, and never after a refusal of the store.
ApprovedOnly ==
  \A g \in Grants, r \in Addresses : mail[g][r] > 0 =>
    /\ g \in Signed /\ readable
    /\ \E i \in DOMAIN RecipientsOf[PlanOf[g]] : RecipientsOf[PlanOf[g]][i] = r

\* A call that reports success has reached every recipient of its plan; partial deliveries
\* and lost answers are reported as failures.
ReportedIsSent ==
  \A c \in Calls : At(c, "sent") =>
    \A i \in DOMAIN RecipientsOf[call[c].plan] : mail[call[c].grant][RecipientsOf[call[c].plan][i]] > 0

\* Every call ends: the lock on the replay store is never left behind by one that failed,
\* found a replay or died.
CallsEnd == \A c \in Calls : <>(call[c].pc \in Ended)
==============================================================================
