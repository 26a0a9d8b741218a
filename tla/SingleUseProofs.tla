---------------------------- MODULE SingleUseProofs ---------------------------
(***************************************************************************)
(* Proofs about ApprovedEmail, GuardExport and ChangeLease, for any number *)
(* of calls, plans, grants, invocations, actors, controllers and heads, and*)
(* about the composition of these with the interrupted allocation.         *)
(***************************************************************************)
EXTENDS SingleUse, TLAPS

------------------------------------------------------------------------------
(* Part 1: the email connector.                                            *)

-----------------------------------------------------------------------------
(* Type correctness.                                                       *)

\* The calls that have an accepted grant and go on to use it, or have used it.
Using(c) ==
  \/ call[c].apply /\ At(c, "preflight")
  \/ call[c].pc \in {"lock", "inspect", "replace", "connect", "send", "quit", "sent"}

\* The grant of such a call was signed for the plan of the call.
Authorized ==
  \A c \in Calls : Using(c) => /\ call[c].grant \in Signed
                               /\ PlanOf[call[c].grant] = call[c].plan

\* A recipient that is next is an address.
LEMMA NextTyped ==
  ASSUME EmailTypeOK, NEW c \in Calls, call[c].receipts < Len(RecipientsOf[call[c].plan])
  PROVE  /\ call[c].receipts + 1 \in DOMAIN RecipientsOf[call[c].plan]
         /\ Next_(c) \in Addresses
<1>1. RecipientsOf[call[c].plan] \in Seq(Addresses) /\ call[c].receipts \in Nat
  BY EmailAssumption DEF EmailTypeOK, CallState
<1> QED BY <1>1 DEF Next_

\* The initial state has the declared types, and no call uses a grant.
LEMMA EmailTypeInit == EmailInit => EmailTypeOK /\ Authorized
<1> SUFFICES ASSUME EmailInit PROVE EmailTypeOK /\ Authorized
  OBVIOUS
<1>1. Uncalled \in CallState
  BY EmailAssumption DEF Uncalled, CallState, Waiting
<1> QED BY <1>1 DEF EmailInit, EmailTypeOK, Authorized, Using, At, Uncalled

\* What a call was asked for stays what it was.
SameRequest(c) ==
  /\ call'[c].plan = call[c].plan /\ call'[c].apply = call[c].apply
  /\ call'[c].grant = call[c].grant

\* A call that goes on to another step stays as it is otherwise.
LEMMA GoChanges ==
  ASSUME EmailTypeOK, NEW c \in Calls, NEW place \in Waiting \cup Ended, Go(c, place)
  PROVE  /\ call' \in [Calls -> CallState]
         /\ call'[c].pc = place /\ call'[c].receipts = call[c].receipts
         /\ call'[c].entries = call[c].entries
         /\ SameRequest(c)
         /\ \A d \in Calls \ {c} : call'[d] = call[d]
<1> DEFINE r == [call[c] EXCEPT !.pc = place]
<1>1. call \in [Calls -> CallState] /\ call[c] \in CallState
  BY DEF EmailTypeOK
<1>2. /\ r \in CallState /\ r.pc = place /\ r.receipts = call[c].receipts
      /\ r.entries = call[c].entries
      /\ r.plan = call[c].plan /\ r.apply = call[c].apply /\ r.grant = call[c].grant
  BY <1>1 DEF CallState
<1>3. call' = [call EXCEPT ![c] = r]
  BY DEF Go
<1> QED BY <1>1, <1>2, <1>3 DEF SameRequest

\* What a sending call does: a receipt more, or the end of the exchange.
LEMMA SendChanges ==
  ASSUME EmailTypeOK, NEW c \in Calls, SendOne(c)
  PROVE  /\ call' \in [Calls -> CallState]
         /\ \/ /\ Taken(c)
               /\ call'[c].pc = "send" /\ call'[c].receipts = call[c].receipts + 1
            \/ /\ Taken(c) \/ UNCHANGED mail
               /\ call'[c].pc = "quit" /\ call'[c].receipts = call[c].receipts
         /\ SameRequest(c)
         /\ \A d \in Calls \ {c} : call'[d] = call[d]
<1> DEFINE r == [call[c] EXCEPT !.receipts = @ + 1]
<1>1. call \in [Calls -> CallState] /\ call[c] \in CallState
  BY DEF EmailTypeOK
<1>2. /\ r \in CallState /\ r.pc = call[c].pc /\ r.receipts = call[c].receipts + 1
      /\ r.plan = call[c].plan /\ r.apply = call[c].apply /\ r.grant = call[c].grant
  BY <1>1 DEF CallState
<1>3. CASE call' = [call EXCEPT ![c].receipts = @ + 1] /\ Taken(c)
  <2>1. call' = [call EXCEPT ![c] = r]
    BY <1>3
  <2> QED BY <1>1, <1>2, <1>3, <2>1 DEF SendOne, At, SameRequest
<1>4. CASE Go(c, "quit") /\ (Taken(c) \/ UNCHANGED mail)
  BY <1>4, GoChanges DEF Waiting
<1> QED BY <1>3, <1>4 DEF SendOne

\* A message that the server took counts for one grant and one recipient.
LEMMA TakenChanges ==
  ASSUME EmailTypeOK, NEW c \in Calls, call[c].grant \in Grants,
         call[c].receipts < Len(RecipientsOf[call[c].plan]), Taken(c)
  PROVE  /\ mail' \in [Grants -> [Addresses -> Nat]]
         /\ \A g \in Grants, r \in Addresses :
              mail'[g][r] = IF g = call[c].grant /\ r = Next_(c) THEN mail[g][r] + 1 ELSE mail[g][r]
<1> DEFINE g == call[c].grant
           n == Next_(c)
           m == [mail[g] EXCEPT ![n] = @ + 1]
<1>1. n \in Addresses /\ g \in Grants /\ mail \in [Grants -> [Addresses -> Nat]]
  BY NextTyped DEF EmailTypeOK
<1>2. mail' = [mail EXCEPT ![g] = m]
  BY DEF Taken
<1> HIDE DEF g, n
<1>3. /\ m \in [Addresses -> Nat]
      /\ \A r \in Addresses : m[r] = IF r = n THEN mail[g][r] + 1 ELSE mail[g][r]
  BY <1>1
<1> HIDE DEF m
<1> QED BY <1>1, <1>2, <1>3 DEF g, n

\* What a call reads of the store: the entries that are not over yet.
LEMMA InspectChanges ==
  ASSUME EmailTypeOK, NEW c \in Calls, Inspect(c)
  PROVE  /\ call' \in [Calls -> CallState]
         /\ \/ /\ readable /\ call[c].grant \notin {g \in store : now <= LastMoment[g]}
               /\ call'[c].pc = "replace" /\ lock' = lock
               /\ call'[c].entries = {g \in store : now <= LastMoment[g]}
            \/ call'[c].pc = "refused" /\ lock' = Nobody
         /\ call'[c].receipts = call[c].receipts
         /\ SameRequest(c)
         /\ \A d \in Calls \ {c} : call'[d] = call[d]
<1> DEFINE kept == {g \in store : now <= LastMoment[g]}
<1>1. call \in [Calls -> CallState] /\ call[c] \in CallState /\ kept \in SUBSET Grants
  BY DEF EmailTypeOK
<1> DEFINE r == [call[c] EXCEPT !.pc = "replace", !.entries = kept]
<1>2. /\ r \in CallState /\ r.pc = "replace" /\ r.entries = kept
      /\ r.receipts = call[c].receipts
      /\ r.plan = call[c].plan /\ r.apply = call[c].apply /\ r.grant = call[c].grant
  BY <1>1 DEF CallState, Waiting
<1>3. CASE readable /\ call[c].grant \notin kept
  <2>1. call' = [call EXCEPT ![c] = r] /\ lock' = lock
    BY <1>3 DEF Inspect
  <2> HIDE DEF kept
  <2> QED BY <1>1, <1>2, <1>3, <2>1 DEF SameRequest, kept
<1>4. CASE ~(readable /\ call[c].grant \notin kept)
  <2>1. Go(c, "refused") /\ lock' = Nobody
    BY <1>4 DEF Inspect
  <2> QED BY <2>1, GoChanges DEF Ended
<1> QED BY <1>3, <1>4

\* The call that is built.
LEMMA BuildChanges ==
  ASSUME EmailTypeOK, NEW c \in Calls, Build(c)
  PROVE  /\ call' \in [Calls -> CallState]
         /\ call'[c].pc \in {"refused", "verify", "preflight"}
         /\ call'[c].pc = "preflight" => ~call'[c].apply
         /\ call'[c].receipts = call[c].receipts
         /\ \A d \in Calls \ {c} : call'[d] = call[d]
<1>1. PICK p \in Plans, h \in Plans, a \in BOOLEAN, g \in Grants \cup {NoGrant} :
         call' = [call EXCEPT ![c] = [@ EXCEPT !.plan = p, !.apply = a, !.hash = h, !.grant = g, !.pc =
                    IF RecipientsOf[p] = <<>> \/ (a /\ h # p) THEN "refused"
                    ELSE IF a THEN "verify" ELSE "preflight"]]
  BY DEF Build
<1> DEFINE place == IF RecipientsOf[p] = <<>> \/ (a /\ h # p) THEN "refused"
                 ELSE IF a THEN "verify" ELSE "preflight"
           r  == [call[c] EXCEPT !.plan = p, !.apply = a, !.hash = h, !.grant = g, !.pc = place]
<1>2. call \in [Calls -> CallState] /\ call[c] \in CallState
  BY DEF EmailTypeOK
<1>3. place \in {"refused", "verify", "preflight"} /\ (place = "preflight" => ~a)
  OBVIOUS
<1> HIDE DEF place
<1>4. r \in CallState /\ r.pc = place /\ r.apply = a /\ r.receipts = call[c].receipts
  BY <1>2, <1>3 DEF CallState, Waiting, Ended
<1>5. call' = [call EXCEPT ![c] = r]
  BY <1>1 DEF place
<1> QED BY <1>2, <1>3, <1>4, <1>5

\* Every step of a call keeps both.
LEMMA TypeStep ==
  ASSUME EmailTypeOK, Authorized, NEW c \in Calls, Step(c) \/ Crash(c)
  PROVE  EmailTypeOK' /\ Authorized'
<1> USE DEF Waiting, Ended
<1>1. call[c] \in CallState /\ call[c].receipts \in Nat
  BY DEF EmailTypeOK, CallState
<1>2. CASE Build(c)
  <2>1. Authorized'
    BY <1>2, BuildChanges DEF Authorized, Using, At
  <2> QED BY <1>2, <2>1, BuildChanges DEF Build, EmailTypeOK
<1>3. CASE Verify(c)
  <2>1. /\ Go(c, "refused") \/ (Go(c, "preflight") /\ Acceptable(call[c].grant, call[c].plan))
        /\ UNCHANGED <<now, store, readable, lock, mail>>
    BY <1>3 DEF Verify
  <2> QED BY <1>1, <2>1, GoChanges DEF EmailTypeOK, Acceptable, SameRequest, Authorized, Using, At
<1>4. CASE Preflight(c)
  BY <1>1, <1>4, GoChanges DEF Preflight, EmailTypeOK, SameRequest, Authorized, Using, At
<1>5. CASE Acquire(c)
  BY <1>1, <1>5, GoChanges DEF Acquire, EmailTypeOK, SameRequest, Authorized, Using, At
<1>6. CASE Inspect(c)
  <2>1. lock' \in Calls \cup {Nobody}
    BY <1>6, InspectChanges DEF EmailTypeOK
  <2>2. Authorized'
    BY <1>1, <1>6, InspectChanges DEF Inspect, SameRequest, Authorized, Using, At
  <2> QED BY <1>6, <2>1, <2>2, InspectChanges DEF Inspect, EmailTypeOK
<1>7. CASE Replace(c)
  <2>1. call[c].grant \in Grants
    BY <1>7, EmailAssumption DEF Replace, At, Authorized, Using
  <2>2. store' \in SUBSET Grants
    BY <1>1, <1>7, <2>1 DEF Replace, CallState
  <2> QED BY <1>1, <1>7, <2>2, GoChanges DEF Replace, EmailTypeOK, SameRequest, Authorized, Using, At
<1>8. CASE Connect(c)
  BY <1>1, <1>8, GoChanges DEF Connect, EmailTypeOK, SameRequest, Authorized, Using, At
<1>9. CASE SendOne(c)
  <2>1. mail' \in [Grants -> [Addresses -> Nat]]
    <3>1. call[c].grant \in Grants /\ call[c].receipts < Len(RecipientsOf[call[c].plan])
      BY <1>9, EmailAssumption DEF SendOne, At, Authorized, Using
    <3>2. Taken(c) \/ UNCHANGED mail
      BY <1>9 DEF SendOne
    <3> QED BY <3>1, <3>2, TakenChanges DEF EmailTypeOK
  <2>2. Authorized'
    BY <1>1, <1>9, SendChanges DEF SendOne, SameRequest, Authorized, Using, At
  <2> QED BY <1>9, <2>1, <2>2, SendChanges DEF SendOne, EmailTypeOK
<1>10. CASE Quit(c)
  BY <1>1, <1>10, GoChanges DEF Quit, EmailTypeOK, SameRequest, Authorized, Using, At
<1>11. CASE Crash(c)
  BY <1>1, <1>11, GoChanges DEF Crash, EmailTypeOK, SameRequest, Authorized, Using, At
<1> QED BY <1>2, <1>3, <1>4, <1>5, <1>6, <1>7, <1>8, <1>9, <1>10, <1>11 DEF Step

\* Every step keeps both.
LEMMA EmailTypeNext == EmailTypeOK /\ Authorized /\ [EmailNext]_emailVars => EmailTypeOK' /\ Authorized'
<1> SUFFICES ASSUME EmailTypeOK, Authorized, [EmailNext]_emailVars
             PROVE  EmailTypeOK' /\ Authorized'
  OBVIOUS
<1>1. CASE Tick
  BY <1>1 DEF Tick, EmailTypeOK, Authorized, Using, At
<1>2. CASE UNCHANGED emailVars
  BY <1>2 DEF emailVars, EmailTypeOK, Authorized, Using, At
<1> QED BY <1>1, <1>2, TypeStep DEF EmailNext

\* The types of all variables.
THEOREM EmailTypeCorrect == EmailSpec => []EmailTypeOK
  BY EmailTypeInit, EmailTypeNext, PTL DEF EmailSpec

\* Types and grants always.
LEMMA TypeAlways == EmailSpec => [](EmailTypeOK /\ Authorized)
  BY EmailTypeInit, EmailTypeNext, PTL DEF EmailSpec

-----------------------------------------------------------------------------
(* What is sent was approved.                                              *)

\* From its turn on the store to its last message, a call may send.
Delivering(c) == call[c].pc \in {"replace", "connect", "send"}

\* Nobody sends who could not read the store.
StoreWasReadable == \A c \in Calls : Delivering(c) => readable

\* A step of a call keeps it, and what is sent is approved.
LEMMA ApprovedStep ==
  ASSUME EmailTypeOK, Authorized, StoreWasReadable, ApprovedOnly,
         NEW c \in Calls, Step(c) \/ Crash(c)
  PROVE  StoreWasReadable' /\ ApprovedOnly'
<1> USE DEF StoreWasReadable, Delivering, At
<1>1. ASSUME ~SendOne(c) PROVE ApprovedOnly'
  <2>1. UNCHANGED <<mail, readable>>
    BY <1>1 DEF Step, Crash, Build, Verify, Preflight, Acquire, Inspect, Replace, Connect, Quit
  <2> QED BY <2>1 DEF ApprovedOnly
<1>2. CASE Build(c)
  BY <1>1, <1>2, BuildChanges DEF Build, SendOne
<1>3. CASE Verify(c)
  BY <1>1, <1>3, GoChanges DEF Verify, SendOne, Waiting, Ended
<1>4. CASE Preflight(c)
  BY <1>1, <1>4, GoChanges DEF Preflight, SendOne, Waiting, Ended
<1>5. CASE Acquire(c)
  BY <1>1, <1>5, GoChanges DEF Acquire, SendOne, Waiting, Ended
<1>6. CASE Inspect(c)
  BY <1>1, <1>6, InspectChanges DEF Inspect, SendOne
<1>7. CASE Replace(c)
  BY <1>1, <1>7, GoChanges DEF Replace, SendOne, Waiting, Ended
<1>8. CASE Connect(c)
  BY <1>1, <1>8, GoChanges DEF Connect, SendOne, Waiting, Ended
<1>9. CASE SendOne(c)
  <2>1. /\ call[c].grant \in Signed /\ call[c].grant \in Grants /\ readable
        /\ PlanOf[call[c].grant] = call[c].plan
        /\ call[c].receipts < Len(RecipientsOf[call[c].plan])
    BY <1>9, EmailAssumption DEF SendOne, Authorized, Using
  <2>2. StoreWasReadable'
    BY <1>9, SendChanges DEF SendOne
  <2>3. ASSUME NEW g \in Grants, NEW r \in Addresses, mail'[g][r] > 0
        PROVE  /\ g \in Signed /\ readable
               /\ \E i \in DOMAIN RecipientsOf[PlanOf[g]] : RecipientsOf[PlanOf[g]][i] = r
    <3>1. CASE mail[g][r] > 0
      BY <3>1 DEF ApprovedOnly
    <3>2. CASE ~(mail[g][r] > 0)
      <4>1. Taken(c)
        BY <1>9, <2>3, <3>2 DEF SendOne
      <4>2. g = call[c].grant /\ r = Next_(c)
        BY <2>1, <2>3, <3>2, <4>1, TakenChanges
      <4> QED BY <2>1, <4>2, NextTyped DEF Next_
    <3> QED BY <3>1, <3>2
  <2> QED BY <1>9, <2>2, <2>3 DEF SendOne, ApprovedOnly
<1>10. CASE Quit(c)
  BY <1>1, <1>10, GoChanges DEF Quit, SendOne, Waiting, Ended, ApprovedOnly
<1>11. CASE Crash(c)
  BY <1>1, <1>11, GoChanges DEF Crash, Ended, ApprovedOnly
<1> QED BY <1>2, <1>3, <1>4, <1>5, <1>6, <1>7, <1>8, <1>9, <1>10, <1>11 DEF Step

\* Only messages that were approved are sent, to recipients of the approved plan, under a
\* signed grant and a readable store; for calls that expire, too.
THEOREM SentIsApproved == EmailSpec => []ApprovedOnly
<1>1. EmailInit => StoreWasReadable /\ ApprovedOnly
  BY DEF EmailInit, StoreWasReadable, Delivering, ApprovedOnly, Uncalled
<1>2. ASSUME EmailTypeOK, Authorized, StoreWasReadable, ApprovedOnly, [EmailNext]_emailVars
      PROVE  StoreWasReadable' /\ ApprovedOnly'
  <2>1. CASE Tick
    BY <1>2, <2>1 DEF Tick, StoreWasReadable, Delivering, ApprovedOnly
  <2>2. CASE UNCHANGED emailVars
    BY <1>2, <2>2 DEF emailVars, StoreWasReadable, Delivering, ApprovedOnly
  <2> QED BY <1>2, <2>1, <2>2, ApprovedStep DEF EmailNext
<1> QED BY <1>1, <1>2, TypeAlways, PTL DEF EmailSpec

-----------------------------------------------------------------------------
(* What is reported was sent.                                              *)

Recipients(c) == RecipientsOf[call[c].plan]

\* A call has a receipt for the first recipients of its plan, each of whom was sent the
\* message, and none before it delivers; one that succeeded has a receipt for each.
ReceiptsAreHonest ==
  \A c \in Calls :
    /\ call[c].pc \in Waiting \ {"send", "quit"} => call[c].receipts = 0
    /\ call[c].pc \in {"send", "quit", "sent"} =>
         /\ call[c].receipts <= Len(Recipients(c))
         /\ \A i \in 1..call[c].receipts : mail[call[c].grant][Recipients(c)[i]] > 0
    /\ At(c, "sent") => call[c].receipts = Len(Recipients(c))

\* Mail that was taken stays taken.
LEMMA MailGrows ==
  ASSUME EmailTypeOK, Authorized, [EmailNext]_emailVars
  PROVE  \A g \in Grants, r \in Addresses : mail[g][r] > 0 => mail'[g][r] > 0
<1>1. ASSUME NEW c \in Calls, SendOne(c), Taken(c)
      PROVE  \A g \in Grants, r \in Addresses : mail[g][r] > 0 => mail'[g][r] > 0
  <2>1. call[c].grant \in Grants /\ call[c].receipts < Len(RecipientsOf[call[c].plan])
    BY <1>1, EmailAssumption DEF SendOne, At, Authorized, Using
  <2>2. \A g \in Grants, r \in Addresses : mail[g][r] \in Nat
    BY DEF EmailTypeOK
  <2>3. \A g \in Grants, r \in Addresses : mail'[g][r] \in {mail[g][r], mail[g][r] + 1}
    BY <1>1, <2>1, TakenChanges
  <2> QED BY <2>2, <2>3
<1>2. CASE UNCHANGED mail
  BY <1>2
<1>3. (\E c \in Calls : SendOne(c) /\ Taken(c)) \/ UNCHANGED mail
  BY DEF EmailNext, Tick, Step, Crash, Build, Verify, Preflight, Acquire, Inspect, Replace,
         Connect, SendOne, Quit, emailVars
<1> QED BY <1>1, <1>2, <1>3

\* A step of one call keeps the receipts of all honest.
LEMMA ReceiptsStep ==
  ASSUME EmailTypeOK, Authorized, ReceiptsAreHonest, NEW c \in Calls, Step(c) \/ Crash(c)
  PROVE  ReceiptsAreHonest'
<1> DEFINE Honest(d) ==
      /\ call[d].pc \in Waiting \ {"send", "quit"} => call[d].receipts = 0
      /\ call[d].pc \in {"send", "quit", "sent"} =>
           /\ call[d].receipts <= Len(Recipients(d))
           /\ \A i \in 1..call[d].receipts : mail[call[d].grant][Recipients(d)[i]] > 0
      /\ At(d, "sent") => call[d].receipts = Len(Recipients(d))
<1>1. \A d \in Calls : Honest(d)
  BY DEF ReceiptsAreHonest
<1>2. \A g \in Grants, r \in Addresses : mail[g][r] > 0 => mail'[g][r] > 0
  BY MailGrows DEF EmailNext
<1>3. ASSUME NEW d \in Calls, call'[d].pc \in {"send", "quit", "sent"},
             call[d].pc \in {"send", "quit", "sent"}, SameRequest(d),
             NEW i \in 1..call[d].receipts
      PROVE  mail'[call'[d].grant][Recipients(d)'[i]] > 0
  <2>1. call[d].grant \in Grants /\ call[d].plan \in Plans /\ call[d].receipts \in Nat
    BY <1>3, EmailAssumption DEF Authorized, Using, EmailTypeOK, CallState
  <2>2. Recipients(d) \in Seq(Addresses)
    BY <2>1, EmailAssumption DEF Recipients
  <2>3. i \in DOMAIN Recipients(d) /\ mail[call[d].grant][Recipients(d)[i]] > 0
    BY <1>1, <1>3, <2>1, <2>2
  <2> QED BY <1>2, <1>3, <2>1, <2>2, <2>3 DEF SameRequest, Recipients
<1>4. ASSUME NEW d \in Calls, call'[d] = call[d]
      PROVE  Honest(d)'
  <2>1. SameRequest(d)
    BY <1>4 DEF SameRequest
  <2> QED BY <1>1, <1>3, <1>4, <2>1 DEF Recipients, At
<1>5. call[c].receipts \in Nat /\ call[c].plan \in Plans
  BY DEF EmailTypeOK, CallState
<1> USE DEF Waiting, Ended
<1>6. Honest(c)'
  <2>1. CASE Build(c)
    BY <1>1, <2>1, BuildChanges DEF Build, At
  <2>2. CASE Verify(c) \/ Preflight(c) \/ Acquire(c) \/ Replace(c)
    BY <1>1, <2>2, GoChanges DEF Verify, Preflight, Acquire, Replace, At
  <2>3. CASE Inspect(c)
    BY <1>1, <2>3, InspectChanges DEF Inspect, At
  <2>4. CASE Connect(c)
    <3>1. call[c].receipts = 0 /\ call'[c].receipts = 0 /\ call'[c].pc \in {"send", "failed"}
      BY <1>1, <2>4, GoChanges DEF Connect, At
    <3>2. Len(Recipients(c)') \in Nat
      BY <2>4, <1>5, EmailAssumption, GoChanges DEF Connect, SameRequest, Recipients
    <3> QED BY <3>1, <3>2 DEF At
  <2>5. CASE SendOne(c)
    <3>1. call[c].receipts < Len(Recipients(c)) /\ call[c].grant \in Grants
      BY <2>5, EmailAssumption DEF SendOne, At, Authorized, Using, Recipients
    <3>2. Recipients(c)' = Recipients(c) /\ Recipients(c) \in Seq(Addresses)
      BY <2>5, <1>5, EmailAssumption, SendChanges DEF SameRequest, Recipients
    <3>3. CASE /\ Taken(c)
               /\ call'[c].pc = "send" /\ call'[c].receipts = call[c].receipts + 1
      <4>1. ASSUME NEW i \in 1..call'[c].receipts
            PROVE  mail'[call'[c].grant][Recipients(c)'[i]] > 0
        <5>1. CASE i \in 1..call[c].receipts
          BY <1>3, <2>5, <3>3, <5>1, SendChanges DEF SendOne, At
        <5>2. CASE i = call[c].receipts + 1
          <6>1. Recipients(c)[i] = Next_(c) /\ Next_(c) \in Addresses
            BY <3>1, <5>2, NextTyped DEF Next_, Recipients
          <6>2. mail'[call[c].grant][Next_(c)] = mail[call[c].grant][Next_(c)] + 1
            BY <3>1, <3>3, <6>1, TakenChanges DEF Recipients
          <6>3. mail[call[c].grant][Next_(c)] \in Nat
            BY <3>1, <6>1 DEF EmailTypeOK
          <6> QED BY <2>5, <3>2, <6>1, <6>2, <6>3, SendChanges DEF SameRequest
        <5> QED BY <1>5, <3>3, <4>1, <5>1, <5>2
      <4>2. call'[c].receipts <= Len(Recipients(c)')
        BY <1>5, <3>1, <3>2, <3>3
      <4> QED BY <3>3, <4>1, <4>2 DEF At
    <3>4. CASE call'[c].pc = "quit" /\ call'[c].receipts = call[c].receipts
      BY <1>1, <1>3, <2>5, <3>2, <3>4, SendChanges DEF SendOne, At
    <3> QED BY <2>5, <3>3, <3>4, SendChanges
  <2>6. CASE Quit(c)
    <3>1. /\ call[c].pc \in {"send", "quit"} /\ call'[c].receipts = call[c].receipts
          /\ call'[c].pc \in {"sent", "failed"} /\ SameRequest(c)
          /\ call'[c].pc = "sent" => call[c].receipts = Len(Recipients(c))
      BY <2>6, GoChanges DEF Quit, At, AllSent, Recipients
    <3> QED BY <1>1, <1>3, <3>1 DEF SameRequest, Recipients, At
  <2>7. CASE Crash(c)
    BY <1>1, <2>7, GoChanges DEF Crash, At
  <2> QED BY <2>1, <2>2, <2>3, <2>4, <2>5, <2>6, <2>7 DEF Step
<1>7. \A d \in Calls \ {c} : call'[d] = call[d]
  <2>1. CASE Build(c) \/ Inspect(c) \/ SendOne(c)
    BY <2>1, BuildChanges, InspectChanges, SendChanges
  <2>2. CASE \E place \in Waiting \cup Ended : Go(c, place)
    BY <2>2, GoChanges
  <2> QED BY <2>1, <2>2 DEF Step, Verify, Preflight, Acquire, Replace, Connect, Quit, Crash
<1> QED BY <1>4, <1>6, <1>7 DEF ReceiptsAreHonest

\* The receipts of all calls are honest always.
LEMMA ReceiptsAlways == EmailSpec => []ReceiptsAreHonest
<1>1. EmailInit => ReceiptsAreHonest
  BY DEF EmailInit, ReceiptsAreHonest, Uncalled, At
<1>2. ASSUME EmailTypeOK, Authorized, ReceiptsAreHonest, [EmailNext]_emailVars
      PROVE  ReceiptsAreHonest'
  <2>1. CASE Tick
    BY <1>2, <2>1 DEF Tick, ReceiptsAreHonest, Recipients, At
  <2>2. CASE UNCHANGED emailVars
    BY <1>2, <2>2 DEF emailVars, ReceiptsAreHonest, Recipients, At
  <2> QED BY <1>2, <2>1, <2>2, ReceiptsStep DEF EmailNext
<1> QED BY <1>1, <1>2, TypeAlways, PTL DEF EmailSpec

\* A call that reports success has reached every recipient.
THEOREM ReportsAreHonest == EmailSpec => []ReportedIsSent
<1>1. EmailTypeOK /\ ReceiptsAreHonest => ReportedIsSent
  <2> SUFFICES ASSUME EmailTypeOK, ReceiptsAreHonest, NEW c \in Calls, At(c, "sent"),
                      NEW i \in DOMAIN RecipientsOf[call[c].plan]
               PROVE  mail[call[c].grant][RecipientsOf[call[c].plan][i]] > 0
    BY DEF ReportedIsSent
  <2>1. RecipientsOf[call[c].plan] \in Seq(Addresses)
    BY EmailAssumption DEF EmailTypeOK, CallState
  <2>2. i \in 1..call[c].receipts
    BY <2>1 DEF ReceiptsAreHonest, Recipients
  <2> QED BY <2>2 DEF ReceiptsAreHonest, Recipients, At
<1> QED BY <1>1, TypeAlways, ReceiptsAlways, PTL

-----------------------------------------------------------------------------
(* Nothing is sent twice.                                                  *)

\* A grant that is not over: nobody who was refused on its account can be let in later.
Counts(g) == now <= LastMoment[g]

\* A call that reads or replaces the store holds the lock.
LockHeld == \A c \in Calls : call[c].pc \in {"inspect", "replace"} => lock = c

\* A call that is about to consume a grant applies one that is not over.
FreshGrant ==
  \A c \in Calls : call[c].apply /\ call[c].pc \in {"preflight", "lock", "inspect"} =>
    Counts(call[c].grant)
Applying == \A c \in Calls : call[c].pc \in {"lock", "inspect"} => call[c].apply

\* A grant under which something was sent, or may be sent without a look at the store, is in
\* the store as long as it counts.
Spent(g) ==
  \/ \E r \in Addresses : mail[g][r] > 0
  \/ \E c \in Calls : call[c].pc \in {"connect", "send"} /\ call[c].grant = g
Noted == \A g \in Grants : Spent(g) => g \in store \/ ~Counts(g)

\* A call that is about to replace the store has read all entries that count.
Kept ==
  \A c \in Calls : At(c, "replace") =>
    \A g \in store : Counts(g) => g \in call[c].entries

\* No two calls deliver under one grant.
Alone ==
  \A c, d \in Calls : c # d /\ Delivering(c) /\ Delivering(d) => call[c].grant # call[d].grant

\* Those a delivering call has no receipt for have not been sent anything under its grant.
Unsent ==
  \A c \in Calls : Delivering(c) =>
    \A i \in DOMAIN Recipients(c) :
      i > call[c].receipts => mail[call[c].grant][Recipients(c)[i]] = 0

Once == LockHeld /\ FreshGrant /\ Applying /\ Noted /\ Kept /\ Alone /\ Unsent /\ AtMostOnce

\* Who delivers has a signed grant, and a plan with its recipients.
LEMMA DeliveringTyped ==
  ASSUME EmailTypeOK, Authorized, NEW c \in Calls, Delivering(c) \/ call[c].pc = "inspect"
  PROVE  /\ call[c].grant \in Grants /\ call[c].plan \in Plans
         /\ call[c].receipts \in Nat /\ call[c].entries \subseteq Grants
         /\ Recipients(c) \in Seq(Addresses)
         /\ \A i, j \in DOMAIN Recipients(c) : Recipients(c)[i] = Recipients(c)[j] => i = j
<1>1. call[c].grant \in Grants /\ call[c].plan \in Plans
  BY EmailAssumption DEF Authorized, Using, Delivering, EmailTypeOK, CallState
<1> QED BY <1>1, EmailAssumption DEF Recipients, EmailTypeOK, CallState

\* The steps that touch neither the store nor the mail, and start no delivery.
LEMMA OnceQuiet ==
  ASSUME EmailTypeOK, Authorized, Once, NEW c \in Calls,
         Build(c) \/ Verify(c) \/ Preflight(c) \/ Acquire(c) \/ Connect(c) \/ Quit(c) \/ Crash(c)
  PROVE  Once'
<1> USE DEF Waiting, Ended
<1>1. UNCHANGED <<now, store, mail>>
  BY DEF Build, Verify, Preflight, Acquire, Connect, Quit, Crash
<1>2. /\ \A d \in Calls \ {c} : call'[d] = call[d]
      /\ call'[c].receipts = call[c].receipts
      /\ call'[c].pc # "replace"
      /\ call'[c].pc \in {"connect", "send"} => call[c].pc \in {"connect", "send"} /\ SameRequest(c)
      /\ call'[c].pc = "inspect" => lock' = c /\ lock = Nobody
      /\ call'[c].apply /\ call'[c].pc \in {"preflight", "lock", "inspect"} =>
           SameRequest(c) /\ (Counts(call[c].grant) \/ call[c].pc \in {"preflight", "lock"})
      /\ call'[c].pc \in {"lock", "inspect"} => call'[c].apply
  <2>1. CASE Build(c)
    BY <2>1, BuildChanges DEF Build, At
  <2>2. CASE Verify(c)
    <3>1. Go(c, "refused") \/ (Go(c, "preflight") /\ Counts(call[c].grant))
      BY <2>2 DEF Verify, Acceptable, Counts
    <3> QED BY <2>2, <3>1, GoChanges DEF Verify, At
  <2>3. CASE Preflight(c)
    BY <2>3, GoChanges DEF Preflight, At, SameRequest
  <2>4. CASE Acquire(c)
    BY <2>4, GoChanges DEF Acquire, At, SameRequest, Once, Applying
  <2>5. CASE Connect(c)
    BY <2>5, GoChanges DEF Connect, At
  <2>6. CASE Quit(c)
    BY <2>6, GoChanges DEF Quit, At
  <2>7. CASE Crash(c)
    BY <2>7, GoChanges DEF Crash
  <2> QED BY <2>1, <2>2, <2>3, <2>4, <2>5, <2>6, <2>7
<1>3. \A d \in Calls \ {c} : lock = d => lock' = d
  BY EmailAssumption DEF Build, Verify, Preflight, Acquire, Connect, Quit, Crash
<1>4. LockHeld'
  BY <1>2, <1>3, EmailAssumption DEF Once, LockHeld
<1>5. FreshGrant' /\ Applying'
  BY <1>1, <1>2 DEF Once, FreshGrant, Applying, Counts, SameRequest
<1>6. Noted'
  <2>1. ASSUME NEW g \in Grants, Spent(g)' PROVE Spent(g)
    BY <1>1, <1>2, <2>1 DEF Spent, SameRequest
  <2> QED BY <1>1, <2>1 DEF Once, Noted, Counts
<1>7. Kept'
  BY <1>1, <1>2 DEF Once, Kept, At, Counts
<1>8. \A d \in Calls : Delivering(d)' => /\ Delivering(d) /\ SameRequest(d)
                                          /\ call'[d].receipts = call[d].receipts
  BY <1>2 DEF Delivering, SameRequest
<1>9. Alone'
  BY <1>8 DEF Once, Alone, SameRequest
<1>10. Unsent'
  BY <1>1, <1>8 DEF Once, Unsent, Recipients, SameRequest
<1> QED BY <1>1, <1>4, <1>5, <1>6, <1>7, <1>9, <1>10 DEF Once, AtMostOnce

\* A grant that is found unused, while it counts and the lock is held, has sent nothing, and
\* nobody else delivers under it.
LEMMA OnceInspect ==
  ASSUME EmailTypeOK, Authorized, Once, ReceiptsAreHonest, NEW c \in Calls, Inspect(c)
  PROVE  Once'
<1> DEFINE g == call[c].grant
<1>1. /\ UNCHANGED <<now, store, mail>> /\ call[c].pc = "inspect" /\ lock = c
      /\ \A d \in Calls \ {c} : call'[d] = call[d]
      /\ SameRequest(c) /\ call'[c].receipts = call[c].receipts
      /\ call'[c].pc \in {"replace", "refused"}
  BY InspectChanges DEF Inspect, At, Once, LockHeld
<1>2. g \in Grants /\ Counts(g) /\ call[c].receipts = 0
  BY <1>1, DeliveringTyped DEF Once, Applying, FreshGrant, ReceiptsAreHonest, Waiting
<1>3. ASSUME NEW d \in Calls \ {c} PROVE call[d].pc \notin {"inspect", "replace"}
  BY <1>1, <1>3 DEF Once, LockHeld
<1>4. LockHeld'
  BY <1>1, <1>3, InspectChanges DEF LockHeld
<1>5. FreshGrant' /\ Applying'
  BY <1>1 DEF Once, FreshGrant, Applying, Counts
<1>6. Noted'
  <2>1. ASSUME NEW h \in Grants, Spent(h)' PROVE Spent(h)
    BY <1>1, <2>1 DEF Spent
  <2> QED BY <1>1, <2>1 DEF Once, Noted, Counts
<1>7. Kept'
  BY <1>1, <1>3, InspectChanges DEF Kept, At, Counts
<1>8. CASE call'[c].pc = "replace"
  <2>1. g \notin store
    BY <1>2, <1>8, InspectChanges DEF Counts
  <2>2. ~Spent(g)
    BY <1>2, <2>1 DEF Once, Noted
  <2>3. \A d \in Calls \ {c} : Delivering(d) => call[d].grant # g
    BY <1>3, <2>2 DEF Spent, Delivering
  <2>4. \A r \in Addresses : mail[g][r] = 0
    BY <1>2, <2>2 DEF Spent, EmailTypeOK
  <2>5. Alone'
    BY <1>1, <2>3 DEF Once, Alone, Delivering, SameRequest
  <2>6. \A i \in DOMAIN Recipients(c) : Recipients(c)[i] \in Addresses
    BY <1>1, DeliveringTyped
  <2>7. Unsent'
    BY <1>1, <2>4, <2>6 DEF Once, Unsent, Delivering, Recipients, SameRequest
  <2> QED BY <1>1, <1>4, <1>5, <1>6, <1>7, <2>5, <2>7 DEF Once, AtMostOnce
<1>9. CASE call'[c].pc = "refused"
  <2>1. Alone' /\ Unsent'
    BY <1>1, <1>9 DEF Once, Alone, Unsent, Delivering, Recipients
  <2> QED BY <1>1, <1>4, <1>5, <1>6, <1>7, <2>1 DEF Once, AtMostOnce
<1> QED BY <1>1, <1>8, <1>9

\* The new store has every entry that counts, and the grant that is consumed.
LEMMA OnceReplace ==
  ASSUME EmailTypeOK, Authorized, Once, NEW c \in Calls, Replace(c)
  PROVE  Once'
<1>1. /\ UNCHANGED <<now, mail>> /\ call[c].pc = "replace" /\ lock = c
      /\ store' = call[c].entries \cup {call[c].grant}
      /\ \A d \in Calls \ {c} : call'[d] = call[d]
      /\ SameRequest(c) /\ call'[c].receipts = call[c].receipts /\ call'[c].pc = "connect"
  BY GoChanges DEF Replace, At, Once, LockHeld, Waiting
<1>2. ASSUME NEW d \in Calls \ {c} PROVE call[d].pc \notin {"inspect", "replace"}
  BY <1>1, <1>2 DEF Once, LockHeld
<1>3. LockHeld' /\ Kept' /\ FreshGrant' /\ Applying'
  BY <1>1, <1>2 DEF Once, LockHeld, Kept, FreshGrant, Applying, Counts, At
<1>4. Noted'
  <2>1. ASSUME NEW g \in Grants, Spent(g)', g # call[c].grant PROVE Spent(g)
    BY <1>1, <2>1 DEF Spent, SameRequest
  <2>2. \A g \in store : Counts(g) => g \in store'
    BY <1>1 DEF Once, Kept, At
  <2> QED BY <1>1, <2>1, <2>2 DEF Once, Noted, Counts
<1>5. Alone' /\ Unsent'
  BY <1>1 DEF Once, Alone, Unsent, Delivering, Recipients, SameRequest
<1> QED BY <1>1, <1>3, <1>4, <1>5 DEF Once, AtMostOnce

\* A message goes to one who got none under that grant.
LEMMA OnceSend ==
  ASSUME EmailTypeOK, Authorized, Once, NEW c \in Calls, SendOne(c)
  PROVE  Once'
<1> DEFINE g == call[c].grant
           k == call[c].receipts
<1>1. /\ UNCHANGED <<now, store, lock>> /\ call[c].pc = "send"
      /\ \A d \in Calls \ {c} : call'[d] = call[d]
      /\ SameRequest(c) /\ call'[c].pc \in {"send", "quit"}
      /\ k < Len(Recipients(c))
  BY SendChanges DEF SendOne, At, Recipients
<1>2. /\ g \in Grants /\ call[c].plan \in Plans /\ k \in Nat /\ Recipients(c) \in Seq(Addresses)
      /\ \A i, j \in DOMAIN Recipients(c) : Recipients(c)[i] = Recipients(c)[j] => i = j
  BY <1>1, DeliveringTyped DEF Delivering
<1>3. /\ k + 1 \in DOMAIN Recipients(c) /\ Next_(c) \in Addresses
      /\ Next_(c) = Recipients(c)[k + 1]
  BY <1>1, NextTyped DEF Next_, Recipients
<1>4. mail[g][Next_(c)] = 0
  BY <1>1, <1>2, <1>3 DEF Once, Unsent, Delivering
<1>5. /\ \A h \in Grants, r \in Addresses :
           h # g \/ r # Next_(c) => mail'[h][r] = mail[h][r]
      /\ mail'[g][Next_(c)] \in {0, 1}
  <2>1. CASE Taken(c)
    BY <1>1, <1>2, <1>3, <1>4, <2>1, TakenChanges DEF Recipients
  <2>2. CASE UNCHANGED mail
    BY <1>4, <2>2
  <2> QED BY <2>1, <2>2 DEF SendOne
<1>6. LockHeld' /\ FreshGrant' /\ Applying' /\ Kept'
  BY <1>1 DEF Once, LockHeld, FreshGrant, Applying, Kept, Counts, At
<1>7. Noted'
  <2>1. ASSUME NEW h \in Grants, Spent(h)' PROVE Spent(h)
    <3>1. CASE h = g
      BY <1>1, <3>1 DEF Spent
    <3>2. CASE h # g
      BY <1>1, <1>5, <2>1, <3>2 DEF Spent, SameRequest
    <3> QED BY <3>1, <3>2
  <2> QED BY <1>1, <2>1 DEF Once, Noted, Counts
<1>8. Alone'
  BY <1>1 DEF Once, Alone, Delivering, SameRequest
<1>9. Unsent'
  <2> SUFFICES ASSUME NEW d \in Calls, Delivering(d)', NEW i \in DOMAIN Recipients(d)',
                      i > call'[d].receipts
               PROVE  mail'[call'[d].grant][Recipients(d)'[i]] = 0
    BY DEF Unsent
  <2>1. Recipients(d)' = Recipients(d) /\ call'[d].grant = call[d].grant /\ Delivering(d)
    BY <1>1 DEF Recipients, Delivering, SameRequest
  <2>2. call[d].grant \in Grants /\ Recipients(d)[i] \in Addresses
    BY <2>1, DeliveringTyped
  <2>3. CASE d = c
    <3>1. call'[c].receipts = k + 1
      BY <1>1, <2>3, SendChanges DEF Delivering
    <3>2. i \in Nat /\ i > k + 1 /\ i \in DOMAIN Recipients(c)
      BY <1>2, <2>1, <2>3, <3>1
    <3>3. Recipients(c)[i] # Next_(c)
      BY <1>2, <1>3, <3>2
    <3>4. mail[g][Recipients(c)[i]] = 0
      BY <1>1, <1>2, <3>2 DEF Once, Unsent, Delivering
    <3> QED BY <1>5, <2>1, <2>2, <2>3, <3>3, <3>4
  <2>4. CASE d # c
    <3>1. call[d].grant # g
      BY <1>1, <2>1, <2>4 DEF Once, Alone, Delivering
    <3>2. mail[call[d].grant][Recipients(d)[i]] = 0
      BY <1>1, <2>1, <2>4 DEF Once, Unsent
    <3> QED BY <1>5, <2>1, <2>2, <3>1, <3>2
  <2> QED BY <2>3, <2>4
<1>10. AtMostOnce'
  <2> SUFFICES ASSUME NEW h \in Grants, NEW r \in Addresses PROVE mail'[h][r] <= 1
    BY DEF AtMostOnce
  <2> QED BY <1>5 DEF Once, AtMostOnce
<1> QED BY <1>6, <1>7, <1>8, <1>9, <1>10 DEF Once

\* Time goes on; no accepted grant is over before it is consumed.
LEMMA OnceTick ==
  ASSUME EmailTypeOK, Authorized, Once, Prompt, Tick
  PROVE  Once'
<1>1. UNCHANGED <<store, lock, call, mail>> /\ now' = now + 1 /\ now \in Nat
  BY DEF Tick, EmailTypeOK
<1>2. FreshGrant'
  <2> SUFFICES ASSUME NEW c \in Calls, call[c].apply,
                      call[c].pc \in {"preflight", "lock", "inspect"}
               PROVE  now + 1 <= LastMoment[call[c].grant]
    BY <1>1 DEF FreshGrant, Counts
  <2>1. call[c].grant \in Grants
    BY EmailAssumption DEF Authorized, Using, At
  <2>2. now < LastMoment[call[c].grant] /\ LastMoment[call[c].grant] \in Nat
    BY <2>1, EmailAssumption DEF Tick, Verified
  <2> QED BY <1>1, <2>2
<1>3. \A g \in Grants : Counts(g)' => Counts(g)
  BY <1>1, EmailAssumption DEF Counts
<1>4. Noted' /\ Kept'
  BY <1>1, <1>3 DEF Once, Noted, Kept, Spent, At, EmailTypeOK
<1>5. LockHeld' /\ Applying' /\ Alone' /\ Unsent' /\ AtMostOnce'
  BY <1>1 DEF Once, LockHeld, Applying, Alone, Unsent, AtMostOnce, Delivering, Recipients
<1> QED BY <1>2, <1>4, <1>5 DEF Once

\* A grant delivers a message once to each recipient, as long as no grant expires between
\* its verification and its consumption, whatever calls run at once, crash or come again.
THEOREM GrantIsUsedOnce == ASSUME Prompt PROVE EmailSpec => []AtMostOnce
<1>1. EmailInit => Once
  <2> SUFFICES ASSUME EmailInit PROVE Once
    OBVIOUS
  <2>1. /\ \A c \in Calls : call[c].pc = "idle"
        /\ \A g \in Grants, r \in Addresses : mail[g][r] = 0
    BY DEF EmailInit, Uncalled
  <2> QED BY <2>1 DEF Once, LockHeld, FreshGrant, Applying, Noted, Spent, Kept, Alone, Unsent,
                      AtMostOnce, Delivering, At
<1>2. ASSUME EmailTypeOK, Authorized, ReceiptsAreHonest, Once, [EmailNext]_emailVars
      PROVE  Once'
  <2>1. CASE UNCHANGED emailVars
    BY <1>2, <2>1 DEF emailVars, Once, LockHeld, FreshGrant, Applying, Noted, Spent, Kept, Alone,
                      Unsent, AtMostOnce, Delivering, Recipients, Counts, At
  <2> QED BY <1>2, <2>1, OnceQuiet, OnceInspect, OnceReplace, OnceSend, OnceTick DEF EmailNext, Step
<1>3. Once => AtMostOnce
  BY DEF Once
<1> QED BY <1>1, <1>2, <1>3, TypeAlways, ReceiptsAlways, PTL DEF EmailSpec

------------------------------------------------------------------------------
(* Part 2: the export through the Guard.                                   *)

Invocation == [pc : ExportWaiting \cup ExportEnded, executes : BOOLEAN, started : BOOLEAN,
               out : Evidences, staged : SUBSET Bundle]

-----------------------------------------------------------------------------
(* What a step changes.                                                    *)

\* An invocation that moves on stays as it is otherwise.
LEMMA MovesChanges ==
  ASSUME ExportTypeOK, NEW x \in Exporters, NEW place \in ExportWaiting \cup ExportEnded, Moves(x, place)
  PROVE  /\ exporter' \in [Exporters -> Invocation]
         /\ exporter'[x].pc = place /\ exporter'[x].out = exporter[x].out
         /\ exporter'[x].staged = exporter[x].staged
         /\ \A y \in Exporters \ {x} : exporter'[y] = exporter[y]
<1> DEFINE r == [exporter[x] EXCEPT !.pc = place]
<1>1. exporter \in [Exporters -> Invocation] /\ exporter[x] \in Invocation
  BY DEF ExportTypeOK, Invocation
<1>2. /\ r \in Invocation /\ r.pc = place /\ r.out = exporter[x].out
      /\ r.staged = exporter[x].staged
  BY <1>1 DEF Invocation
<1>3. exporter' = [exporter EXCEPT ![x] = r]
  BY DEF Moves
<1> QED BY <1>1, <1>2, <1>3

\* An invocation that begins.
LEMMA BeginChanges ==
  ASSUME ExportTypeOK, NEW x \in Exporters, BeginExport(x)
  PROVE  /\ exporter' \in [Exporters -> Invocation]
         /\ exporter'[x].pc \in {"look", "bind", "blocked"}
         /\ exporter'[x].staged = exporter[x].staged
         /\ \A y \in Exporters \ {x} : exporter'[y] = exporter[y]
<1>1. PICK executes \in BOOLEAN, o \in Evidences :
        exporter' = [exporter EXCEPT ![x] = [@ EXCEPT !.executes = executes, !.out = o, !.pc =
                       IF evidence[o].by # Free THEN "blocked" ELSE IF executes THEN "look" ELSE "bind"]]
  BY DEF BeginExport
<1> DEFINE place == IF evidence[o].by # Free THEN "blocked" ELSE IF executes THEN "look" ELSE "bind"
           r  == [exporter[x] EXCEPT !.executes = executes, !.out = o, !.pc = place]
<1>2. exporter \in [Exporters -> Invocation] /\ exporter[x] \in Invocation
  BY DEF ExportTypeOK, Invocation
<1>3. place \in {"look", "bind", "blocked"}
  OBVIOUS
<1>4. exporter' = [exporter EXCEPT ![x] = r]
  BY <1>1
<1> HIDE DEF place
<1>5. r \in Invocation /\ r.pc = place /\ r.staged = exporter[x].staged
  BY <1>2, <1>3 DEF Invocation, ExportWaiting, ExportEnded
<1> QED BY <1>2, <1>3, <1>4, <1>5

\* The temporary directory gets a file, is whole, or goes.
LEMMA StageChanges ==
  ASSUME ExportTypeOK, NEW x \in Exporters, StageBundle(x)
  PROVE  /\ exporter' \in [Exporters -> Invocation]
         /\ \/ exporter'[x].pc = "stage"
            \/ exporter'[x].pc = "publish" /\ exporter'[x].staged = Bundle
            \/ exporter'[x].pc = "blocked"
         /\ exporter'[x].out = exporter[x].out
         /\ \A y \in Exporters \ {x} : exporter'[y] = exporter[y]
<1>1. exporter \in [Exporters -> Invocation] /\ exporter[x] \in Invocation /\ exporter[x].pc = "stage"
  BY DEF ExportTypeOK, Invocation, StageBundle, Stands
<1>2. ASSUME NEW f \in Bundle, exporter' = [exporter EXCEPT ![x].staged = @ \cup {f}]
      PROVE  /\ exporter' \in [Exporters -> Invocation] /\ exporter'[x].pc = "stage"
             /\ exporter'[x].out = exporter[x].out
             /\ \A y \in Exporters \ {x} : exporter'[y] = exporter[y]
  <2> DEFINE r == [exporter[x] EXCEPT !.staged = @ \cup {f}]
  <2>1. r \in Invocation /\ r.pc = "stage" /\ r.out = exporter[x].out
    BY <1>1 DEF Invocation
  <2>2. exporter' = [exporter EXCEPT ![x] = r]
    BY <1>2
  <2> QED BY <1>1, <2>1, <2>2
<1>3. CASE exporter[x].staged = Bundle /\ Moves(x, "publish")
  BY <1>3, MovesChanges DEF ExportWaiting
<1>4. CASE exporter' = [exporter EXCEPT ![x].pc = "blocked", ![x].staged = {}]
  <2> DEFINE r == [exporter[x] EXCEPT !.pc = "blocked", !.staged = {}]
  <2>1. r \in Invocation /\ r.pc = "blocked" /\ r.out = exporter[x].out
    BY <1>1 DEF Invocation, ExportEnded
  <2>2. exporter' = [exporter EXCEPT ![x] = r]
    BY <1>4
  <2> QED BY <1>1, <2>1, <2>2
<1> QED BY <1>2, <1>3, <1>4 DEF StageBundle

\* The rename takes all of the directory to a free target, or nothing.
LEMMA PublishChanges ==
  ASSUME ExportTypeOK, NEW x \in Exporters, Publish(x)
  PROVE  /\ exporter' \in [Exporters -> Invocation]
         /\ \/ /\ exporter'[x].pc = "report" /\ target.by = Free
               /\ target' = [by |-> x, files |-> exporter[x].staged]
            \/ exporter'[x].pc = "blocked" /\ UNCHANGED target
         /\ exporter'[x].out = exporter[x].out
         /\ \A y \in Exporters \ {x} : exporter'[y] = exporter[y]
<1>1. exporter \in [Exporters -> Invocation] /\ exporter[x] \in Invocation
  BY DEF ExportTypeOK, Invocation
<1>2. ASSUME NEW place \in {"report", "blocked"},
             exporter' = [exporter EXCEPT ![x].pc = place, ![x].staged = {}]
      PROVE  /\ exporter' \in [Exporters -> Invocation] /\ exporter'[x].pc = place
             /\ exporter'[x].out = exporter[x].out
             /\ \A y \in Exporters \ {x} : exporter'[y] = exporter[y]
  <2> DEFINE r == [exporter[x] EXCEPT !.pc = place, !.staged = {}]
  <2>1. r \in Invocation /\ r.pc = place /\ r.out = exporter[x].out
    BY <1>1 DEF Invocation, ExportEnded, ExportWaiting
  <2>2. exporter' = [exporter EXCEPT ![x] = r]
    BY <1>2
  <2> QED BY <1>1, <2>1, <2>2
<1> QED BY <1>2 DEF Publish

\* The grant is consumed by a run, which an invocation follows only when it was verified.
LEMMA StartChanges ==
  ASSUME ExportTypeOK, NEW x \in Exporters, Start(x)
  PROVE  /\ exporter' \in [Exporters -> Invocation]
         /\ \/ /\ guard.granted /\ \E r \in {"verified", "failed", "unknown"} :
                    guard' = [guard EXCEPT !.granted = FALSE, !.receipt = r]
            \/ UNCHANGED guard
         /\ exporter'[x].pc \in {"bind", "blocked"} /\ exporter'[x].out = exporter[x].out
         /\ \A y \in Exporters \ {x} : exporter'[y] = exporter[y]
<1>1. exporter \in [Exporters -> Invocation] /\ exporter[x] \in Invocation
  BY DEF ExportTypeOK, Invocation
<1>2. CASE exporter' = [exporter EXCEPT ![x].pc = "bind", ![x].started = TRUE]
  <2> DEFINE r == [exporter[x] EXCEPT !.pc = "bind", !.started = TRUE]
  <2>1. r \in Invocation /\ r.pc = "bind" /\ r.out = exporter[x].out
    BY <1>1 DEF Invocation, ExportWaiting
  <2>2. exporter' = [exporter EXCEPT ![x] = r]
    BY <1>2
  <2> QED BY <1>1, <2>1, <2>2 DEF Start
<1>3. CASE Moves(x, "blocked")
  BY <1>3, MovesChanges DEF Start, ExportEnded
<1> QED BY <1>2, <1>3 DEF Start

-----------------------------------------------------------------------------
(* Type correctness.                                                       *)

\* Every step keeps the types.
LEMMA ExportTypeNext == ExportTypeOK /\ [ExportNext]_exportVars => ExportTypeOK'
<1> SUFFICES ASSUME ExportTypeOK, [ExportNext]_exportVars PROVE ExportTypeOK'
  OBVIOUS
<1> USE DEF ExportTypeOK
<1>1. ASSUME NEW x \in Exporters, ExportStep(x) \/ KillExport(x) PROVE ExportTypeOK'
  <2> USE DEF ExportWaiting, ExportEnded
  <2>1. exporter' \in [Exporters -> Invocation]
    <3>1. CASE BeginExport(x) \/ StageBundle(x) \/ Publish(x) \/ Start(x)
      BY <3>1, BeginChanges, StageChanges, PublishChanges, StartChanges
    <3>2. CASE \E place \in ExportWaiting \cup ExportEnded : Moves(x, place)
      BY <3>2, MovesChanges
    <3> QED BY <1>1, <3>1, <3>2 DEF ExportStep, KillExport, LookFor, Bind, ReadReceipt,
                                   Download, Report, Write
  <2>2. target' \in Made
    <3>1. CASE Publish(x)
      BY <3>1, PublishChanges DEF Made
    <3> QED BY <1>1, <3>1 DEF ExportStep, KillExport, BeginExport, LookFor, Bind, Start,
                              ReadReceipt, Download, StageBundle, Report, Write
  <2>3. guard' \in [pinned : BOOLEAN, granted : BOOLEAN,
                    receipt : {"none", "unknown", "verified", "failed"}]
    <3>1. CASE Start(x)
      BY <3>1, StartChanges
    <3> QED BY <1>1, <3>1 DEF ExportStep, KillExport, BeginExport, LookFor, Bind, Publish,
                              ReadReceipt, Download, StageBundle, Report, Write
  <2>4. evidence' \in [Evidences -> [by : Exporters \cup {Free, Other}, written : BOOLEAN]]
    <3>1. CASE Report(x)
      BY <3>1 DEF Report
    <3>2. CASE Write(x)
      BY <3>2 DEF Write
    <3> QED BY <1>1, <3>1, <3>2 DEF ExportStep, KillExport, BeginExport, LookFor, Bind, Publish,
                              ReadReceipt, Download, StageBundle, Start
  <2> QED BY <2>1, <2>2, <2>3, <2>4 DEF Invocation
<1>2. CASE Recover
  BY <1>2 DEF Recover
<1>3. CASE Upgrade
  BY <1>3 DEF Upgrade
<1>4. CASE Appear
  <2>1. CASE target' = [target EXCEPT !.by = Other] /\ UNCHANGED evidence
    BY <1>4, <2>1 DEF Appear, Made
  <2>2. ASSUME NEW o \in Evidences,
               evidence' = [evidence EXCEPT ![o] = [by |-> Other, written |-> TRUE]], UNCHANGED target
        PROVE  ExportTypeOK'
    BY <1>4, <2>2 DEF Appear
  <2> QED BY <1>4, <2>1, <2>2 DEF Appear
<1>5. CASE UNCHANGED exportVars
  BY <1>5 DEF exportVars
<1> QED BY <1>1, <1>2, <1>3, <1>4, <1>5 DEF ExportNext

\* The types of all variables.
THEOREM ExportTypeCorrect == ExportSpec => []ExportTypeOK
<1>1. ExportInit => ExportTypeOK
  BY ExportAssumption DEF ExportInit, ExportTypeOK, Made, ExportWaiting
<1> QED BY <1>1, ExportTypeNext, PTL DEF ExportSpec

-----------------------------------------------------------------------------
(* What is at the target.                                                  *)

\* The receipt of a verified run stays as it is: the grant is gone by then.
GrantUnused == guard.granted => guard.receipt = "none"

\* An invocation that read the receipt has it still, and the directory that is to be renamed
\* is whole.
StagedIsWhole ==
  \A x \in Exporters :
    /\ exporter[x].pc \in {"download", "stage", "publish"} => guard.receipt = "verified"
    /\ Stands(x, "publish") => exporter[x].staged = Bundle

ExportVerified == GrantUnused /\ StagedIsWhole /\ ExportIsVerified

\* A verified run stays verified.
LEMMA ReceiptStays ==
  ASSUME ExportTypeOK, GrantUnused, [ExportNext]_exportVars
  PROVE  GrantUnused' /\ (guard.receipt = "verified" => guard'.receipt = "verified")
<1>1. CASE Recover
  BY <1>1 DEF Recover, GrantUnused, ExportTypeOK
<1>2. CASE Upgrade
  BY <1>2 DEF Upgrade, GrantUnused, ExportTypeOK
<1>3. ASSUME NEW x \in Exporters, Start(x)
      PROVE  GrantUnused' /\ (guard.receipt = "verified" => guard'.receipt = "verified")
  BY <1>3, StartChanges DEF GrantUnused, ExportTypeOK
<1>4. CASE UNCHANGED guard
  BY <1>4 DEF GrantUnused
<1>5. Recover \/ Upgrade \/ (\E x \in Exporters : Start(x)) \/ UNCHANGED guard
  BY DEF ExportNext, ExportStep, KillExport, BeginExport, LookFor, Bind, ReadReceipt, Download,
         StageBundle, Publish, Report, Write, Appear, exportVars
<1> QED BY <1>1, <1>2, <1>3, <1>4, <1>5

\* Every step keeps what is known of the target.
LEMMA VerifiedNext ==
  ASSUME ExportTypeOK, ExportVerified, [ExportNext]_exportVars
  PROVE  ExportVerified'
<1> USE DEF Stands
<1>1. GrantUnused' /\ (guard.receipt = "verified" => guard'.receipt = "verified")
  BY ReceiptStays DEF ExportVerified
<1>2. ASSUME NEW x \in Exporters, ExportStep(x) \/ KillExport(x)
      PROVE  StagedIsWhole' /\ ExportIsVerified'
  <2> USE DEF ExportWaiting, ExportEnded
  <2>1. ASSUME ~Publish(x) PROVE UNCHANGED target
    BY <1>2, <2>1 DEF ExportStep, KillExport, BeginExport, LookFor, Bind, Start, ReadReceipt,
                      Download, StageBundle, Report, Write
  <2>2. /\ \A y \in Exporters \ {x} : exporter'[y] = exporter[y]
        /\ exporter'[x].pc \in {"download", "stage", "publish"} => guard.receipt = "verified"
        /\ exporter'[x].pc = "publish" => exporter'[x].staged = Bundle
    <3>1. CASE BeginExport(x)
      BY <3>1, BeginChanges
    <3>2. CASE LookFor(x) \/ Bind(x) \/ ReadReceipt(x) \/ Report(x) \/ Write(x) \/ KillExport(x)
      BY <3>2, MovesChanges DEF LookFor, Bind, ReadReceipt, Report, Write, KillExport
    <3>3. CASE Download(x)
      BY <3>3, MovesChanges DEF Download, ExportVerified, StagedIsWhole
    <3>4. CASE StageBundle(x)
      BY <3>4, StageChanges DEF StageBundle, ExportVerified, StagedIsWhole
    <3>5. CASE Publish(x) \/ Start(x)
      BY <3>5, PublishChanges, StartChanges
    <3> QED BY <1>2, <3>1, <3>2, <3>3, <3>4, <3>5 DEF ExportStep
  <2>3. StagedIsWhole'
    BY <1>1, <2>2 DEF ExportVerified, StagedIsWhole
  <2>4. ExportIsVerified'
    <3>1. CASE Publish(x) /\ target' = [by |-> x, files |-> exporter[x].staged]
      BY <1>1, <3>1 DEF Publish, ExportVerified, StagedIsWhole, ExportIsVerified
    <3>2. CASE UNCHANGED target
      BY <1>1, <3>2 DEF ExportVerified, ExportIsVerified
    <3> QED BY <2>1, <3>1, <3>2, PublishChanges
  <2> QED BY <2>3, <2>4
<1>3. CASE UNCHANGED exporter
  <2>1. StagedIsWhole'
    BY <1>1, <1>3 DEF ExportVerified, StagedIsWhole
  <2>2. target'.by \in Exporters => UNCHANGED target
    <3>1. CASE Appear
      BY <3>1, ExportAssumption DEF Appear, ExportTypeOK, Made
    <3>2. CASE UNCHANGED target
      BY <3>2
    <3>3. ASSUME NEW x \in Exporters, ExportStep(x) \/ KillExport(x) PROVE UNCHANGED target
      <4>1. ~Publish(x)
        BY <1>3, PublishChanges DEF Publish
      <4> QED BY <3>3, <4>1 DEF ExportStep, KillExport, BeginExport, LookFor, Bind, Start,
                               ReadReceipt, Download, StageBundle, Report, Write
    <3> QED BY <3>1, <3>2, <3>3 DEF ExportNext, Recover, Upgrade, exportVars
  <2>3. ExportIsVerified'
    BY <1>1, <2>2 DEF ExportVerified, ExportIsVerified
  <2> QED BY <1>1, <2>1, <2>3 DEF ExportVerified
<1> QED BY <1>1, <1>2, <1>3 DEF ExportNext, Recover, Upgrade, Appear, exportVars, ExportVerified

\* What an invocation puts at the target is whole and comes from a verified run.
THEOREM TargetIsVerified == ExportSpec => []ExportIsVerified
<1>1. ExportInit => ExportVerified
  BY ExportAssumption DEF ExportInit, ExportVerified, GrantUnused, StagedIsWhole, ExportIsVerified, Stands
<1>2. ExportVerified => ExportIsVerified
  BY DEF ExportVerified
<1> QED BY <1>1, <1>2, VerifiedNext, ExportTypeCorrect, PTL DEF ExportSpec

-----------------------------------------------------------------------------
(* What an invocation answers.                                             *)

\* Who made the target and who made the evidence file, by how far an invocation has come.
Produced ==
  \A x \in Exporters :
    /\ target.by = x => exporter[x].pc \in {"report", "write", "materialized", "killed", "blocked"}
    /\ exporter[x].pc \in {"report", "write", "materialized"} => target.by = x
    /\ \A o \in Evidences : evidence[o].by = x =>
          exporter[x].pc \in {"write", "materialized", "killed"}
    /\ exporter[x].pc \in {"write", "materialized"} => evidence[exporter[x].out].by = x
    /\ Stands(x, "materialized") => evidence[exporter[x].out].written
    /\ Stands(x, "blocked") /\ target.by = x => evidence[exporter[x].out].by # Free

\* Every step keeps it.
LEMMA ProducedNext ==
  ASSUME ExportTypeOK, Produced, [ExportNext]_exportVars
  PROVE  Produced'
<1> USE DEF Stands
<1>1. ASSUME NEW x \in Exporters, ExportStep(x) \/ KillExport(x)
      PROVE  Produced'
  <2> USE DEF ExportWaiting, ExportEnded
  <2>1. CASE BeginExport(x)
    <3>1. UNCHANGED <<target, evidence>> /\ exporter[x].pc = "begin"
      BY <2>1 DEF BeginExport
    <3> QED BY <2>1, <3>1, BeginChanges DEF Produced
  <2>2. CASE LookFor(x) \/ Bind(x) \/ ReadReceipt(x) \/ Download(x) \/ KillExport(x)
    BY <2>2, MovesChanges DEF LookFor, Bind, ReadReceipt, Download, KillExport, Produced
  <2>3. CASE Start(x)
    BY <2>3, StartChanges DEF Start, Produced
  <2>4. CASE StageBundle(x)
    BY <2>4, StageChanges DEF StageBundle, Produced
  <2>5. CASE Publish(x)
    BY <2>5, PublishChanges, ExportAssumption DEF Publish, Produced
  <2>6. CASE Report(x)
    <3> DEFINE o == exporter[x].out
    <3>1. o \in Evidences
      BY DEF ExportTypeOK
    <3>2. CASE evidence[o].by = Free
      <4>1. Moves(x, "write") /\ evidence' = [evidence EXCEPT ![o].by = x] /\ UNCHANGED target
        BY <2>6, <3>2 DEF Report
      <4>2. /\ evidence'[o].by = x
            /\ \A p \in Evidences \ {o} : evidence'[p] = evidence[p]
            /\ evidence'[o].written = evidence[o].written
        BY <3>1, <4>1 DEF ExportTypeOK
      <4> QED BY <2>6, <3>1, <3>2, <4>1, <4>2, MovesChanges, ExportAssumption
              DEF Report, Produced, ExportTypeOK
    <3>3. CASE evidence[o].by # Free
      BY <2>6, <3>3, MovesChanges DEF Report, Produced
    <3> QED BY <3>2, <3>3
  <2>7. CASE Write(x)
    <3> DEFINE o == exporter[x].out
    <3>1. o \in Evidences
      BY DEF ExportTypeOK
    <3>2. /\ \A p \in Evidences : evidence'[p].by = evidence[p].by
          /\ \A p \in Evidences : evidence[p].written => evidence'[p].written
          /\ evidence'[o].written
      BY <2>7, <3>1 DEF Write, ExportTypeOK
    <3> QED BY <2>7, <3>1, <3>2, MovesChanges DEF Write, Produced, ExportTypeOK
  <2> QED BY <1>1, <2>1, <2>2, <2>3, <2>4, <2>5, <2>6, <2>7 DEF ExportStep
<1>2. CASE Appear
  <2>1. CASE target.by = Free /\ target' = [target EXCEPT !.by = Other] /\ UNCHANGED evidence
    <3>1. target'.by = Other /\ Other \notin Exporters /\ Free \notin Exporters
      BY <2>1, ExportAssumption DEF ExportTypeOK, Made
    <3> QED BY <1>2, <2>1, <3>1 DEF Appear, Produced
  <2>2. ASSUME NEW o \in Evidences, evidence[o].by = Free,
               evidence' = [evidence EXCEPT ![o] = [by |-> Other, written |-> TRUE]], UNCHANGED target
        PROVE  Produced'
    <3>1. /\ evidence'[o].by = Other /\ evidence'[o].written
          /\ \A p \in Evidences \ {o} : evidence'[p] = evidence[p]
      BY <2>2 DEF ExportTypeOK
    <3> QED BY <1>2, <2>2, <3>1, ExportAssumption DEF Appear, Produced, ExportTypeOK
  <2> QED BY <1>2, <2>1, <2>2 DEF Appear
<1>3. CASE Recover \/ Upgrade \/ UNCHANGED exportVars
  BY <1>3 DEF Recover, Upgrade, exportVars, Produced
<1> QED BY <1>1, <1>2, <1>3 DEF ExportNext

\* An invocation that reports a materialized export made it and its evidence; one that is
\* blocked after it made the target was kept from its evidence by somebody else.
THEOREM AnswerIsTrue == ExportSpec => []AnswerFits
<1>1. ExportInit => Produced
  BY ExportAssumption DEF ExportInit, Produced, Stands
<1>2. ExportTypeOK /\ Produced => AnswerFits
  BY DEF ExportTypeOK, Produced, AnswerFits, Stands
<1> QED BY <1>1, <1>2, ProducedNext, ExportTypeCorrect, PTL DEF ExportSpec

------------------------------------------------------------------------------
(* Part 3: the change lease.                                               *)

-----------------------------------------------------------------------------
(* Type correctness.                                                       *)

\* The transition table names phases only.
LEMMA TransitionsTyped ==
  \A t \in Transitions : t[1] \in Actions /\ t[2] \in Phases /\ t[3] \in Phases
BY DEF Transitions, Heartbeats, Actions, Phases, EndedPhases

\* An accepted receipt is well formed.
LEMMA ReceiptTyped ==
  ASSUME TypeOK, NEW t \in Transitions, NEW aim \in Heads \cup {None},
         t[2] = lease.phase
  PROVE  Receipt(t[1], t[3], aim) \in Receipts
<1>1. t[1] \in Actions /\ t[3] \in Phases
  BY TransitionsTyped
<1>2. /\ lease.phase \in Phases
      /\ lease.revision \in Nat \ {0}
      /\ lease.token \in Nat \ {0}
      /\ lease.head \in Heads \cup {None}
  BY DEF TypeOK, Leases
<1>3. lease.revision + 1 \in Nat \ {0} /\ lease.token + 1 \in Nat \ {0}
  BY <1>2
<1>4. (IF t[1] = "freeze-publication" THEN aim ELSE lease.head) \in Heads \cup {None}
  BY <1>2
<1> QED BY <1>1, <1>2, <1>3, <1>4 DEF Receipt, Receipts

\* The view an actor takes is a view.
LEMMA ViewTyped == ASSUME TypeOK PROVE ViewOf(lease) \in Views
  BY DEF TypeOK, Leases, ViewOf, Views

\* The initial state has the declared types.
LEMMA TypeInit == Init => TypeOK
<1> SUFFICES ASSUME Init PROVE TypeOK
  OBVIOUS
<1>1. lease \in Leases
  BY LeaseAssumption DEF Init, Leases, Phases
<1>2. ViewOf(lease) \in Views
  BY <1>1 DEF Leases, ViewOf, Views
<1> QED BY <1>1, <1>2 DEF Init, TypeOK

\* Every step keeps the types.
LEMMA TypeNext == TypeOK /\ [Next]_vars => TypeOK'
<1> SUFFICES ASSUME TypeOK, [Next]_vars PROVE TypeOK'
  OBVIOUS
<1>1. ASSUME NEW a \in Actors, Look(a) PROVE TypeOK'
  BY <1>1, ViewTyped DEF Look, trace, TypeOK
<1>2. ASSUME NEW c \in Controllers, NEW a \in Actors, Accept(c, a) PROVE TypeOK'
  <2>1. PICK t \in Transitions, aim \in Heads \cup {None} :
           /\ t[2] = lease.phase
           /\ held' = [held EXCEPT ![c] =
                         [receipt |-> Receipt(t[1], t[3], aim), named |-> Authority(view[a])]]
    BY <1>2 DEF Accept
  <2>2. Receipt(t[1], t[3], aim) \in Receipts
    BY <2>1, ReceiptTyped
  <2>3. Authority(view[a]) \in Authorities
    BY DEF TypeOK, Views, Authority, Authorities
  <2>4. held' \in [Controllers -> [receipt : Receipts, named : Authorities] \cup {None}]
    BY <2>1, <2>2, <2>3 DEF TypeOK
  <2> QED BY <1>2, <2>4 DEF Accept, trace, TypeOK
<1>3. ASSUME NEW c \in Controllers, Apply(c) PROVE TypeOK'
  <2>1. held[c] \in [receipt : Receipts, named : Authorities]
    BY <1>3 DEF Apply, TypeOK
  <2>2. held[c].receipt \in Receipts /\ held[c].named \in Authorities
    BY <2>1
  <2>3. lease' \in Leases
    BY <1>3, <2>2 DEF Apply, Receipts, Leases
  <2>4. last' \in Receipts \cup {None} /\ monotonic' \in BOOLEAN
    BY <1>3, <2>2 DEF Apply, TypeOK
  <2>5. consumed' \subseteq Authorities /\ reused' \in BOOLEAN
    BY <1>3, <2>2 DEF Apply, TypeOK
  <2>6. held' \in [Controllers -> [receipt : Receipts, named : Authorities] \cup {None}]
    BY <1>3 DEF Apply, TypeOK
  <2> QED BY <1>3, <2>3, <2>4, <2>5, <2>6 DEF Apply, TypeOK
<1>4. ASSUME NEW c \in Controllers, Abandon(c) PROVE TypeOK'
  BY <1>4 DEF Abandon, trace, TypeOK
<1>5. CASE UNCHANGED vars
  BY <1>5 DEF vars, trace, TypeOK
<1> QED BY <1>1, <1>2, <1>3, <1>4, <1>5 DEF Next

\* The types of all variables, whether controllers take turns or not.
THEOREM TypeCorrect == Spec => []TypeOK
  BY TypeInit, TypeNext, PTL DEF Spec

-----------------------------------------------------------------------------
(* What the trace check finds.                                             *)

\* A held receipt was made for the authority its request names.
HeldMatches ==
    \A c \in Controllers : held[c] # None =>
        LET r == held[c].receipt IN
        /\ held[c].named = <<r.previousRevision, r.previousToken>>
        /\ r.token = r.previousToken + 1

\* As long as the trace passes, the tokens used are below the last receipt's.
TraceFences ==
    monotonic =>
        /\ ~reused
        /\ last = None => consumed = {}
        /\ last # None => \A u \in consumed : u[2] < last.token

\* Every step keeps both.
LEMMA AuditNext ==
  ASSUME TypeOK, HeldMatches, TraceFences, [Next]_vars
  PROVE  HeldMatches' /\ TraceFences'
<1>1. ASSUME NEW a \in Actors, Look(a) PROVE HeldMatches' /\ TraceFences'
  BY <1>1 DEF Look, trace, HeldMatches, TraceFences
<1>2. ASSUME NEW c \in Controllers, NEW a \in Actors, Accept(c, a)
      PROVE  HeldMatches' /\ TraceFences'
  <2>1. PICK t \in Transitions, aim \in Heads \cup {None} :
           held' = [held EXCEPT ![c] =
                      [receipt |-> Receipt(t[1], t[3], aim), named |-> Authority(view[a])]]
    BY <1>2 DEF Accept
  <2>2. Authority(view[a]) = <<lease.revision, lease.token>>
    BY <1>2 DEF Accept, Current, ViewOf, Authority
  <2>3. HeldMatches'
    BY <2>1, <2>2 DEF HeldMatches, TypeOK, Receipt
  <2> QED BY <1>2, <2>3 DEF Accept, trace, TraceFences
<1>3. ASSUME NEW c \in Controllers, Apply(c) PROVE HeldMatches' /\ TraceFences'
  <2> DEFINE r == held[c].receipt
  <2>1. held[c] # None /\ r \in Receipts /\ r # None
    BY <1>3, NoneIsNoReceipt DEF Apply, TypeOK
  <2>2. held[c].named = <<r.previousRevision, r.previousToken>> /\ r.token = r.previousToken + 1
    BY <2>1 DEF HeldMatches
  <2>3. HeldMatches'
    BY <1>3 DEF Apply, HeldMatches, TypeOK
  <2>4. ASSUME monotonic'
        PROVE  /\ held[c].named \notin consumed
               /\ \A u \in consumed : u[2] < r.token
    <3>1. monotonic /\ Follows(r)
      BY <1>3, <2>4 DEF Apply
    <3>2. CASE last = None
      BY <3>1, <3>2 DEF TraceFences
    <3>3. CASE last # None
      <4>1. r.previousToken = last.token /\ last.token \in Nat
        BY <3>1, <3>3 DEF Follows, TypeOK, Receipts
      <4>2. \A u \in consumed : u[2] < last.token /\ u[2] \in Nat
        BY <3>1, <3>3 DEF TraceFences, TypeOK, Authorities
      <4> QED BY <2>2, <4>1, <4>2
    <3> QED BY <3>2, <3>3
  <2>5. r.previousToken < r.token
    BY <2>1, <2>2 DEF Receipts
  <2>6. ASSUME monotonic' PROVE ~reused'
    BY <1>3, <2>4, <2>6 DEF Apply, TraceFences
  <2>7. ASSUME monotonic', NEW u \in consumed' PROVE u[2] < last'.token
    <3>1. last' = r /\ (u \in consumed \/ u = held[c].named)
      BY <1>3 DEF Apply
    <3> QED BY <2>2, <2>4, <2>5, <2>7, <3>1
  <2>8. last' # None
    BY <1>3, <2>1 DEF Apply
  <2>9. TraceFences'
    BY <2>6, <2>7, <2>8 DEF TraceFences
  <2> QED BY <2>3, <2>9
<1>4. ASSUME NEW c \in Controllers, Abandon(c) PROVE HeldMatches' /\ TraceFences'
  BY <1>4 DEF Abandon, trace, HeldMatches, TraceFences, TypeOK
<1>5. CASE UNCHANGED vars
  BY <1>5 DEF vars, trace, HeldMatches, TraceFences
<1> QED BY <1>1, <1>2, <1>3, <1>4, <1>5 DEF Next

\* However controllers overlap: a trace that validate_trace accepts used no
\* revision and token twice.
THEOREM AuditIsComplete == Spec => []AuditFindsReuse
<1>1. Init => HeldMatches /\ TraceFences
  BY DEF Init, HeldMatches, TraceFences
<1>2. TypeOK /\ HeldMatches /\ TraceFences /\ [Next]_vars => (HeldMatches /\ TraceFences)'
  BY AuditNext
<1>3. TraceFences => AuditFindsReuse
  BY DEF TraceFences, AuditFindsReuse
<1> QED BY TypeCorrect, <1>1, <1>2, <1>3, PTL DEF Spec

-----------------------------------------------------------------------------
(* Controllers that take turns.                                            *)

\* At most one receipt waits, and it was made for the lease as it still is.
Turn ==
    \A c, d \in Controllers : held[c] # None /\ held[d] # None => c = d

Fresh(h) ==
    LET r == h.receipt IN
    /\ h.named = <<lease.revision, lease.token>>
    /\ r.previousRevision = lease.revision
    /\ r.previousToken = lease.token
    /\ r.before = lease.phase
    /\ r.revision = lease.revision + 1
    /\ r.token = lease.token + 1
    /\ <<r.action, lease.phase, r.after>> \in Transitions
    /\ IF r.action = "freeze-publication" THEN r.head \in Heads ELSE r.head = lease.head

HeldFresh == \A c \in Controllers : held[c] # None => Fresh(held[c])

\* The trace ends where the lease is.
TraceCurrent ==
    /\ monotonic
    /\ last # None =>
          /\ last.revision = lease.revision
          /\ last.token = lease.token
          /\ last.after = lease.phase

Serial == Turn /\ HeldFresh /\ TraceCurrent /\ FencedOff /\ AuthorityUsedOnce

\* A new lease has nothing held and nothing used.
LEMMA SerialInit == Init => Serial
  BY DEF Init, Serial, Turn, HeldFresh, TraceCurrent, FencedOff, AuthorityUsedOnce

\* Acceptance makes one receipt, for the lease as it is.
LEMMA SerialAccept ==
  ASSUME Overlapping = FALSE, TypeOK, Serial,
         NEW c \in Controllers, NEW a \in Actors, Accept(c, a)
  PROVE  Serial'
<1>1. PICK t \in Transitions, aim \in Heads \cup {None} :
         /\ t[2] = lease.phase
         /\ HeadAllowed(t[1], aim)
         /\ held' = [held EXCEPT ![c] =
                       [receipt |-> Receipt(t[1], t[3], aim), named |-> Authority(view[a])]]
  BY DEF Accept
<1>2. \A d \in Controllers : d # c => held'[d] = None
  BY <1>1 DEF Accept, TypeOK
<1>3. held'[c] = [receipt |-> Receipt(t[1], t[3], aim), named |-> Authority(view[a])]
  BY <1>1 DEF TypeOK
<1>4. Authority(view[a]) = <<lease.revision, lease.token>>
  BY DEF Accept, Current, ViewOf, Authority
<1>5. t[1] = "freeze-publication" => aim \in Heads
  BY <1>1 DEF HeadAllowed
<1>6. t = <<t[1], t[2], t[3]>>
  BY DEF Transitions, Heartbeats
<1>7. Fresh(held'[c])
  BY <1>1, <1>3, <1>4, <1>5, <1>6 DEF Fresh, Receipt
<1>8. lease' = lease /\ last' = last /\ monotonic' = monotonic /\ consumed' = consumed /\ reused' = reused
  BY DEF Accept, trace
<1>9. HeldFresh'
  BY <1>2, <1>7, <1>8 DEF HeldFresh, Fresh
<1>10. Turn'
  BY <1>2 DEF Turn
<1> QED BY <1>8, <1>9, <1>10 DEF Serial, TraceCurrent, FencedOff, AuthorityUsedOnce

\* Applying the receipt uses the authority of the lease and moves it on.
LEMMA SerialApply ==
  ASSUME TypeOK, Serial, NEW c \in Controllers, Apply(c)
  PROVE  Serial'
<1> DEFINE r == held[c].receipt
<1>1. held[c] # None /\ r \in Receipts /\ Fresh(held[c])
  BY DEF Apply, TypeOK, Serial, HeldFresh
<1>2. \A d \in Controllers : held'[d] = None
  BY <1>1 DEF Apply, TypeOK, Serial, Turn
<1>3. /\ lease'.revision = lease.revision + 1
      /\ lease'.token = lease.token + 1
      /\ lease'.phase = r.after
      /\ last' = r
  BY <1>1 DEF Apply, Fresh
<1>4. Follows(r)
  BY <1>1 DEF Follows, Fresh, Serial, TraceCurrent
<1>5. TraceCurrent'
  BY <1>1, <1>3, <1>4 DEF Apply, TraceCurrent, Serial, Fresh
<1>6. lease.revision \in Nat /\ lease.token \in Nat
  BY DEF TypeOK, Leases
<1>7. held[c].named \notin consumed
  BY <1>1, <1>6 DEF Serial, FencedOff, Fresh
<1>8. AuthorityUsedOnce'
  BY <1>7 DEF Apply, Serial, AuthorityUsedOnce
<1>9. ASSUME NEW u \in consumed' PROVE u[1] < lease'.revision /\ u[2] < lease'.token
  <2>1. CASE u \in consumed
    <3>1. u[1] < lease.revision /\ u[2] < lease.token /\ u[1] \in Nat /\ u[2] \in Nat
      BY <2>1 DEF Serial, FencedOff, TypeOK, Authorities
    <3> QED BY <1>3, <1>6, <3>1
  <2>2. CASE u = held[c].named
    BY <1>1, <1>3, <1>6, <2>2 DEF Fresh
  <2> QED BY <2>1, <2>2 DEF Apply
<1>10. Turn' /\ HeldFresh'
  BY <1>2 DEF Turn, HeldFresh
<1> QED BY <1>5, <1>8, <1>9, <1>10 DEF Serial, FencedOff

\* Every step keeps the invariant.
LEMMA SerialNext ==
  ASSUME Overlapping = FALSE, TypeOK, Serial, [Next]_vars
  PROVE  Serial'
<1>1. ASSUME NEW a \in Actors, Look(a) PROVE Serial'
  BY <1>1 DEF Look, trace, Serial, Turn, HeldFresh, Fresh, TraceCurrent, FencedOff, AuthorityUsedOnce
<1>2. ASSUME NEW c \in Controllers, NEW a \in Actors, Accept(c, a) PROVE Serial'
  BY <1>2, SerialAccept
<1>3. ASSUME NEW c \in Controllers, Apply(c) PROVE Serial'
  BY <1>3, SerialApply
<1>4. ASSUME NEW c \in Controllers, Abandon(c) PROVE Serial'
  <2>1. \A d \in Controllers : held'[d] # None => held'[d] = held[d]
    BY <1>4 DEF Abandon, TypeOK
  <2>2. Turn'
    BY <2>1 DEF Serial, Turn
  <2>3. HeldFresh'
    BY <1>4, <2>1 DEF Abandon, Serial, HeldFresh, Fresh
  <2> QED BY <1>4, <2>2, <2>3 DEF Abandon, trace, Serial, TraceCurrent, FencedOff, AuthorityUsedOnce
<1>5. CASE UNCHANGED vars
  BY <1>5 DEF vars, trace, Serial, Turn, HeldFresh, Fresh, TraceCurrent, FencedOff, AuthorityUsedOnce
<1> QED BY <1>1, <1>2, <1>3, <1>4, <1>5 DEF Next

LEMMA SerialAlways == ASSUME Overlapping = FALSE PROVE Spec => [](TypeOK /\ Serial)
<1>1. TypeOK /\ Serial /\ [Next]_vars => Serial'
  BY SerialNext
<1> QED BY TypeCorrect, SerialInit, <1>1, PTL DEF Spec

\* Controllers that take turns never let two requests that name the same
\* revision and token take effect.
THEOREM AuthorityIsUsedOnce == ASSUME Overlapping = FALSE PROVE Spec => []AuthorityUsedOnce
  BY SerialAlways, PTL DEF Serial

\* What was used is below what the lease asks for.
THEOREM UsedIsFencedOff == ASSUME Overlapping = FALSE PROVE Spec => []FencedOff
  BY SerialAlways, PTL DEF Serial

\* Their trace passes validate_trace.
THEOREM TraceAlwaysPasses == ASSUME Overlapping = FALSE PROVE Spec => []TracePasses
<1>1. Serial => TracePasses
  BY DEF Serial, TraceCurrent, TracePasses
<1> QED BY SerialAlways, <1>1, PTL

-----------------------------------------------------------------------------
(* Publication.                                                            *)

\* An applied transition is a step of the gate, or none.
LEMMA GateApply ==
  ASSUME Serial, NEW c \in Controllers, Apply(c)
  PROVE  [Gate!Next]_<<Stage, GatedHead>>
<1> DEFINE r == held[c].receipt
<1>1. Fresh(held[c])
  BY DEF Apply, Serial, HeldFresh
<1>2. lease'.phase = r.after /\ lease'.head = r.head
  BY DEF Apply
<1>3. <<r.action, lease.phase, r.after>> \in Transitions
  BY <1>1 DEF Fresh
<1> USE DEF Stage, GatedHead, FrozenPhases, EndedPhases
<1>4. CASE r.action = "freeze-publication"
  <2>1. lease.phase = "validating" /\ lease'.phase = "publication_frozen"
    BY <1>2, <1>3, <1>4 DEF Transitions, Heartbeats
  <2>2. lease'.head \in Heads
    BY <1>1, <1>2, <1>4 DEF Fresh
  <2>3. Gate!Freeze(lease'.head)
    BY <2>1 DEF Gate!Freeze
  <2> QED BY <2>2, <2>3 DEF Gate!Next
<1>5. CASE r.action = "record-merge"
  <2>1. lease.phase = "approved" /\ lease'.phase = "merged"
    BY <1>2, <1>3, <1>5 DEF Transitions, Heartbeats
  <2>2. lease'.head = lease.head
    BY <1>1, <1>2, <1>5 DEF Fresh
  <2> QED BY <2>1, <2>2 DEF Gate!Next, Gate!Land
<1>6. CASE r.action \notin {"freeze-publication", "record-merge"}
  <2>1. lease'.head = lease.head
    BY <1>1, <1>2, <1>6 DEF Fresh
  <2>2. \/ lease'.phase = lease.phase
        \/ lease.phase = "claimed" /\ lease'.phase = "editing"
        \/ lease.phase = "editing" /\ lease'.phase = "validating"
        \/ lease.phase = "publication_frozen" /\ lease'.phase = "dispatching"
        \/ lease.phase = "dispatching" /\ lease'.phase = "approved"
        \/ lease.phase \in {"closed", "cancelled", "expired"} /\ lease'.phase = "released"
        \/ lease.phase \notin {"closed", "cancelled", "expired", "released"}
           /\ lease'.phase \in {"closed", "cancelled", "expired"}
    BY <1>2, <1>3, <1>6 DEF Transitions, Heartbeats, Phases
  <2>3. CASE lease.phase \notin {"closed", "cancelled", "expired", "released"}
             /\ lease'.phase \in {"closed", "cancelled", "expired"}
    BY <2>3 DEF Gate!Next, Gate!End
  <2> QED BY <2>1, <2>2, <2>3
<1> QED BY <1>4, <1>5, <1>6

\* The lease implements the publication gate: a head is frozen, it stays as it
\* is, and only it lands.
THEOREM LeaseImplementsGate == ASSUME Overlapping = FALSE PROVE Spec => ImplementsGate
<1>1. Init => Gate!Init
  BY DEF Init, Gate!Init, Stage, GatedHead, FrozenPhases, EndedPhases
<1>2. Serial /\ [Next]_vars => [Gate!Next]_<<Stage, GatedHead>>
  <2> SUFFICES ASSUME Serial, [Next]_vars PROVE [Gate!Next]_<<Stage, GatedHead>>
    OBVIOUS
  <2>1. ASSUME NEW c \in Controllers, Apply(c) PROVE [Gate!Next]_<<Stage, GatedHead>>
    BY <2>1, GateApply
  <2>2. CASE lease' = lease
    BY <2>2 DEF Stage, GatedHead
  <2> QED BY <2>1, <2>2 DEF Next, Look, Accept, Abandon, vars
<1> QED BY SerialAlways, <1>1, <1>2, PTL DEF Spec, ImplementsGate, Gate!Spec

\* An ended lease stays ended.
THEOREM EndStaysFinal == ASSUME Overlapping = FALSE PROVE Spec => EndIsFinal
<1>1. Serial /\ [Next]_vars => [lease.phase \in EndedPhases => lease'.phase \in EndedPhases]_vars
  <2> SUFFICES ASSUME Serial, [Next]_vars, lease.phase \in EndedPhases
               PROVE  lease'.phase \in EndedPhases
    OBVIOUS
  <2>1. ASSUME NEW c \in Controllers, Apply(c) PROVE lease'.phase \in EndedPhases
    <3>1. Fresh(held[c]) /\ lease'.phase = held[c].receipt.after
      BY <2>1 DEF Apply, Serial, HeldFresh
    <3> QED BY <3>1 DEF Fresh, Transitions, Heartbeats, EndedPhases
  <2>2. CASE lease' = lease
    BY <2>2
  <2> QED BY <2>1, <2>2 DEF Next, Look, Accept, Abandon, vars
<1> QED BY SerialAlways, <1>1, PTL DEF Spec, EndIsFinal

\* With controllers that take turns, an authority takes effect once, is below what the lease
\* asks for from then on, and the trace passes validate_trace.
THEOREM AuthorityStaysFenced == ASSUME Overlapping = FALSE PROVE Spec => []AuthorityIsFenced
  BY AuthorityIsUsedOnce, UsedIsFencedOff, TraceAlwaysPasses, PTL DEF AuthorityIsFenced

------------------------------------------------------------------------------
(* Part 4: the composition.                                                *)

\* The theorems of TicketAllocationProofs about the interrupted executions.
Proved == INSTANCE TicketAllocationProofs
            WITH Faults <- {"signal"}, Storages <- {"files"}, Registered <- {},
                 Receipts <- {}, MergedHighest <- 1, lock <- numberLock,
                 CrashWorktrees <- {}, scenario <- "local"

composedVars == <<tool, emailVars, exportVars, vars, numberVars>>

\* A step of the composition is a step of each component, or leaves it as it is.
LEMMA ComponentSteps ==
  ASSUME [SingleUseNext]_composedVars
  PROVE  /\ [EmailNext]_emailVars
         /\ [ExportNext]_exportVars
         /\ [Next]_vars
         /\ [tool = "new-ticket" /\ Interrupted!Next]_numberVars
         /\ tool' = tool
BY DEF SingleUseNext, EmailRuns, ExportRuns, LeaseRuns, AllocationRuns, composedVars

\* A behaviour of the composition is one of each component.
LEMMA Components == SingleUseSpec => EmailSpec /\ ExportSpec /\ Spec
<1>1. SingleUseInit => EmailInit /\ ExportInit /\ Init
  BY DEF SingleUseInit
<1> QED BY <1>1, ComponentSteps, PTL DEF SingleUseSpec, EmailSpec, ExportSpec, Spec, composedVars

\* Whether the behaviour is of the allocation is settled at its start.
Allocating == tool = "new-ticket"

LEMMA AllocationComponent == SingleUseSpec => []~Allocating \/ Interrupted!Spec
<1>1. SingleUseInit => ~Allocating \/ Interrupted!Init
  BY DEF SingleUseInit, Allocating
<1>2. [SingleUseNext]_composedVars => [Interrupted!Next]_(Interrupted!vars)
  BY ComponentSteps DEF numberVars, Interrupted!vars
<1>3. ~Allocating /\ [SingleUseNext]_composedVars => ~Allocating'
  BY ComponentSteps DEF Allocating
<1> QED BY <1>1, <1>2, <1>3, PTL DEF SingleUseSpec, Interrupted!Spec, composedVars


\* The two instances of the allocation are one.
LEMMA SameSpec == Interrupted!Spec => Proved!Spec
<1>1. Interrupted!Init => Proved!Init
  BY DEF Interrupted!Init, Proved!Init
<1>2. [Interrupted!Next]_(Interrupted!vars) => [Proved!Next]_(Proved!vars)
  BY DEF Interrupted!vars, Proved!vars, Interrupted!run, Proved!run, Interrupted!store,
         Proved!store, Interrupted!Ticket, Proved!Ticket, Interrupted!NumbersOf,
         Proved!NumbersOf, Interrupted!Critical, Proved!Critical, Interrupted!Ended,
         Proved!Ended, Interrupted!Goto, Proved!Goto, Interrupted!Leave, Proved!Leave,
         Interrupted!Acquire, Proved!Acquire, Interrupted!Refuse, Proved!Refuse,
         Interrupted!NotAdmitted, Proved!NotAdmitted, Interrupted!Admit, Proved!Admit,
         Interrupted!IsHighest, Proved!IsHighest, Interrupted!Scan, Proved!Scan,
         Interrupted!ReadRefs, Proved!ReadRefs, Interrupted!ReadRows, Proved!ReadRows,
         Interrupted!ReadState, Proved!ReadState, Interrupted!ReadDirs, Proved!ReadDirs,
         Interrupted!Number, Proved!Number, Interrupted!NoReceipt, Proved!NoReceipt,
         Interrupted!MakeDirectory, Proved!MakeDirectory, Interrupted!DirectoryExists,
         Proved!DirectoryExists, Interrupted!Reserve, Proved!Reserve, Interrupted!Scaffold,
         Proved!Scaffold, Interrupted!CreateRow, Proved!CreateRow, Interrupted!CreateFails,
         Proved!CreateFails, Interrupted!ExitTrap, Proved!ExitTrap, Interrupted!Signal,
         Proved!Signal, Interrupted!Crash, Proved!Crash, Interrupted!Script, Proved!Script,
         Interrupted!RemoveStaleLock, Proved!RemoveStaleLock, Interrupted!Commit, Proved!Commit,
         Interrupted!Merge, Proved!Merge, Interrupted!RemoveWorktree, Proved!RemoveWorktree,
         Interrupted!DeleteBranch, Proved!DeleteBranch, Interrupted!Environment,
         Proved!Environment, Interrupted!Next, Proved!Next
<1> QED BY <1>1, <1>2, PTL DEF Interrupted!Spec, Proved!Spec

\* Executions of new-ticket.sh that lose their lock to a signal leave one ticket per directory,
\* and nothing of a refused one (lines 381-397).
THEOREM SignalsNeverHurt == SingleUseSpec => []SignalsAreSafe
<1>1. Proved!AllocationAssumption
  BY SingleUseAssumption DEF Proved!AllocationAssumption
<1>2. Proved!Spec => []Proved!SignalsAreSafe
  BY <1>1, Proved!SignalsStaySafe
<1>3. ~Allocating \/ Proved!SignalsAreSafe => SignalsAreSafe
  BY DEF Allocating, SignalsAreSafe, Interrupted!SignalsAreSafe, Proved!SignalsAreSafe,
         Interrupted!OneTicketPerDirectory, Proved!OneTicketPerDirectory,
         Interrupted!RefusalLeavesNothing, Proved!RefusalLeavesNothing, Interrupted!Ended,
         Proved!Ended, Interrupted!NumbersOf, Proved!NumbersOf, Interrupted!Ticket,
         Proved!Ticket
<1> QED BY <1>2, <1>3, SameSpec, AllocationComponent, PTL

\* What the composition keeps without any assumption: mail goes to approved recipients and is
\* reported as it went, what an export publishes is whole and verified and its answer fits, and
\* signals leave the tickets sound.
THEOREM SingleUseStaysSound ==
  SingleUseSpec => [](ApprovedOnly /\ ReportedIsSent /\ ExportIsVerified /\ AnswerFits
                      /\ SignalsAreSafe)
BY Components, SentIsApproved, ReportsAreHonest, TargetIsVerified, AnswerIsTrue,
   SignalsNeverHurt, PTL

\* What is good once is used once, when no call outlives its grant and no two controllers of a
\* lease act on the same authority at a time.
THEOREM UsedOnlyOnce ==
  ASSUME Prompt, Overlapping = FALSE
  PROVE  SingleUseSpec => [](AtMostOnce /\ AuthorityIsFenced) /\ ImplementsGate
BY Components, GrantIsUsedOnce, AuthorityStaysFenced, LeaseImplementsGate, PTL
=============================================================================
