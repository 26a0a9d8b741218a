------------------------ MODULE GovernedDeliveryProofs ------------------------
(***************************************************************************)
(* Proofs about GovernedDelivery and the checks it asks, for any tickets,  *)
(* paths, policy and plans, and any number of merges.                      *)
(*                                                                         *)
(* The first part is about what GovernanceCheck finds in any view; the     *)
(* second about a target branch that only grows; the rest takes the        *)
(* properties one after the other.                                         *)
(***************************************************************************)
EXTENDS GovernedDelivery, FiniteSetTheorems, WellFoundedInduction, TLAPS

-----------------------------------------------------------------------------
(* What a view without findings shows.                                     *)

\* A set with one element has one.
LEMMA OneIsSome == \A S : Cardinality(S) = 1 => S # {}
  BY FS_EmptySet

\* A ticket that is selected is a live one.
LEMMA SelectedIsActive ==
  ASSUME NEW v, Selected(v) # NoTicket
  PROVE  /\ Selected(v) \in Candidates(v) /\ Selected(v) \in Active(v)
         /\ {t \in Candidates(v) : Owns(v, t, Implementation(v))} # {} =>
              Owns(v, Selected(v), Implementation(v))
         /\ {t \in Candidates(v) : Owns(v, t, Implementation(v))} = {} =>
              Cardinality(Candidates(v)) = 1
<1> DEFINE owners == {t \in Candidates(v) : Owns(v, t, Implementation(v))}
<1>1. CASE Cardinality(owners) = 1
  <2>1. owners # {} /\ Selected(v) = CHOOSE t \in owners : TRUE
    BY <1>1, OneIsSome DEF Selected
  <2>2. Selected(v) \in owners
    BY <2>1
  <2> QED BY <2>1, <2>2 DEF Candidates
<1>2. CASE Cardinality(owners) # 1
  <2>1. /\ owners = {} /\ Cardinality(Candidates(v)) = 1
        /\ Selected(v) = CHOOSE t \in Candidates(v) : TRUE
    BY <1>2 DEF Selected
  <2>2. Selected(v) \in Candidates(v)
    BY <2>1, OneIsSome
  <2> QED BY <2>1, <2>2 DEF Candidates
<1> QED BY <1>1, <1>2

\* The gate and the coordination checks mean the same reservations: a ticket that is selected
\* for a change is one the change is checked against.
LEMMA SelectedContends ==
  ASSUME NEW v, v.adopted = {}, v.impl # {}, Selected(v) # NoTicket
  PROVE  Selected(v) \in Contending(v)
<1> DEFINE t == Selected(v)
           own == Active(v) \cap v.carriers
           touching == {u \in Active(v) : Readable(v, u) /\ Scope(Plan(v, u)) \cap v.impl # {}}
           owning == {u \in Active(v) : Owns(v, u, Implementation(v))}
<1>1. t \in Candidates(v) /\ t \in Active(v) /\ Implementation(v) = v.impl /\ Changed(v)
  BY SelectedIsActive DEF Implementation, Changed
<1>2. CASE own # {}
  BY <1>1, <1>2 DEF Candidates, Contending
<1>3. CASE own = {} /\ Cardinality(Active(v)) > 1 /\ Cardinality(touching) = 1
  <2>1. Contending(v) = touching
    BY <1>1, <1>3 DEF Contending
  <2>2. ASSUME NEW u \in Active(v), Owns(v, u, Implementation(v)) PROVE u \in touching
    BY <1>1, <2>2 DEF Owns, Directed
  <2>3. Owns(v, t, Implementation(v))
    <3>1. CASE Candidates(v) = Active(v)
      <4>1. Cardinality(Candidates(v)) # 1
        BY <1>3, <3>1
      <4> QED BY <4>1, SelectedIsActive
    <3>2. CASE Candidates(v) = owning
      BY <1>1, <3>2
    <3> QED BY <1>3, <3>1, <3>2 DEF Candidates
  <2> QED BY <1>1, <2>1, <2>2, <2>3
<1>4. CASE own = {} /\ ~(Cardinality(Active(v)) > 1 /\ Cardinality(touching) = 1)
  BY <1>1, <1>4 DEF Contending
<1> QED BY <1>2, <1>3, <1>4

\* A code that is not among the findings was not found.
LEMMA NotFound == \A code, condition : When(code, condition) = {} => ~condition
  BY DEF When

\* What it takes for a contending ticket to give no finding.
LEMMA ContendingIsValid ==
  ASSUME NEW v, Findings(v) = {}, NEW t \in Contending(v)
  PROVE  /\ t \in Valid(v, Contending(v))
         /\ \A d \in Plan(v, t).dependsOn : DependencyIsTerminal(v, d, Contending(v))
         /\ t \in Directed(v) => t \notin Plan(v, t).dependsOn
<1>1. CheckCoordination(v) = {}
  BY DEF Findings
<1>2. /\ IntentCodes(v, Contending(v)) = {} /\ GraphCodes(v) = {}
      /\ RelationCodes(v, Contending(v), Valid(v, Contending(v))) = {}
  BY <1>1 DEF CheckCoordination
<1>3. t \in Valid(v, Contending(v))
  BY <1>2 DEF IntentCodes
<1>4. \A d \in Plan(v, t).dependsOn : DependencyIsTerminal(v, d, Contending(v))
  <2> DEFINE Unfinished(u) ==
               When("GOV-DEPENDENCY-002",
                    \E d \in Plan(v, u).dependsOn : ~DependencyIsTerminal(v, d, Contending(v)))
             Codes(u) ==
               Unfinished(u)
                 \cup When("GOV-CONFLICT-001", Plan(v, u).conflictsWith \cap Contending(v) # {})
                 \cup When("GOV-INTEGRATION-001",
                           /\ Plan(v, u).integration # NoTicket
                           /\ ~IntegrationReferenceValid(v, Plan(v, u).integration))
  <2>1. UNION {Codes(u) : u \in Valid(v, Contending(v))} = {}
    BY <1>2 DEF RelationCodes
  <2>2. Unfinished(t) \subseteq Codes(t)
    OBVIOUS
  <2> HIDE DEF Unfinished, Codes
  <2>3. Codes(t) \subseteq UNION {Codes(u) : u \in Valid(v, Contending(v))}
    BY <1>3
  <2>4. Unfinished(t) = {}
    BY <2>1, <2>2, <2>3
  <2> QED BY <2>4, NotFound DEF Unfinished
<1>5. t \in Directed(v) => t \notin Plan(v, t).dependsOn
  <2>1. ~(\E u \in Directed(v) : u \in Plan(v, u).dependsOn \cup Plan(v, u).conflictsWith)
    BY <1>2 DEF GraphCodes, When
  <2> QED BY <2>1
<1> QED BY <1>3, <1>4, <1>5

\* What the gate makes sure of when it lets a change pass.
LEMMA GateHolds ==
  ASSUME NEW v, v.adopted = {}, v.impl # {}, Findings(v) = {}
  PROVE  LET t == Selected(v) IN
         /\ t # NoTicket /\ t \in Active(v) /\ t \in Contending(v)
         /\ v.impl \subseteq Scope(Plan(v, t))
         /\ v.impl \subseteq Matched(Owned[Plan(v, t).workstream])
         /\ Plan(v, t).delivery # NoDelivery => BaseCodes(v, t) = {}
<1> DEFINE t == Selected(v)
<1>1. Implementation(v) = v.impl /\ CheckChangeGate(v) = {}
  BY DEF Implementation, Findings
<1>2. t # NoTicket /\ SelectedCodes(v, t, v.impl) = {}
  BY <1>1 DEF CheckChangeGate
<1>3. t \in Active(v) /\ t \in Contending(v) /\ t \in Valid(v, Contending(v))
  BY <1>2, SelectedIsActive, SelectedContends, ContendingIsValid
<1>4. Readable(v, t) /\ Plan(v, t).schema = "v3" /\ Plan(v, t).workstream \in Workstream
  BY <1>3 DEF Valid
<1>5. /\ When("GOV-SCOPE-001", ~(v.impl \subseteq Scope(Plan(v, t)))) = {}
      /\ ChangeScopeCodes(v, t, v.impl) = {} /\ DeliveryCodes(v, t, v.impl) = {}
  BY <1>2, <1>4 DEF SelectedCodes
<1>6. v.impl \subseteq Scope(Plan(v, t))
  BY <1>5, NotFound
<1>7. v.impl \subseteq Matched(Owned[Plan(v, t).workstream])
  BY <1>4, <1>5, NotFound DEF ChangeScopeCodes
<1>8. Plan(v, t).delivery # NoDelivery => BaseCodes(v, t) = {}
  BY <1>5 DEF DeliveryCodes
<1> QED BY <1>2, <1>3, <1>6, <1>7, <1>8

-----------------------------------------------------------------------------
(* A target branch that only grows.                                        *)

\* The records and branches there are; an intent is written with the base it is accepted on.
Records == {[status |-> i.status, workflow |-> i.workflow, plan |-> i.plan, accepted |-> n] :
              i \in UNION {Plans[t] : t \in Ticket}, n \in Nat}
Merges == [ticket : Ticket, impl : SUBSET Path, carrier : BOOLEAN,
           record : Records \cup {NoTicket}, answers : Ticket \cup {NoTicket}]
Branches == [open : BOOLEAN, base : Nat, impl : SUBSET Path, carrier : BOOLEAN,
             record : Records \cup {NoTicket}, planned : SUBSET Ticket]
Keys == [tree : Branches, base : Nat]
Entries == [key : Keys \cup {NoKey}, origin : Nat, receipts : SUBSET Ticket, intact : BOOLEAN]

\* What is merged, and what a branch holds, with the record in it if it has one.
Typed ==
  /\ main \in Seq(Merges) /\ Target <= MaxMerges
  /\ \A i \in 1..Target : main[i].carrier => main[i].record \in Records
  /\ origin \in 0..Target
  /\ receipts \subseteq OnTarget(Target)
  /\ branch \in [Ticket -> Branches]
  /\ \A t \in Ticket : /\ branch[t].base <= origin
                       /\ branch[t].carrier => branch[t].record \in Records
  /\ cache \in [Ticket -> SUBSET Entries]
  /\ run \in [Ticket -> Keys \cup {NoKey}]
  /\ \A t \in Ticket : /\ run[t] # NoKey => cache[t] = {}
                       /\ Cardinality(cache[t]) <= 1

\* A merge leaves the merges before it as they are, and what is computed from them.
LEMMA Growth ==
  ASSUME main \in Seq(Merges), NEW m \in Merges, main' = Append(main, m)
  PROVE  /\ Target \in Nat /\ Target' = Target + 1
         /\ main'[Target + 1] = m /\ \A i \in 1..Target : main'[i] = main[i]
         /\ \A n \in 0..Target : /\ OnTarget(n)' = OnTarget(n) /\ Files(n)' = Files(n)
                                \* of every ticket
                                /\ \A u : Takes(n, u)' = Takes(n, u)
<1>1. /\ Target \in Nat /\ Target' = Target + 1
      /\ main'[Target + 1] = m /\ \A i \in 1..Target : main'[i] = main[i]
  BY DEF Target
<1>2. ASSUME NEW n \in 0..Target
      PROVE  /\ OnTarget(n)' = OnTarget(n) /\ Files(n)' = Files(n)
             /\ \A u : Takes(n, u)' = Takes(n, u)
  <2>1. n \in Nat /\ n <= Target /\ Target \in Nat
    BY <1>1
  <2>2. ASSUME NEW i \in 1..n PROVE main'[i] = main[i]
    <3>1. i \in 1..Target
      BY <2>1
    <3> QED BY <1>1, <3>1
  <2> QED BY <2>2 DEF OnTarget, Files, Takes
<1> QED BY <1>1, <1>2

\* The record of a ticket on the target is the one of its last merge that took its carrier.
LEMMA LandedIsTaken ==
  ASSUME Typed, NEW n \in 0..Target, NEW u \in OnTarget(n)
  PROVE  (CHOOSE i \in Takes(n, u) : \A j \in Takes(n, u) : j <= i) \in Takes(n, u)
<1> DEFINE S == {n - i : i \in Takes(n, u)}
           R == OpToRel(<, Nat)
<1>1. Target \in Nat /\ n \in Nat
  BY DEF Typed, Target
<1>2. Takes(n, u) # {} /\ Takes(n, u) \subseteq 1..n
  BY DEF OnTarget, Takes
<1>3. S \subseteq Nat /\ S # {}
  BY <1>1, <1>2
<1>4. PICK x \in S : \A y \in S : ~(<<y, x>> \in R)
  BY <1>3, WFMin, NatLessThanWellFounded
<1>5. \A y \in S : x <= y
  <2> SUFFICES ASSUME NEW y \in S PROVE x <= y
    OBVIOUS
  <2>1. x \in Nat /\ y \in Nat
    BY <1>3
  <2>2. <<y, x>> \in R <=> y < x
    BY <2>1 DEF OpToRel
  <2> HIDE DEF R, S
  <2> QED BY <1>4, <2>1, <2>2
<1>6. PICK last \in Takes(n, u) : x = n - last
  BY <1>4
<1>7. \A j \in Takes(n, u) : j <= last
  BY <1>1, <1>2, <1>5, <1>6
<1> QED BY <1>7

\* It is one that was written, for a ticket.
LEMMA LandedTyped ==
  ASSUME Typed, NEW n \in 0..Target, NEW u \in OnTarget(n)
  PROVE  u \in Ticket /\ Landed(n, u) \in Records
<1>1. Target \in Nat /\ n \in Nat /\ \A i \in 1..n : main[i] \in Merges
  BY DEF Typed, Target
<1>2. Landed(n, u) \in Records
  <2> DEFINE last == CHOOSE i \in Takes(n, u) : \A j \in Takes(n, u) : j <= i
  <2>1. last \in Takes(n, u) /\ Landed(n, u) = main[last].record
    BY LandedIsTaken DEF Landed
  <2> HIDE DEF last
  <2>2. last \in 1..Target /\ main[last].carrier
    BY <1>1, <2>1 DEF Takes
  <2> QED BY <2>1, <2>2 DEF Typed
<1> QED BY <1>1, <1>2 DEF OnTarget, Merges

\* So has every ticket that a branch shows.
LEMMA TreeTyped ==
  ASSUME Typed, NEW t \in Ticket
  PROVE  /\ DOMAIN Tree(t) = OnTarget(branch[t].base) \cup (IF branch[t].carrier THEN {t} ELSE {})
         /\ DOMAIN Tree(t) \subseteq Ticket
         /\ \A u \in DOMAIN Tree(t) :
              /\ Tree(t)[u] = IF u = t /\ branch[t].carrier THEN branch[t].record
                              ELSE Landed(branch[t].base, u)
              /\ Tree(t)[u] \in Records
<1>1. branch[t].base \in 0..Target
  BY DEF Typed, Branches, Target
<1> QED BY <1>1, LandedTyped DEF Tree, Typed

\* An accepted base is a number.
LEMMA RecordTyped == \A r \in Records : r.accepted \in Nat
  BY DEF Records

-----------------------------------------------------------------------------
(* Type correctness.                                                       *)

\* What the agent does in its worktree.
LEMMA TypedAdvance ==
  ASSUME Typed, NEW t \in Ticket,
         \/ Begin(t) \/ Refresh(t) \/ \E intent \in Plans[t] : WritePlan(t, intent)
         \/ \E p \in Path : Edit(t, p)
  PROVE  Typed'
<1>1. branch[t] \in Branches /\ origin \in Nat /\ Target \in Nat
  BY DEF Typed, Target
<1>2. PICK b : Advance(t, b) /\ b \in Branches /\ b.base <= origin
                             /\ (b.carrier => b.record \in Records)
  <2>1. CASE Begin(t)
    <3> DEFINE b == [NoBranch EXCEPT !.open = TRUE, !.base = origin]
    <3>1. b \in Branches /\ b.base = origin /\ b.carrier = FALSE
      BY <1>1 DEF NoBranch, Branches
    <3>2. Advance(t, b)
      BY <2>1 DEF Begin
    <3> HIDE DEF b
    <3> QED BY <1>1, <3>1, <3>2
  <2>2. CASE Refresh(t)
    <3> DEFINE b == [branch[t] EXCEPT !.base = origin]
    <3>1. b \in Branches /\ b.base = origin /\ b.carrier = branch[t].carrier
                         /\ b.record = branch[t].record
      BY <1>1 DEF Branches
    <3>2. Advance(t, b)
      BY <2>2 DEF Refresh
    <3> HIDE DEF b
    <3> QED BY <1>1, <3>1, <3>2 DEF Typed
  <2>3. ASSUME NEW intent \in Plans[t], WritePlan(t, intent)
        PROVE  \E b : Advance(t, b) /\ b \in Branches /\ b.base <= origin
                                    /\ (b.carrier => b.record \in Records)
    <3> DEFINE r == [status |-> intent.status, workflow |-> intent.workflow,
                     plan |-> intent.plan, accepted |-> branch[t].base]
               b == [branch[t] EXCEPT !.carrier = TRUE, !.record = r]
    <3>1. branch[t].base \in Nat /\ intent \in UNION {Plans[u] : u \in Ticket}
      BY <1>1 DEF Branches
    <3>2. r \in Records
      BY <3>1 DEF Records
    <3>3. Advance(t, b)
      BY <2>3 DEF WritePlan
    <3> HIDE DEF r
    <3>4. b \in Branches /\ b.base = branch[t].base /\ b.record = r
      BY <1>1, <3>2 DEF Branches
    <3> QED BY <3>2, <3>3, <3>4 DEF Typed
  <2>4. ASSUME NEW p \in Path, Edit(t, p)
        PROVE  \E b : Advance(t, b) /\ b \in Branches /\ b.base <= origin
                                    /\ (b.carrier => b.record \in Records)
    <3> DEFINE pl == IF branch[t].impl = {} THEN DOMAIN Tree(t) ELSE branch[t].planned
               b == [branch[t] EXCEPT !.impl = @ \cup {p}, !.planned = pl]
    <3>1. pl \in SUBSET Ticket
      BY <1>1, TreeTyped DEF Branches
    <3>2. Advance(t, b)
      BY <2>4 DEF Edit
    <3> HIDE DEF pl
    <3>3. b \in Branches /\ b.base = branch[t].base /\ b.record = branch[t].record
                         /\ b.carrier = branch[t].carrier
      BY <1>1, <3>1 DEF Branches
    <3> QED BY <3>2, <3>3 DEF Typed
  <2> QED BY <2>1, <2>2, <2>3, <2>4
<1> QED BY <1>2 DEF Advance, Typed, Target, OnTarget

\* A merge.
LEMMA DeliverTyped ==
  ASSUME Typed, NEW t \in Ticket, NEW evidence, Deliver(t, evidence)
  PROVE  LET v == View(t, branch[t].base, Target, {}, TRUE, evidence)
             m == [ticket |-> t, impl |-> branch[t].impl, carrier |-> branch[t].carrier,
                   record |-> branch[t].record, answers |-> Selected(v)]
         IN  /\ main' = Append(main, m) /\ m \in Merges
             /\ Findings(v) = {} /\ v.impl # {} /\ v.adopted = {}
             /\ Selected(v) \in Active(v) /\ Selected(v) \in Contending(v)
             /\ Selected(v) \in DOMAIN Tree(t)
<1> DEFINE v == View(t, branch[t].base, Target, {}, TRUE, evidence)
           m == [ticket |-> t, impl |-> branch[t].impl, carrier |-> branch[t].carrier,
                 record |-> branch[t].record, answers |-> Selected(v)]
<1>1. Findings(v) = {} /\ branch[t].impl # {} /\ main' = Append(main, m)
  BY DEF Deliver
<1>2. v.impl = branch[t].impl /\ v.adopted = {} /\ v.records = Tree(t)
  BY DEF View
<1> HIDE DEF v
<1>3. Selected(v) \in Active(v) /\ Selected(v) \in Contending(v)
  BY <1>1, <1>2, GateHolds
<1>4. Selected(v) \in DOMAIN Tree(t)
  BY <1>2, <1>3 DEF Active
<1>5. branch[t] \in Branches /\ Selected(v) \in Ticket
  BY <1>4, TreeTyped DEF Typed
<1>6. m \in Merges
  BY <1>5 DEF Merges, Branches
<1> QED BY <1>1, <1>2, <1>3, <1>4, <1>6 DEF v

LEMMA TypedDeliver ==
  ASSUME Typed, NEW t \in Ticket, NEW evidence, Deliver(t, evidence)
  PROVE  Typed'
<1> DEFINE v == View(t, branch[t].base, Target, {}, TRUE, evidence)
           m == [ticket |-> t, impl |-> branch[t].impl, carrier |-> branch[t].carrier,
                 record |-> branch[t].record, answers |-> Selected(v)]
<1>1. m \in Merges /\ main' = Append(main, m) /\ main \in Seq(Merges)
  BY DeliverTyped DEF Typed
<1> HIDE DEF v
<1>2. /\ Target \in Nat /\ Target' = Target + 1 /\ main' \in Seq(Merges)
      /\ main'[Target + 1] = m /\ \A i \in 1..Target : main'[i] = main[i]
  <2> HIDE DEF m
  <2>1. main' \in Seq(Merges)
    BY <1>1
  <2> QED BY <1>1, <2>1, Growth
<1>3. OnTarget(Target) \subseteq OnTarget(Target)'
  BY <1>2 DEF OnTarget
<1>4. receipts' \subseteq OnTarget(Target)'
  BY <1>3 DEF Deliver, Typed
<1>5. NoBranch \in Branches /\ NoBranch.base = 0 /\ NoBranch.carrier = FALSE
  BY DEF NoBranch, Branches
<1>6. /\ branch' \in [Ticket -> Branches] /\ cache' \in [Ticket -> SUBSET Entries]
      /\ \A u \in Ticket : branch'[u] = IF u = t THEN NoBranch ELSE branch[u]
      /\ \A u \in Ticket : cache'[u] = IF u = t THEN {} ELSE cache[u]
  BY <1>5 DEF Deliver, Typed
<1>7. ASSUME NEW i \in 1..Target', main'[i].carrier PROVE main'[i].record \in Records
  <2>1. CASE i \in 1..Target
    BY <1>2, <1>7, <2>1 DEF Typed
  <2>2. CASE i = Target + 1
    <3>1. main'[i].carrier = branch[t].carrier /\ main'[i].record = branch[t].record
      BY <1>2, <2>2
    <3> QED BY <1>7, <3>1 DEF Typed
  <2> QED BY <1>2, <1>7, <2>1, <2>2
<1>8. Target' <= MaxMerges
  BY <1>2, DeliveryAssumption DEF Deliver, Typed
<1>9. origin' = origin /\ run' = run /\ origin \in 0..Target /\ Typed
  BY DEF Deliver, Typed
<1>10. origin' \in 0..Target'
  BY <1>2, <1>9
<1>11. \A u \in Ticket : /\ branch'[u].base <= origin'
                         /\ branch'[u].carrier => branch'[u].record \in Records
  BY <1>5, <1>6, <1>9 DEF Typed
<1>12. \A u \in Ticket : /\ run'[u] # NoKey => cache'[u] = {}
                         /\ Cardinality(cache'[u]) <= 1
  <2> SUFFICES ASSUME NEW u \in Ticket
               PROVE  (run[u] # NoKey => cache'[u] = {}) /\ Cardinality(cache'[u]) <= 1
    BY <1>9
  <2>1. CASE u = t
    <3>1. cache'[u] = {} /\ Cardinality({}) = 0
      BY <1>6, <2>1, FS_EmptySet
    <3> QED BY <3>1
  <2>2. CASE u # t
    BY <1>6, <1>9, <2>2 DEF Typed
  <2> QED BY <2>1, <2>2
<1>13. run' \in [Ticket -> Keys \cup {NoKey}]
  BY <1>9 DEF Typed
<1> QED BY <1>2, <1>4, <1>6, <1>7, <1>8, <1>10, <1>11, <1>12, <1>13 DEF Typed

\* The local check, the clone and its receipts.
LEMMA TypedClone ==
  ASSUME Typed, NEW t \in Ticket, Miss(t) \/ Conclude(t) \/ Record(t) \/ Fetch
  PROVE  Typed'
<1>1. branch[t] \in Branches /\ origin \in Nat /\ Target \in Nat
  BY DEF Typed, Target
<1>2. CASE Miss(t)
  <2>1. Key(t) \in Keys
    BY <1>1 DEF Key, Keys, Branches
  <2> QED BY <1>2, <2>1 DEF Miss, Typed, Target, OnTarget
<1>3. CASE Conclude(t)
  <2>1. OnTarget(Target) \subseteq Ticket
    BY <1>1, LandedTyped
  <2>2. Entry(run[t], t) \in Entries
    BY <1>1, <2>1 DEF Entry, Entries, Typed
  <2>3. cache[t] = {} /\ Cardinality({Entry(run[t], t)}) = 1 /\ Cardinality({}) = 0
    BY <1>3, FS_Singleton, FS_EmptySet DEF Conclude, Typed
  <2>4. /\ cache' \in [Ticket -> SUBSET Entries]
        /\ \A u \in Ticket \ {t} : cache'[u] = cache[u]
        /\ cache'[t] \in {{}, {Entry(run[t], t)}}
    BY <1>3, <2>2, <2>3 DEF Conclude, Typed
  <2>5. run' \in [Ticket -> Keys \cup {NoKey}] /\ run'[t] = NoKey
        /\ \A u \in Ticket \ {t} : run'[u] = run[u]
    BY <1>3 DEF Conclude, Typed
  <2> QED BY <1>3, <2>3, <2>4, <2>5 DEF Conclude, Typed, Target, OnTarget
<1>4. CASE Record(t)
  BY <1>4 DEF Record, Typed, Target, OnTarget
<1>5. CASE Fetch
  BY <1>1, <1>5 DEF Fetch, Typed, Branches, Target, OnTarget
<1> QED BY <1>2, <1>3, <1>4, <1>5

\* Every step keeps the types.
LEMMA TypedNext == Typed /\ [Next]_vars => Typed'
<1> SUFFICES ASSUME Typed, [Next]_vars PROVE Typed'
  OBVIOUS
<1>1. CASE UNCHANGED vars
  BY <1>1 DEF vars, Typed, Target, OnTarget
<1>2. CASE Fetch
  <2>1. CASE Ticket = {}
    BY <1>2, <2>1 DEF Fetch, Typed, Target, OnTarget
  <2> QED BY <1>2, <2>1, TypedClone
<1> QED BY <1>1, <1>2, TypedAdvance, TypedDeliver, TypedClone DEF Next

LEMMA TypedAlways == Spec => []Typed
<1>1. Init => Typed
  <2> SUFFICES ASSUME Init PROVE Typed
    OBVIOUS
  <2>1. NoBranch \in Branches /\ NoBranch.base = 0 /\ NoBranch.carrier = FALSE
    BY DEF NoBranch, Branches
  <2>2. main = <<>> /\ Target = 0 /\ OnTarget(0) = {}
    BY DEF Init, Target, OnTarget
  <2> QED BY <2>1, <2>2, DeliveryAssumption, FS_EmptySet DEF Init, Typed
<1> QED BY <1>1, TypedNext, PTL DEF Spec

\* The bounds of all variables.
THEOREM TypeCorrect == Spec => []TypeOK
<1>1. Typed => TypeOK
  BY DEF Typed, TypeOK, Branches, Target
<1> QED BY <1>1, TypedAlways, PTL

-----------------------------------------------------------------------------
(* What every merge was let in under.                                      *)

\* The ticket that answers for a merge shows a record in the tree that was merged.
Shown(i) == OnTarget(i - 1) \cup (IF main[i].carrier THEN {main[i].ticket} ELSE {})

SoundMerge(i) ==
  /\ main[i].answers \in Ticket /\ main[i].answers \in Shown(i)
  /\ Answering(i).status = "IN_PROGRESS"
  /\ main[i].impl \subseteq Scope(Answering(i).plan)
  /\ main[i].impl \subseteq Matched(Owned[Answering(i).plan.workstream])
  /\ Answering(i).plan.delivery # NoDelivery =>
       \A j \in Answering(i).accepted + 1 .. i - 1 :
         main[j].impl \cap UNION Answering(i).plan.delivery.components = {}
  /\ main[i].carrier /\ main[i].record.status = "IN_PROGRESS" =>
       main[i].record.plan.dependsOn \subseteq OnTarget(i - 1)

MergesAreSound == \A i \in 1..Target : SoundMerge(i)

\* What is recorded on the target at some revision stays recorded at that revision.
LEMMA LandedKept ==
  ASSUME Typed, NEW m \in Merges, main' = Append(main, m), NEW n \in 0..Target,
         NEW u \in OnTarget(n)
  PROVE  Landed(n, u)' = Landed(n, u)
<1>1. main \in Seq(Merges)
  BY DEF Typed
<1>2. /\ Target \in Nat /\ n \in Nat /\ Takes(n, u)' = Takes(n, u)
      /\ \A i \in 1..n : main'[i] = main[i]
  <2>1. n \in Nat /\ Target \in Nat /\ \A i \in 1..n : i \in 1..Target
    BY <1>1 DEF Target
  <2> QED BY <1>1, <2>1, Growth
<1> DEFINE last == CHOOSE i \in Takes(n, u) : \A j \in Takes(n, u) : j <= i
<1>3. last \in 1..n
  BY LandedIsTaken DEF Takes
<1>4. Landed(n, u) = main[last].record
  BY DEF Landed
<1>5. Landed(n, u)' = main'[last].record
  BY <1>2 DEF Landed
<1> QED BY <1>2, <1>3, <1>4, <1>5

\* A merge that is sound stays sound.
LEMMA SoundStays ==
  ASSUME Typed, NEW m \in Merges, main' = Append(main, m), NEW i \in 1..Target, SoundMerge(i)
  PROVE  SoundMerge(i)'
<1>1. main \in Seq(Merges)
  BY DEF Typed
<1>2. /\ Target \in Nat /\ i - 1 \in 0..Target /\ OnTarget(i - 1)' = OnTarget(i - 1)
      /\ \A j \in 1..i : main'[j] = main[j]
  <2>1. Target \in Nat /\ i - 1 \in 0..Target /\ \A j \in 1..i : j \in 1..Target
    BY <1>1 DEF Target
  <2> QED BY <1>1, <2>1, Growth
<1>3. main'[i] = main[i] /\ Shown(i)' = Shown(i)
  <2>1. i \in 1..i
    BY <1>1 DEF Target
  <2> QED BY <1>2, <2>1 DEF Shown
<1>4. Answering(i)' = Answering(i)
  <2>1. CASE main[i].answers = main[i].ticket /\ main[i].carrier
    BY <1>3, <2>1 DEF Answering
  <2>2. CASE ~(main[i].answers = main[i].ticket /\ main[i].carrier)
    <3>1. main[i].answers \in OnTarget(i - 1)
      BY <2>2 DEF SoundMerge, Shown
    <3>2. Landed(i - 1, main[i].answers)' = Landed(i - 1, main[i].answers)
      BY <1>2, <1>3, <3>1, LandedKept
    <3> QED BY <1>3, <2>2, <3>2 DEF Answering
  <2> QED BY <2>1, <2>2
<1>5. Answering(i).accepted \in Nat
  <2>1. CASE main[i].answers = main[i].ticket /\ main[i].carrier
    BY <2>1, RecordTyped DEF Answering, Typed
  <2>2. CASE ~(main[i].answers = main[i].ticket /\ main[i].carrier)
    <3>1. main[i].answers \in OnTarget(i - 1)
      BY <2>2 DEF SoundMerge, Shown
    <3> QED BY <1>2, <2>2, <3>1, LandedTyped, RecordTyped DEF Answering
  <2> QED BY <2>1, <2>2
<1>6. \A j \in Answering(i).accepted + 1 .. i - 1 : main'[j] = main[j]
  <2>1. \A j \in Answering(i).accepted + 1 .. i - 1 : j \in 1..i
    BY <1>1, <1>5 DEF Target
  <2> QED BY <1>2, <2>1
<1> QED BY <1>2, <1>3, <1>4, <1>6 DEF SoundMerge

\* The merge that is let in is sound.
LEMMA DeliverSound ==
  ASSUME Typed, NEW t \in Ticket, NEW evidence, Deliver(t, evidence),
         NEW n \in Nat, n = Target
  PROVE  SoundMerge(n + 1)'
<1> DEFINE v == View(t, branch[t].base, Target, {}, TRUE, evidence)
           a == Selected(v)
           m == [ticket |-> t, impl |-> branch[t].impl, carrier |-> branch[t].carrier,
                 record |-> branch[t].record, answers |-> a]
<1>1. /\ m \in Merges /\ main' = Append(main, m) /\ main \in Seq(Merges)
      /\ Findings(v) = {} /\ v.impl # {} /\ v.adopted = {}
      /\ a \in Active(v) /\ a \in Contending(v) /\ a \in DOMAIN Tree(t)
  BY DeliverTyped DEF Typed
<1>2. /\ branch[t].base = n /\ v.impl = branch[t].impl /\ v.records = Tree(t)
      /\ v.carriers = (IF branch[t].carrier THEN {t} ELSE {}) /\ v.terminal = {}
      /\ v.base = n /\ v.target = n /\ v.onTarget = FALSE
      /\ v.landed = [i \in 1..n |-> main[i].impl]
  BY DEF Deliver, View
<1>3. /\ main'[n + 1] = m /\ \A i \in 1..n : main'[i] = main[i]
      /\ OnTarget(n)' = OnTarget(n) /\ n \in 0..Target
  <2> HIDE DEF m
  <2>1. n \in 0..Target /\ \A i \in 1..n : i \in 1..Target
    OBVIOUS
  <2> QED BY <1>1, <2>1, Growth
<1>4. /\ main'[n + 1].impl = branch[t].impl /\ main'[n + 1].carrier = branch[t].carrier
      /\ main'[n + 1].record = branch[t].record /\ main'[n + 1].ticket = t
      /\ main'[n + 1].answers = a
  BY <1>3
<1>5. OnTarget(n + 1 - 1)' = OnTarget(n) /\ n + 1 - 1 = n
  <2>1. n + 1 - 1 = n
    OBVIOUS
  <2> QED BY <1>3, <2>1
<1> HIDE DEF v
<1>6. Answering(n + 1)' = Tree(t)[a] /\ Tree(t)[a] \in Records
  <2>1. CASE a = t /\ branch[t].carrier
    <3>1. Answering(n + 1)' = branch[t].record
      BY <1>4, <2>1 DEF Answering
    <3> QED BY <1>1, <2>1, <3>1, TreeTyped
  <2>2. CASE ~(a = t /\ branch[t].carrier)
    <3>1. a \in OnTarget(n) /\ Tree(t)[a] = Landed(n, a) /\ Tree(t)[a] \in Records
      BY <1>1, <1>2, <2>2, TreeTyped
    <3>2. ASSUME NEW u \in OnTarget(n) PROVE Landed(n, u)' = Landed(n, u)
      <4> HIDE DEF m
      <4> QED BY <1>1, <1>3, LandedKept
    <3>3. Answering(n + 1)' = Landed(n, a)
      <4>1. PICK u \in OnTarget(n) : u = a
        BY <3>1
      <4>2. Answering(n + 1)' = Landed(n + 1 - 1, u)'
        BY <1>4, <2>2, <4>1 DEF Answering
      <4> QED BY <1>5, <3>2, <4>1, <4>2
    <3> QED BY <3>1, <3>3
  <2> QED BY <2>1, <2>2
<1>7. /\ Plan(v, a) = Tree(t)[a].plan /\ Tree(t)[a].status = "IN_PROGRESS"
      /\ branch[t].impl \subseteq Scope(Tree(t)[a].plan)
      /\ branch[t].impl \subseteq Matched(Owned[Tree(t)[a].plan.workstream])
      /\ Tree(t)[a].plan.delivery # NoDelivery => BaseCodes(v, a) = {}
  BY <1>1, <1>2, GateHolds DEF Plan, Active
<1>8. ASSUME Tree(t)[a].plan.delivery # NoDelivery, NEW j \in Tree(t)[a].accepted + 1 .. n
      PROVE  main'[j].impl \cap UNION Tree(t)[a].plan.delivery.components = {}
  <2>1. j \in 1..n
    BY <1>6, RecordTyped
  <2>2. n \in ObservedBases(v)
    BY <1>2 DEF ObservedBases
  <2>3. Intervening(v, Tree(t)[a].accepted, n) \cap UNION Tree(t)[a].plan.delivery.components = {}
    <3>1. ~(\E o \in ObservedBases(v) :
              Intervening(v, v.records[a].accepted, o) \cap UNION Plan(v, a).delivery.components # {})
      BY <1>7, <1>8 DEF BaseCodes, When
    <3> QED BY <1>2, <1>7, <2>2, <3>1
  <2>4. v.landed[j] \subseteq Intervening(v, Tree(t)[a].accepted, n)
    BY <1>8 DEF Intervening
  <2>5. v.landed[j] = main'[j].impl
    BY <1>2, <1>3, <2>1
  <2> QED BY <2>3, <2>4, <2>5
<1>9. ASSUME branch[t].carrier, branch[t].record.status = "IN_PROGRESS"
      PROVE  branch[t].record.plan.dependsOn \subseteq OnTarget(n)
  <2>1. /\ t \in DOMAIN Tree(t) /\ Tree(t)[t] = branch[t].record
        /\ DOMAIN Tree(t) = OnTarget(n) \cup {t}
    BY <1>2, <1>9, TreeTyped
  <2>2. t \in Active(v) /\ Plan(v, t) = branch[t].record.plan /\ Changed(v)
    BY <1>1, <1>2, <1>9, <2>1 DEF Active, Plan, Changed
  <2>3. t \in Contending(v)
    BY <1>2, <1>9, <2>2 DEF Contending
  <2>4. t \in Directed(v)
    BY <1>1, <1>2, <2>1, <2>3, ContendingIsValid DEF Valid, Directed
  <2>5. \A d \in branch[t].record.plan.dependsOn : d \in DOMAIN Tree(t) /\ d # t
    BY <1>1, <1>2, <2>2, <2>3, <2>4, ContendingIsValid DEF DependencyIsTerminal
  <2> QED BY <2>1, <2>5
<1>10. a \in Ticket /\ a \in Shown(n + 1)'
  <2>1. a \in Ticket /\ a \in OnTarget(n) \cup (IF branch[t].carrier THEN {t} ELSE {})
    BY <1>1, <1>2, TreeTyped
  <2> QED BY <1>4, <1>5, <2>1 DEF Shown
<1> QED BY <1>4, <1>5, <1>6, <1>7, <1>8, <1>9, <1>10 DEF SoundMerge

LEMMA SoundNext == Typed /\ MergesAreSound /\ [Next]_vars => MergesAreSound'
<1> SUFFICES ASSUME Typed, MergesAreSound, [Next]_vars PROVE MergesAreSound'
  OBVIOUS
<1>1. ASSUME NEW t \in Ticket, NEW evidence, Deliver(t, evidence) PROVE MergesAreSound'
  <2>1. PICK m \in Merges : main' = Append(main, m)
    BY <1>1, DeliverTyped
  <2>2. main \in Seq(Merges)
    BY DEF Typed
  <2>3. PICK n \in Nat : n = Target
    BY <2>2 DEF Target
  <2>4. Target' = n + 1
    BY <2>1, <2>2, <2>3, Growth
  <2>5. SoundMerge(n + 1)'
    BY <1>1, <2>3, DeliverSound
  <2>6. ASSUME NEW i \in 1..n PROVE SoundMerge(i)'
    <3>1. i \in 1..Target /\ SoundMerge(i)
      BY <2>3 DEF MergesAreSound
    <3> QED BY <2>1, <3>1, SoundStays
  <2>7. \A i \in 1..n + 1 : i = n + 1 \/ i \in 1..n
    OBVIOUS
  <2> QED BY <2>4, <2>5, <2>6, <2>7 DEF MergesAreSound
<1>2. CASE UNCHANGED main
  <2>1. /\ Target' = Target /\ \A n : OnTarget(n)' = OnTarget(n)
        /\ \A n, u : Takes(n, u)' = Takes(n, u)
    BY <1>2 DEF Target, OnTarget, Takes
  <2>2. \A n, u : Landed(n, u)' = Landed(n, u)
    BY <1>2, <2>1 DEF Landed
  <2>3. \A i : Answering(i)' = Answering(i) /\ Shown(i)' = Shown(i)
    BY <1>2, <2>1, <2>2 DEF Answering, Shown
  <2> QED BY <1>2, <2>1, <2>3 DEF MergesAreSound, SoundMerge
<1> QED BY <1>1, <1>2 DEF Next, Begin, Refresh, Record, Miss, Conclude, WritePlan, Edit, Advance,
                         Fetch, vars

LEMMA SoundAlways == Spec => []MergesAreSound
<1>1. Init => MergesAreSound
  BY DEF Init, MergesAreSound, Target
<1> QED BY <1>1, SoundNext, TypedAlways, PTL DEF Spec

\* Everything on the target branch was changed under a live ticket, in the scope of its intent
\* and in what its workstream owns.
THEOREM ChangesAreAccountedFor == Spec => []AccountedFor
<1>1. MergesAreSound => AccountedFor
  BY DEF MergesAreSound, SoundMerge, AccountedFor
<1> QED BY <1>1, SoundAlways, PTL

\* Nobody else changes a path of an approved component between the accepted base and the merge.
THEOREM ContractsAreNotStale == Spec => []NoStaleOverlap
<1>1. MergesAreSound => NoStaleOverlap
  BY DEF MergesAreSound, SoundMerge, NoStaleOverlap
<1> QED BY <1>1, SoundAlways, PTL

\* A ticket is delivered after what it depends on.
THEOREM DependenciesComeFirst == Spec => []DependenciesDelivered
<1>1. MergesAreSound => DependenciesDelivered
  BY DEF MergesAreSound, SoundMerge, DependenciesDelivered
<1> QED BY <1>1, SoundAlways, PTL

-----------------------------------------------------------------------------
(* Views that are found the same in.                                       *)

\* Two views of one tree and one change, that observe the same revisions of the target and see
\* the same changes up to them.
Alike(v, w) ==
  /\ v.records = w.records /\ v.impl = w.impl /\ v.carriers = w.carriers
  /\ v.files = w.files /\ v.adopted = w.adopted /\ v.terminal = w.terminal
  /\ ObservedBases(v) = ObservedBases(w)
  /\ \A t \in DOMAIN v.records, o \in ObservedBases(v) :
       Intervening(v, v.records[t].accepted, o) = Intervening(w, v.records[t].accepted, o)

\* The same tickets contend, and are candidates.
LEMMA AlikeTickets ==
  ASSUME NEW v, NEW w, Alike(v, w)
  PROVE  /\ \A t : Plan(v, t) = Plan(w, t) /\ (Readable(v, t) <=> Readable(w, t))
         /\ Directed(v) = Directed(w) /\ Active(v) = Active(w)
         /\ Contending(v) = Contending(w)
         /\ \A live : Valid(v, live) = Valid(w, live)
         /\ Candidates(v) = Candidates(w) /\ Selected(v) = Selected(w)
<1>1. \A t : Plan(v, t) = Plan(w, t) /\ (Readable(v, t) <=> Readable(w, t))
  BY DEF Alike, Plan, Readable
<1>2. Directed(v) = Directed(w) /\ Active(v) = Active(w)
  BY <1>1 DEF Alike, Directed, Active
<1>3. \A live : Valid(v, live) = Valid(w, live)
  BY <1>1 DEF Valid
<1>4. Contending(v) = Contending(w)
  <2> DEFINE touching(x) == {t \in Active(x) : Readable(x, t) /\ Scope(Plan(x, t)) \cap x.impl # {}}
  <2>1. touching(v) = touching(w)
    BY <1>1, <1>2 DEF Alike
  <2>2. Changed(v) <=> Changed(w)
    BY DEF Alike, Changed
  <2> QED BY <1>2, <2>1, <2>2 DEF Alike, Contending
<1>5. Implementation(v) = Implementation(w)
  BY DEF Alike, Implementation
<1>6. \A t : Owns(v, t, Implementation(v)) <=> Owns(w, t, Implementation(w))
  BY <1>1, <1>2, <1>5 DEF Owns
<1>7. Candidates(v) = Candidates(w)
  <2> DEFINE owners(x) == {t \in Active(x) : Owns(x, t, Implementation(x))}
  <2>1. owners(v) = owners(w)
    BY <1>2, <1>6
  <2> QED BY <1>2, <1>5, <2>1 DEF Alike, Candidates
<1>8. Selected(v) = Selected(w)
  <2> DEFINE owners(x) == {t \in Candidates(x) : Owns(x, t, Implementation(x))}
             Chosen(x) == IF Cardinality(owners(x)) = 1 THEN CHOOSE t \in owners(x) : TRUE
                          ELSE IF owners(x) = {} /\ Cardinality(Candidates(x)) = 1
                               THEN CHOOSE t \in Candidates(x) : TRUE ELSE NoTicket
  <2>1. owners(v) = owners(w)
    BY <1>6, <1>7
  <2>2. Selected(v) = Chosen(v) /\ Selected(w) = Chosen(w)
    BY DEF Selected
  <2> HIDE DEF owners
  <2> QED BY <1>7, <2>1, <2>2
<1> QED BY <1>1, <1>2, <1>3, <1>4, <1>7, <1>8

\* The coordination checks find the same.
LEMMA AlikeCoordination ==
  ASSUME NEW v, NEW w, Alike(v, w)
  PROVE  CheckCoordination(v) = CheckCoordination(w)
<1> DEFINE live == Contending(v)
           valid == Valid(v, live)
<1>1. /\ \A t : Plan(v, t) = Plan(w, t) /\ (Readable(v, t) <=> Readable(w, t))
      /\ Directed(v) = Directed(w) /\ Contending(w) = live /\ Valid(w, live) = valid
      /\ v.records = w.records /\ v.files = w.files /\ v.adopted = w.adopted
  BY AlikeTickets DEF Alike
<1> HIDE DEF live, valid
<1>2. StatusCodes(v) = StatusCodes(w)
  BY <1>1 DEF StatusCodes
<1>3. IntentCodes(v, live) = IntentCodes(w, live)
  <2>1. Valid(v, live) = Valid(w, live)
    BY AlikeTickets
  <2> QED BY <1>1, <2>1 DEF IntentCodes
<1>4. LimitCodes(v, valid) = LimitCodes(w, valid)
  <2>1. \A u : {t \in valid : Plan(v, t).workstream = u} = {t \in valid : Plan(w, t).workstream = u}
    BY <1>1
  <2> QED BY <2>1 DEF LimitCodes
<1>5. GraphCodes(v) = GraphCodes(w)
  <2>1. [t \in Directed(v) |-> Plan(v, t).dependsOn] = [t \in Directed(w) |-> Plan(w, t).dependsOn]
    BY <1>1
  <2>2. /\ (\E t \in Directed(v) : t \in Plan(v, t).dependsOn \cup Plan(v, t).conflictsWith)
           <=> (\E t \in Directed(w) : t \in Plan(w, t).dependsOn \cup Plan(w, t).conflictsWith)
    BY <1>1
  <2> QED BY <2>1, <2>2 DEF GraphCodes, When
<1>6. RelationCodes(v, live, valid) = RelationCodes(w, live, valid)
  <2> DEFINE Codes(x, t) ==
                 When("GOV-DEPENDENCY-002",
                      \E d \in Plan(x, t).dependsOn : ~DependencyIsTerminal(x, d, live))
            \cup When("GOV-CONFLICT-001", Plan(x, t).conflictsWith \cap live # {})
            \cup When("GOV-INTEGRATION-001",
                      /\ Plan(x, t).integration # NoTicket
                      /\ ~IntegrationReferenceValid(x, Plan(x, t).integration))
  <2>1. \A d : DependencyIsTerminal(v, d, live) <=> DependencyIsTerminal(w, d, live)
    BY <1>1 DEF DependencyIsTerminal
  <2>2. \A t : IntegrationReferenceValid(v, t) <=> IntegrationReferenceValid(w, t)
    BY <1>1 DEF IntegrationReferenceValid
  <2>3. \A t : Codes(v, t) = Codes(w, t)
    BY <1>1, <2>1, <2>2 DEF When
  <2>4. /\ RelationCodes(v, live, valid) = UNION {Codes(v, t) : t \in valid}
        /\ RelationCodes(w, live, valid) = UNION {Codes(w, t) : t \in valid}
    BY DEF RelationCodes
  <2> HIDE DEF Codes
  <2> QED BY <2>3, <2>4
<1>7. ClaimCodes(v, valid) = ClaimCodes(w, valid)
  BY <1>1 DEF ClaimCodes, When
<1>8. OverlapCodes(v, valid) = OverlapCodes(w, valid)
  BY <1>1 DEF OverlapCodes, When
<1> QED BY <1>1, <1>2, <1>3, <1>4, <1>5, <1>6, <1>7, <1>8 DEF CheckCoordination, live, valid

\* The delivery contract is kept in both or in none.
LEMMA AlikeDelivery ==
  ASSUME NEW v, NEW w, Alike(v, w), NEW t \in DOMAIN v.records, NEW changes
  PROVE  DeliveryCodes(v, t, changes) = DeliveryCodes(w, t, changes)
<1>1. Plan(v, t) = Plan(w, t) /\ v.records[t] = w.records[t] /\ ObservedBases(v) = ObservedBases(w)
  BY AlikeTickets DEF Alike
<1>2. BaseCodes(v, t) = BaseCodes(w, t)
  <2> DEFINE accepted == v.records[t].accepted
  <2>1. \A o \in ObservedBases(v) : Intervening(v, accepted, o) = Intervening(w, accepted, o)
    BY DEF Alike
  <2> QED BY <1>1, <2>1 DEF BaseCodes, When
<1>3. ArchitectureCodes(v, t, changes) = ArchitectureCodes(w, t, changes)
  BY <1>1 DEF ArchitectureCodes
<1> QED BY <1>1, <1>2, <1>3 DEF DeliveryCodes

\* A view without findings has none when it is looked at again in one that is alike, that
\* enforces no approval, and that knows the live tickets from before the change.
LEMMA AlikeFindings ==
  ASSUME NEW v, NEW w, Alike(v, w), ~w.enforce, Findings(v) = {},
         \A t \in Active(v) : t \in v.planned => t \in w.planned
  PROVE  Findings(w) = {}
<1> DEFINE t == Selected(v)
           i == Implementation(v)
<1>1. CheckCoordination(w) = {}
  BY AlikeCoordination DEF Findings
<1>2. CheckChangeGate(w) = {}
  <2>1. /\ Selected(w) = t /\ Candidates(w) = Candidates(v)
        /\ Implementation(w) = i /\ (Changed(w) <=> Changed(v)) /\ v.adopted = w.adopted
        /\ CheckChangeGate(v) = {}
    BY AlikeTickets DEF Alike, Implementation, Changed, Findings
  <2>2. CASE i = {}
    BY <2>1, <2>2 DEF CheckChangeGate, When
  <2>3. CASE i # {}
    <3>1. t # NoTicket /\ SelectedCodes(v, t, i) = {} /\ Candidates(v) # {}
      BY <2>1, <2>3 DEF CheckChangeGate
    <3>2. t \in Active(v) /\ t \in DOMAIN v.records
      BY <3>1, SelectedIsActive DEF Active
    <3>3. /\ Plan(v, t) = Plan(w, t) /\ (Readable(v, t) <=> Readable(w, t))
          /\ v.records = w.records /\ DeliveryCodes(v, t, i) = DeliveryCodes(w, t, i)
      BY <3>2, AlikeTickets, AlikeDelivery DEF Alike
    <3>4. PlannedFirst(v, t) => PlannedFirst(w, t)
      BY <3>2 DEF PlannedFirst
    <3>5. ChangeScopeCodes(v, t, i) = ChangeScopeCodes(w, t, i)
      BY <3>3 DEF ChangeScopeCodes
    <3>6. SelectedCodes(w, t, i) = {}
      BY <3>1, <3>3, <3>4, <3>5 DEF SelectedCodes, When
    <3>7. ApprovalCodes(w, t) = {}
      BY DEF ApprovalCodes
    <3> QED BY <2>1, <2>3, <3>1, <3>6, <3>7 DEF CheckChangeGate
  <2> QED BY <2>2, <2>3
<1> QED BY <1>1, <1>2 DEF Findings
-----------------------------------------------------------------------------
(* The published target gives no finding.                                  *)

\* What a check sees of the published target at its revision n.
PublishedAt(n) ==
  [records |-> [u \in OnTarget(n) |-> Landed(n, u)], impl |-> main[n].impl,
   carriers |-> IF main[n].carrier THEN {main[n].ticket} ELSE {},
   files |-> Files(n), adopted |-> {}, terminal |-> {}, planned |-> OnTarget(n),
   base |-> n - 1, target |-> n, landed |-> [i \in 1..n |-> main[i].impl],
   onTarget |-> TRUE, tip |-> n, head |-> "head", enforce |-> FALSE, evidence |-> {}]

\* The published view is the one of the last revision, in every state.
ShowsLast == \A n : n = Target => PublishedView = PublishedAt(n)

LEMMA PublishedIsLast == ShowsLast
  BY DEF ShowsLast, PublishedView, PublishedAt

\* A merge that takes the carrier of its ticket has its record on the target; the other records
\* are those of before.
LEMMA LandedAfter ==
  ASSUME Typed, NEW m \in Merges, main' = Append(main, m), NEW n \in Nat, n = Target
  PROVE  /\ OnTarget(n + 1)' = OnTarget(n) \cup (IF m.carrier THEN {m.ticket} ELSE {})
         /\ Files(n + 1)' = Files(n) \cup m.impl
         /\ \A u \in OnTarget(n + 1)' :
              Landed(n + 1, u)' = IF u = m.ticket /\ m.carrier THEN m.record ELSE Landed(n, u)
<1>1. /\ main \in Seq(Merges) /\ n \in 0..Target /\ n + 1 \in Nat
      /\ main'[n + 1] = m /\ \A i \in 1..n : main'[i] = main[i]
  <2>1. main \in Seq(Merges) /\ n \in 0..Target /\ \A i \in 1..n : i \in 1..Target
    BY DEF Typed
  <2>2. main'[Target + 1] = m /\ \A i \in 1..Target : main'[i] = main[i]
    BY <2>1, Growth
  <2>3. main'[n + 1] = m /\ \A i \in 1..n : main'[i] = main[i]
    BY <2>2, Zenon
  <2>4. n + 1 \in Nat
    OBVIOUS
  <2> QED BY <2>1, <2>3, <2>4, Zenon
<1>2. /\ n + 1 \in 1..n + 1 /\ n + 1 \notin 1..n
      /\ \A i : i \in 1..n + 1 <=> i \in 1..n \/ i = n + 1
  OBVIOUS
<1> DEFINE same(i, k) == i.ticket = k.ticket /\ i.impl = k.impl /\ (i.carrier <=> k.carrier)
<1>3. same(main'[n + 1], m) /\ \A i \in 1..n : same(main'[i], main[i])
  BY <1>1
<1>4. OnTarget(n + 1)' = OnTarget(n) \cup (IF m.carrier THEN {m.ticket} ELSE {})
  <2>1. ASSUME NEW x
        PROVE  x \in OnTarget(n + 1)' <=> \E i \in 1..n + 1 : main'[i].carrier /\ x = main'[i].ticket
    BY DEF OnTarget
  <2>2. ASSUME NEW x
        PROVE  x \in OnTarget(n) <=> \E i \in 1..n : main[i].carrier /\ x = main[i].ticket
    BY DEF OnTarget
  <2>3. ASSUME NEW x
        PROVE  x \in OnTarget(n + 1)' <=> x \in OnTarget(n) \/ (m.carrier /\ x = m.ticket)
    <3>1. ASSUME NEW i \in 1..n + 1, main'[i].carrier, x = main'[i].ticket
          PROVE  x \in OnTarget(n) \/ (m.carrier /\ x = m.ticket)
      <4>1. CASE i \in 1..n
        BY <1>3, <2>2, <3>1, <4>1
      <4>2. CASE i = n + 1
        BY <1>3, <3>1, <4>2
      <4> QED BY <1>2, <4>1, <4>2
    <3>2. ASSUME x \in OnTarget(n) PROVE x \in OnTarget(n + 1)'
      <4>1. PICK i \in 1..n : main[i].carrier /\ x = main[i].ticket
        BY <2>2, <3>2
      <4> QED BY <1>2, <1>3, <2>1, <4>1
    <3>3. ASSUME m.carrier, x = m.ticket PROVE x \in OnTarget(n + 1)'
      BY <1>2, <1>3, <2>1, <3>3
    <3> QED BY <2>1, <3>1, <3>2, <3>3
  <2> QED BY <2>3
<1>5. Files(n + 1)' = Files(n) \cup m.impl
  <2>1. ASSUME NEW x PROVE x \in Files(n + 1)' <=> \E i \in 1..n + 1 : x \in main'[i].impl
    BY DEF Files
  <2>2. ASSUME NEW x PROVE x \in Files(n) <=> \E i \in 1..n : x \in main[i].impl
    BY DEF Files
  <2>3. ASSUME NEW x PROVE x \in Files(n + 1)' <=> x \in Files(n) \/ x \in m.impl
    BY <1>3, <1>2, <2>1, <2>2, ZenonT(30)
  <2> QED BY <2>3
<1>6. ASSUME NEW u
      PROVE  Takes(n + 1, u)' = Takes(n, u) \cup (IF u = m.ticket /\ m.carrier THEN {n + 1} ELSE {})
  <2>1. ASSUME NEW i
        PROVE  i \in Takes(n + 1, u)' <=> i \in 1..n + 1 /\ main'[i].ticket = u /\ main'[i].carrier
    BY DEF Takes
  <2>2. ASSUME NEW i
        PROVE  i \in Takes(n, u) <=> i \in 1..n /\ main[i].ticket = u /\ main[i].carrier
    BY DEF Takes
  <2>3. ASSUME NEW i
        PROVE  i \in Takes(n + 1, u)' <=>
                 i \in Takes(n, u) \/ (i = n + 1 /\ u = m.ticket /\ m.carrier)
    BY <1>3, <1>2, <2>1, <2>2, ZenonT(30)
  <2> QED BY <2>3
<1>7. ASSUME m.carrier PROVE Landed(n + 1, m.ticket)' = m.record
  <2> DEFINE last == CHOOSE i \in Takes(n + 1, m.ticket)' : \A j \in Takes(n + 1, m.ticket)' : j <= i
  <2>1. /\ n + 1 \in Takes(n + 1, m.ticket)' /\ Takes(n + 1, m.ticket)' \subseteq 1..n + 1
    BY <1>2, <1>6, <1>7 DEF Takes
  <2>2. \A j \in Takes(n + 1, m.ticket)' : j <= n + 1
    BY <2>1
  <2>3. last \in Takes(n + 1, m.ticket)' /\ n + 1 <= last
    BY <2>1, <2>2
  <2>4. last = n + 1
    BY <2>1, <2>3
  <2>5. Landed(n + 1, m.ticket)' = main'[last].record
    BY DEF Landed
  <2> QED BY <1>1, <2>4, <2>5
<1>8. ASSUME NEW u \in OnTarget(n), ~(u = m.ticket /\ m.carrier)
      PROVE  Landed(n + 1, u)' = Landed(n, u)
  <2>1. Takes(n + 1, u)' = Takes(n, u) /\ Takes(n, u)' = Takes(n, u)
    BY <1>1, <1>6, <1>8, Growth
  <2>2. Landed(n + 1, u)' = Landed(n, u)'
    BY <2>1 DEF Landed
  <2> QED BY <1>1, <2>2, LandedKept
<1> QED BY <1>4, <1>5, <1>7, <1>8

\* The merged branch and the published target are alike to the checks.
LEMMA PublishedIsAlike ==
  ASSUME Typed, NEW t \in Ticket, NEW evidence, Deliver(t, evidence), NEW n \in Nat, n = Target
  PROVE  LET v == View(t, branch[t].base, Target, {}, TRUE, evidence)
         IN  /\ Alike(v, PublishedAt(n + 1)')
             /\ Active(v) \subseteq PublishedAt(n + 1)'.planned
             /\ PublishedAt(n + 1)'.enforce = FALSE
<1> DEFINE v == View(t, branch[t].base, Target, {}, TRUE, evidence)
           w == PublishedAt(n + 1)'
           m == [ticket |-> t, impl |-> branch[t].impl, carrier |-> branch[t].carrier,
                 record |-> branch[t].record, answers |-> Selected(v)]
<1>1. m \in Merges /\ main' = Append(main, m) /\ main \in Seq(Merges)
  BY DeliverTyped DEF Typed
<1>2. /\ branch[t].base = n /\ v.impl = branch[t].impl /\ v.records = Tree(t)
      /\ v.carriers = (IF branch[t].carrier THEN {t} ELSE {}) /\ v.terminal = {}
      /\ v.base = n /\ v.target = n /\ v.onTarget = FALSE /\ v.adopted = {}
      /\ v.landed = [i \in 1..n |-> main[i].impl] /\ v.files = Files(n) \cup branch[t].impl
  BY DEF Deliver, View
<1>3. /\ m.ticket = t /\ m.impl = branch[t].impl /\ m.carrier = branch[t].carrier
      /\ m.record = branch[t].record
  OBVIOUS
<1> HIDE DEF v, m
<1>4. /\ main'[n + 1] = m /\ \A i \in 1..n : main'[i] = main[i]
  BY <1>1, Growth
<1>5. /\ OnTarget(n + 1)' = OnTarget(n) \cup (IF branch[t].carrier THEN {t} ELSE {})
      /\ Files(n + 1)' = Files(n) \cup branch[t].impl
      /\ \A u \in OnTarget(n + 1)' :
           Landed(n + 1, u)' = IF u = t /\ branch[t].carrier THEN branch[t].record ELSE Landed(n, u)
  BY <1>1, <1>3, LandedAfter
<1>6. /\ w.records = [u \in OnTarget(n + 1)' |-> Landed(n + 1, u)']
      /\ w.impl = main'[n + 1].impl /\ w.files = Files(n + 1)'
      /\ w.carriers = (IF main'[n + 1].carrier THEN {main'[n + 1].ticket} ELSE {})
      /\ w.adopted = {} /\ w.terminal = {} /\ w.planned = OnTarget(n + 1)'
      /\ w.base = n + 1 - 1 /\ w.target = n + 1 /\ w.onTarget = TRUE /\ w.tip = n + 1
      /\ w.landed = [i \in 1..n + 1 |-> main'[i].impl] /\ w.enforce = FALSE
  BY DEF PublishedAt
<1> HIDE DEF w
<1>7. v.records = w.records
  <2>1. Tree(t) = [u \in DOMAIN w.records |-> Tree(t)[u]]
    <3>1. Tree(t) = [u \in DOMAIN Tree(t) |-> Tree(t)[u]]
      BY DEF Tree
    <3>2. DOMAIN Tree(t) = DOMAIN w.records
      BY <1>2, <1>5, <1>6, TreeTyped
    <3> QED BY <3>1, <3>2
  <2>2. ASSUME NEW u \in DOMAIN w.records PROVE Tree(t)[u] = w.records[u]
    <3>1. /\ u \in OnTarget(n + 1)' /\ w.records[u] = Landed(n + 1, u)'
      BY <1>6, <2>2
    <3>2. u \in DOMAIN Tree(t)
      BY <1>2, <1>5, <3>1, TreeTyped
    <3>3. Tree(t)[u] = IF u = t /\ branch[t].carrier THEN branch[t].record ELSE Landed(n, u)
      BY <1>2, <3>2, TreeTyped
    <3> QED BY <1>5, <3>1, <3>3
  <2> QED BY <1>2, <1>6, <2>1, <2>2
<1>8. ObservedBases(v) = {n} /\ ObservedBases(w) = {n}
  BY <1>2, <1>6 DEF ObservedBases, IsPublishedIntegration
<1>9. ASSUME NEW u \in DOMAIN v.records
      PROVE  Intervening(v, v.records[u].accepted, n) = Intervening(w, v.records[u].accepted, n)
  <2>1. v.records[u].accepted \in Nat
    BY <1>2, TreeTyped, RecordTyped
  <2>2. \A i \in v.records[u].accepted + 1 .. n : i \in 1..n /\ i \in 1..n + 1
    BY <2>1
  <2>3. \A i \in v.records[u].accepted + 1 .. n : v.landed[i] = w.landed[i]
    BY <1>2, <1>4, <1>6, <2>2
  <2> QED BY <2>3 DEF Intervening
<1>10. Alike(v, w)
  BY <1>2, <1>3, <1>4, <1>5, <1>6, <1>7, <1>8, <1>9 DEF Alike
<1>11. Active(v) \subseteq w.planned
  BY <1>6, <1>7 DEF Active
<1> QED BY <1>6, <1>10, <1>11 DEF v, w

LEMMA GreenNext == Typed /\ MainStaysGreen /\ [Next]_vars => MainStaysGreen'
<1> SUFFICES ASSUME Typed, MainStaysGreen, [Next]_vars PROVE MainStaysGreen'
  OBVIOUS
<1>1. ASSUME NEW t \in Ticket, NEW evidence, Deliver(t, evidence) PROVE MainStaysGreen'
  <2> DEFINE v == View(t, branch[t].base, Target, {}, TRUE, evidence)
  <2>1. PICK m \in Merges : main' = Append(main, m)
    BY <1>1, DeliverTyped
  <2>2. main \in Seq(Merges)
    BY DEF Typed
  <2>3. PICK n \in Nat : n = Target
    BY <2>2 DEF Target
  <2>4. n + 1 = Target'
    BY <2>1, <2>2, <2>3, Growth
  <2>5. ShowsLast'
    BY PublishedIsLast, PTL
  <2>6. PublishedView' = PublishedAt(n + 1)'
    BY <2>4, <2>5 DEF ShowsLast
  <2>7. Findings(v) = {}
    BY <1>1, DeliverTyped
  <2>8. /\ Alike(v, PublishedAt(n + 1)') /\ Active(v) \subseteq PublishedAt(n + 1)'.planned
        /\ ~PublishedAt(n + 1)'.enforce
    BY <1>1, <2>3, PublishedIsAlike
  <2> HIDE DEF v
  <2>9. Findings(PublishedView') = {}
    BY <2>6, <2>7, <2>8, AlikeFindings
  <2>10. Findings(PublishedView)' = Findings(PublishedView')
    OBVIOUS
  <2> QED BY <2>9, <2>10 DEF MainStaysGreen
<1>2. CASE UNCHANGED main
  <2>1. PublishedView' = PublishedView /\ Target' = Target
    BY <1>2 DEF PublishedView, Target, OnTarget, Landed, Takes, Files
  <2> QED BY <2>1 DEF MainStaysGreen
<1> QED BY <1>1, <1>2 DEF Next, Begin, Refresh, Record, Miss, Conclude, WritePlan, Edit, Advance,
                         Fetch, vars

\* Every change that was accepted on its pull request is accepted on the published target.
THEOREM TargetStaysGreen == Spec => []MainStaysGreen
<1>1. Init => MainStaysGreen
  BY DEF Init, MainStaysGreen, Target
<1> QED BY <1>1, GreenNext, TypedAlways, PTL DEF Spec

-----------------------------------------------------------------------------
(* A result in the cache is the one the checks would give.                 *)

\* What a local check sees of a branch that is not necessarily the one there is now.
TreeOf(b, t) ==
  LET shown == OnTarget(b.base) \cup (IF b.carrier THEN {t} ELSE {})
  IN  [u \in shown |-> IF u = t /\ b.carrier THEN b.record ELSE Landed(b.base, u)]

ViewOf(b, t, target, terminal) ==
  [records |-> TreeOf(b, t), impl |-> b.impl, carriers |-> IF b.carrier THEN {t} ELSE {},
   files |-> Files(b.base) \cup b.impl, adopted |-> {}, terminal |-> terminal,
   planned |-> b.planned \cup OnTarget(b.base), base |-> b.base, target |-> target,
   landed |-> [i \in 1..Target |-> main[i].impl], onTarget |-> FALSE, tip |-> 0,
   head |-> "head", enforce |-> FALSE, evidence |-> {}]

LEMMA LocalIsOf == \A t : LocalView(t) = ViewOf(branch[t], t, origin, receipts)
  BY DEF LocalView, View, ViewOf, Tree, TreeOf

\* A branch that was seen, a target it was compared with, and no findings then.
Remembers(t, e) ==
  /\ e.key.tree \in Branches /\ e.key.tree.base <= origin
  /\ e.key.tree.carrier => e.key.tree.record \in Records
  /\ e.origin \in 0..Target
  /\ Findings(ViewOf(e.key.tree, t, e.origin, e.receipts)) = {}

CacheIsSound == \A t \in Ticket : \A e \in cache[t] : e.intact => Remembers(t, e)

\* Merges that come later are not seen by a check that was made before.
LEMMA ViewKept ==
  ASSUME Typed, NEW m \in Merges, main' = Append(main, m), NEW t \in Ticket,
         NEW b \in Branches, b.base \in 0..Target, b.carrier => b.record \in Records,
         NEW o \in 0..Target, NEW terminal, Findings(ViewOf(b, t, o, terminal)) = {}
  PROVE  Findings(ViewOf(b, t, o, terminal)') = {}
<1> DEFINE v == ViewOf(b, t, o, terminal)
           w == ViewOf(b, t, o, terminal)'
<1>1. /\ main \in Seq(Merges) /\ Target \in Nat /\ o \in Nat /\ b.base \in Nat
      /\ o <= Target /\ b.base <= Target
  BY DEF Typed, Target
<1>2. /\ OnTarget(b.base)' = OnTarget(b.base) /\ Files(b.base)' = Files(b.base)
      /\ Target' = Target + 1 /\ \A i \in 1..Target : main'[i] = main[i]
  BY <1>1, Growth
<1>3. \A u \in OnTarget(b.base) : Landed(b.base, u)' = Landed(b.base, u)
  BY LandedKept
<1>4. TreeOf(b, t)' = TreeOf(b, t)
  BY <1>2, <1>3 DEF TreeOf
<1>5. /\ v.records = TreeOf(b, t) /\ w.records = TreeOf(b, t)
      /\ v.impl = w.impl /\ v.carriers = w.carriers /\ v.files = w.files
      /\ v.adopted = w.adopted /\ v.terminal = w.terminal /\ v.planned = w.planned
      /\ v.base = b.base /\ v.target = o /\ v.onTarget = FALSE
      /\ w.base = b.base /\ w.target = o /\ w.onTarget = FALSE /\ ~w.enforce
      /\ v.landed = [i \in 1..Target |-> main[i].impl]
      /\ w.landed = [i \in 1..Target' |-> main'[i].impl]
  BY <1>2, <1>4 DEF ViewOf
<1> HIDE DEF v, w
<1>6. ObservedBases(v) = {b.base, o} /\ ObservedBases(w) = {b.base, o}
  BY <1>5 DEF ObservedBases, IsPublishedIntegration
<1>7. ASSUME NEW u \in DOMAIN v.records PROVE v.records[u].accepted \in Nat
  <2>1. v.records[u] \in Records
    BY <1>5, LandedTyped DEF TreeOf
  <2> QED BY <2>1, RecordTyped
<1>8. ASSUME NEW u \in DOMAIN v.records, NEW x \in ObservedBases(v)
      PROVE  Intervening(v, v.records[u].accepted, x) = Intervening(w, v.records[u].accepted, x)
  <2>1. x \in 0..Target
    BY <1>6
  <2>2. \A i \in v.records[u].accepted + 1 .. x : i \in 1..Target /\ i \in 1..Target'
    BY <1>1, <1>2, <1>7, <2>1
  <2>3. ASSUME NEW i \in v.records[u].accepted + 1 .. x PROVE v.landed[i] = w.landed[i]
    <3>1. main'[i] = main[i]
      BY <1>2, <2>2
    <3>2. v.landed[i] = main[i].impl
      BY <1>5, <2>2
    <3>3. w.landed[i] = main'[i].impl
      BY <1>5, <2>2
    <3> QED BY <3>1, <3>2, <3>3
  <2> QED BY <2>3 DEF Intervening
<1>9. Alike(v, w)
  BY <1>5, <1>6, <1>8 DEF Alike
<1>10. Findings(v) = {}
  BY DEF v
<1>11. Findings(w) = {}
  BY <1>5, <1>9, <1>10, AlikeFindings
<1> QED BY <1>11 DEF w

\* A result stays right when the clone fetches and the target grows.
LEMMA RemembersKept ==
  ASSUME Typed, Typed', NEW t \in Ticket, NEW e, Remembers(t, e),
         origin' = origin \/ origin' = Target,
         main' = main \/ \E m \in Merges : main' = Append(main, m)
  PROVE  Remembers(t, e)'
<1> DEFINE b == e.key.tree
<1>1. /\ b \in Branches /\ b.base <= origin /\ (b.carrier => b.record \in Records)
      /\ e.origin \in 0..Target /\ Findings(ViewOf(b, t, e.origin, e.receipts)) = {}
  BY DEF Remembers
<1> HIDE DEF b
<1>2. Target \in Nat /\ origin \in 0..Target /\ b.base \in Nat /\ main \in Seq(Merges)
  BY <1>1 DEF Typed, Branches, Target
<1>3. b.base <= origin' /\ b.base \in 0..Target
  BY <1>1, <1>2
<1>4. CASE main' = main
  <2>1. Target' = Target
    BY <1>4 DEF Target
  <2>2. ViewOf(b, t, e.origin, e.receipts)' = ViewOf(b, t, e.origin, e.receipts)
    BY <1>4, <2>1 DEF ViewOf, TreeOf, OnTarget, Landed, Takes, Files
  <2>3. e.origin \in 0..Target' /\ Findings(ViewOf(b, t, e.origin, e.receipts)') = {}
    BY <1>1, <2>1, <2>2
  <2> QED BY <1>1, <1>3, <2>3 DEF Remembers, b
<1>5. ASSUME NEW m \in Merges, main' = Append(main, m) PROVE Remembers(t, e)'
  <2>1. Target' = Target + 1
    BY <1>2, <1>5, Growth
  <2>2. Findings(ViewOf(b, t, e.origin, e.receipts)') = {}
    BY <1>1, <1>3, <1>5, ViewKept
  <2>3. e.origin \in 0..Target'
    BY <1>1, <1>2, <2>1
  <2> QED BY <1>1, <1>3, <2>2, <2>3 DEF Remembers, b
<1> QED BY <1>4, <1>5

LEMMA CacheNext == Typed /\ CacheIsSound /\ [Next]_vars => CacheIsSound'
<1> SUFFICES ASSUME Typed, CacheIsSound, [Next]_vars PROVE CacheIsSound'
  OBVIOUS
<1>1. Typed'
  BY TypedNext
<1>2. ASSUME origin' = origin \/ origin' = Target,
             main' = main \/ \E m \in Merges : main' = Append(main, m),
             \A t \in Ticket : cache'[t] \subseteq cache[t]
      PROVE  CacheIsSound'
  BY <1>1, <1>2, RemembersKept DEF CacheIsSound
<1>3. CASE UNCHANGED <<main, origin, cache>>
  BY <1>2, <1>3
<1>4. CASE Fetch
  BY <1>2, <1>4 DEF Fetch
<1>5. ASSUME NEW t \in Ticket, NEW evidence, Deliver(t, evidence) PROVE CacheIsSound'
  <2>1. \E m \in Merges : main' = Append(main, m)
    BY <1>5, DeliverTyped
  <2>2. origin' = origin /\ \A u \in Ticket : cache'[u] \subseteq cache[u]
    BY <1>5 DEF Deliver, Typed
  <2> QED BY <1>2, <2>1, <2>2
<1>6. ASSUME NEW t \in Ticket, Conclude(t) PROVE CacheIsSound'
  <2> DEFINE e == Entry(run[t], t)
  <2>1. UNCHANGED <<main, origin, receipts, branch>>
    BY <1>6 DEF Conclude
  <2>2. ASSUME NEW u \in Ticket, NEW f \in cache'[u]
        PROVE  f \in cache[u] \/ (u = t /\ f = e /\ Findings(LocalView(t)) = {})
    <3>1. CASE Findings(LocalView(t)) = {}
      BY <1>6, <2>2, <3>1 DEF Conclude, Typed
    <3>2. CASE Findings(LocalView(t)) # {}
      BY <1>6, <2>2, <3>2 DEF Conclude
    <3> QED BY <3>1, <3>2
  <2>3. ASSUME e.intact, Findings(LocalView(t)) = {} PROVE Remembers(t, e)
    <3>1. /\ e.key = Key(t) /\ e.key.tree = branch[t] /\ e.origin = origin
          /\ e.receipts = receipts
      <4>1. /\ e.key = run[t] /\ e.origin = origin /\ e.receipts = receipts
            /\ e.intact = (run[t] = Key(t))
        BY DEF Entry
      <4>2. run[t] = Key(t)
        BY <2>3, <4>1, Zenon
      <4>3. Key(t).tree = branch[t]
        BY DEF Key
      <4> QED BY <4>1, <4>2, <4>3
    <3> HIDE DEF e
    <3>2. ViewOf(e.key.tree, t, e.origin, e.receipts) = LocalView(t)
      BY <3>1, LocalIsOf
    <3> QED BY <2>3, <3>1, <3>2 DEF Remembers, Typed
  <2> HIDE DEF e
  <2> SUFFICES ASSUME NEW u \in Ticket, NEW f \in cache'[u], f.intact
               PROVE  Remembers(u, f)'
    BY DEF CacheIsSound
  <2>4. Remembers(u, f)
    BY <2>2, <2>3 DEF CacheIsSound
  <2> QED BY <1>1, <2>1, <2>4, RemembersKept
<1> QED BY <1>3, <1>4, <1>5, <1>6 DEF Next, Begin, Refresh, Record, Miss, WritePlan, Edit, Advance,
                                      vars

LEMMA CacheAlways == Spec => []CacheIsSound
<1>1. Init => CacheIsSound
  BY DEF Init, CacheIsSound
<1> QED BY <1>1, CacheNext, TypedAlways, PTL DEF Spec

\* An answer from the cache is the one the checks would give now.
THEOREM HitsAreDeterministic == Spec => []HitIsDeterministic
<1>1. CacheIsSound => HitIsDeterministic
  <2> SUFFICES ASSUME CacheIsSound, NEW t \in Ticket, NEW e \in Hits(t), e.intact,
                      e.origin = origin, e.receipts = receipts
               PROVE  Findings(LocalView(t)) = {}
    BY DEF HitIsDeterministic
  <2>1. e \in cache[t] /\ e.key.tree = branch[t]
    BY DEF Hits, Key
  <2>2. Findings(ViewOf(e.key.tree, t, e.origin, e.receipts)) = {}
    BY <2>1 DEF CacheIsSound, Remembers
  <2>3. ViewOf(e.key.tree, t, e.origin, e.receipts) = LocalView(t)
    BY <2>1, LocalIsOf
  <2> QED BY <2>2, <2>3
<1> QED BY <1>1, CacheAlways, PTL

==============================================================================
