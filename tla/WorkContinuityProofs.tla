------------------------- MODULE WorkContinuityProofs -------------------------
(***************************************************************************)
(* What holds of the continuity log for any number of invocations, tickets,*)
(* sessions and checkpoints: what no discipline of the callers is needed   *)
(* for (lines stay, the index invents nothing, a quiet rebuild repairs it),*)
(* and what a discipline is enough for (the stream stays readable, chains  *)
(* only grow, a recorded event is there once, the index is current).       *)
(***************************************************************************)
EXTENDS WorkContinuity, FiniteSetTheorems, SequenceTheorems, WellFoundedInduction, TLAPS

------------------------------------------------------------------------------
(* Part 1: reading a stream.                                               *)

\* A finite set of numbers that is not empty has a largest one.
LEMMA LargestIs ==
  ASSUME NEW m \in Nat, NEW S \in SUBSET (0..m), S # {}
  PROVE  \E x \in S : \A y \in S : y <= x
<1> DEFINE T == {m - i : i \in S}
           R == OpToRel(<, Nat)
<1>1. T \subseteq Nat /\ T # {}
  <2>1. \A i \in S : i \in 0..m /\ m - i \in Nat
    OBVIOUS
  <2> QED BY <2>1
<1>2. PICK x \in T : \A y \in T : ~(<<y, x>> \in R)
  BY <1>1, WFMin, NatLessThanWellFounded
<1>3. \A y \in T : x <= y
  <2> SUFFICES ASSUME NEW y \in T PROVE x <= y
    OBVIOUS
  <2>1. x \in Nat /\ y \in Nat
    BY <1>1
  <2>2. <<y, x>> \in R <=> y < x
    BY <2>1 DEF OpToRel
  <2> HIDE DEF R, T
  <2> QED BY <1>2, <2>1, <2>2
<1>4. PICK last \in S : x = m - last
  BY <1>2
<1>5. \A y \in S : y <= last
  BY <1>3, <1>4
<1> QED BY <1>5

\* Newest is the largest of some places, and the last place when that is among them.
LEMMA NewestIs ==
  ASSUME NEW n \in Nat, NEW I \in SUBSET (1..n), I # {}
  PROVE  Newest(I) \in I /\ \A j \in I : j <= Newest(I)
<1>1. I \in SUBSET (0..n)
  OBVIOUS
<1>2. \E i \in I : \A j \in I : j <= i
  BY <1>1, LargestIs
<1> QED BY <1>2 DEF Newest

LEMMA NewestIsLast ==
  ASSUME NEW n \in Nat, NEW I \in SUBSET (1..n)
  PROVE  Newest(I \cup {n + 1}) = n + 1
<1> DEFINE J == I \cup {n + 1}
<1>1. \A j \in J : j \in Nat /\ j <= n + 1
  OBVIOUS
<1>2. \A i \in J : (\A j \in J : j <= i) <=> i = n + 1
  BY <1>1
<1> QED BY <1>2 DEF Newest

\* Front drops the last element, which makes a prefix.
LEMMA FrontIs ==
  ASSUME NEW S, NEW s \in Seq(S), s # <<>>
  PROVE  /\ Front(s) \in Seq(S) /\ IsPrefix(Front(s), s) /\ Last(s) \in S
         /\ Len(Front(s)) + 1 = Len(s)
<1>1. Len(s) \in Nat /\ Len(s) >= 1 /\ \A i \in 1..Len(s) : s[i] \in S
  BY EmptySeq
<1>2. \A i \in 1..(Len(s) - 1) : s[i] \in S
  BY <1>1
<1>3. /\ Front(s) \in Seq(S) /\ Len(Front(s)) = Len(s) - 1
      /\ \A i \in 1..(Len(s) - 1) : Front(s)[i] = s[i]
  <2>1. 1 \in Int /\ Len(s) - 1 \in Int
    BY <1>1
  <2>2. /\ SubSeq(s, 1, Len(s) - 1) \in Seq(S)
        /\ Len(SubSeq(s, 1, Len(s) - 1)) = IF 1 <= Len(s) - 1 THEN Len(s) - 1 - 1 + 1 ELSE 0
        /\ \A i \in 1..(Len(s) - 1 - 1 + 1) : SubSeq(s, 1, Len(s) - 1)[i] = s[1 + i - 1]
    BY <1>2, <2>1, SubSeqProperties
  <2>3. Len(s) - 1 - 1 + 1 = Len(s) - 1 /\ \A i \in 1..(Len(s) - 1) : 1 + i - 1 = i
    BY <1>1
  <2>4. (IF 1 <= Len(s) - 1 THEN Len(s) - 1 - 1 + 1 ELSE 0) = Len(s) - 1
    <3>1. \A n \in Nat : n >= 1 => (IF 1 <= n - 1 THEN n - 1 - 1 + 1 ELSE 0) = n - 1
      OBVIOUS
    <3> QED BY <1>1, <3>1
  <2> QED BY <2>2, <2>3, <2>4 DEF Front
<1>4. SubSeq(Front(s), 1, Len(Front(s))) = Front(s)
  BY <1>3, SubSeqFull
<1> QED BY <1>1, <1>3, <1>4 DEF IsPrefix, Front, Last

LEMMA SelfIsPrefix ==
  ASSUME NEW S, NEW s \in Seq(S)
  PROVE  IsPrefix(s, s)
BY DEF IsPrefix

\* A prefix agrees place by place.
LEMMA PrefixIs ==
  ASSUME NEW S, NEW s \in Seq(S), NEW t \in Seq(S)
  PROVE  IsPrefix(s, t) <=> Len(s) <= Len(t) /\ \A i \in 1..Len(s) : s[i] = t[i]
<1>0. Len(s) \in Nat /\ Len(t) \in Nat /\ 1 \in Int /\ Len(s) \in Int
  OBVIOUS
<1>1. SubSeq(s, 1, Len(s)) = s
  BY SubSeqFull
<1>2. ASSUME Len(s) <= Len(t)
      PROVE  /\ SubSeq(t, 1, Len(s)) \in Seq(S) /\ Len(SubSeq(t, 1, Len(s))) = Len(s)
             /\ \A i \in 1..Len(s) : SubSeq(t, 1, Len(s))[i] = t[i]
  <2>1. \A i \in 1..Len(s) : i \in 1..Len(t) /\ t[i] \in S
    BY <1>0, <1>2
  <2>2. /\ SubSeq(t, 1, Len(s)) \in Seq(S)
        /\ Len(SubSeq(t, 1, Len(s))) = IF 1 <= Len(s) THEN Len(s) - 1 + 1 ELSE 0
        /\ \A i \in 1..(Len(s) - 1 + 1) : SubSeq(t, 1, Len(s))[i] = t[1 + i - 1]
    BY <1>0, <2>1, SubSeqProperties
  <2>3. Len(s) - 1 + 1 = Len(s) /\ \A i \in 1..Len(s) : 1 + i - 1 = i
    BY <1>0
  <2>4. (IF 1 <= Len(s) THEN Len(s) - 1 + 1 ELSE 0) = Len(s)
    BY <1>0
  <2> QED BY <2>2, <2>3, <2>4
<1>3. CASE Len(s) <= Len(t)
  <2>1. SubSeq(t, 1, Len(s)) = s <=> \A i \in 1..Len(s) : s[i] = t[i]
    BY <1>2, <1>3, SeqEqual
  <2> QED BY <1>1, <1>3, <2>1 DEF IsPrefix
<1> QED BY <1>3 DEF IsPrefix

LEMMA PrefixesCompose ==
  ASSUME NEW S, NEW s \in Seq(S), NEW t \in Seq(S), NEW u \in Seq(S),
         IsPrefix(s, t), IsPrefix(t, u)
  PROVE  IsPrefix(s, u)
<1>1. Len(s) \in Nat /\ Len(t) \in Nat /\ Len(u) \in Nat
  OBVIOUS
<1>2. Len(s) <= Len(t) /\ \A i \in 1..Len(s) : s[i] = t[i]
  BY PrefixIs
<1>3. Len(t) <= Len(u) /\ \A i \in 1..Len(t) : t[i] = u[i]
  BY PrefixIs
<1>4. Len(s) <= Len(u) /\ \A i \in 1..Len(s) : s[i] = u[i]
  <2>1. \A i \in 1..Len(s) : i \in 1..Len(t)
    BY <1>1, <1>2
  <2> QED BY <1>1, <1>2, <1>3, <2>1
<1> QED BY <1>4, PrefixIs

LEMMA AppendExtends ==
  ASSUME NEW S, NEW s \in Seq(S), NEW x \in S
  PROVE  IsPrefix(s, Append(s, x))
<1>1. Append(s, x) \in Seq(S) /\ Len(s) <= Len(Append(s, x))
  BY AppendProperties
<1>2. \A i \in 1..Len(s) : s[i] = Append(s, x)[i]
  BY AppendProperties
<1> QED BY <1>1, <1>2, PrefixIs

------------------------------------------------------------------------------
\* An event and its checkpoint end a log and a chain that are not empty.
LEMMA EventTyped ==
  ASSUME NEW e \in Events
  PROVE  /\ e.session \in Sessions /\ e.log \in Seq(Checkpoints) /\ e.log # <<>>
         /\ CheckpointOf(e) \in Checkpoints /\ TicketOf(e) \in Tickets
         /\ CheckpointOf(e).chain \in Seq(Bodies) /\ CheckpointOf(e).chain # <<>>
<1>1. e.session \in Sessions /\ e.log \in Seq(Checkpoints) /\ e.log # <<>>
  BY DEF Events
<1>2. CheckpointOf(e) \in Checkpoints
  BY <1>1, FrontIs DEF CheckpointOf
<1> QED BY <1>1, <1>2 DEF Checkpoints, TicketOf

LEMMA PlacesTyped ==
  ASSUME NEW str \in Seq(Events), NEW x
  PROVE  /\ Len(str) \in Nat /\ DOMAIN str = 1..Len(str)
         /\ OfSession(str, x) \in SUBSET (1..Len(str))
         /\ OfTicket(str, x) \in SUBSET (1..Len(str))
         /\ OfSession(str, x) # {} => Newest(OfSession(str, x)) \in OfSession(str, x)
         /\ OfTicket(str, x) # {} => Newest(OfTicket(str, x)) \in OfTicket(str, x)
<1>1. Len(str) \in Nat /\ DOMAIN str = 1..Len(str)
  OBVIOUS
<1>2. /\ OfSession(str, x) \in SUBSET (1..Len(str))
      /\ OfTicket(str, x) \in SUBSET (1..Len(str))
  BY <1>1 DEF OfSession, OfTicket
<1> QED BY <1>1, <1>2, NewestIs

LEMMA ChainsTyped ==
  ASSUME NEW str \in Seq(Events), NEW x
  PROVE  SessionLog(str, x) \in Seq(Checkpoints) /\ TicketChain(str, x) \in Seq(Bodies)
<1>1. \A i \in 1..Len(str) : str[i] \in Events
  OBVIOUS
<1>2. SessionLog(str, x) \in Seq(Checkpoints)
  <2>1. CASE OfSession(str, x) = {}
    BY <2>1 DEF SessionLog
  <2>2. CASE OfSession(str, x) # {}
    <3>1. str[Newest(OfSession(str, x))] \in Events
      BY <1>1, <2>2, PlacesTyped
    <3> QED BY <2>2, <3>1, EventTyped DEF SessionLog
  <2> QED BY <2>1, <2>2
<1>3. TicketChain(str, x) \in Seq(Bodies)
  <2>1. CASE OfTicket(str, x) = {}
    BY <2>1 DEF TicketChain
  <2>2. CASE OfTicket(str, x) # {}
    <3>1. str[Newest(OfTicket(str, x))] \in Events
      BY <1>1, <2>2, PlacesTyped
    <3> QED BY <2>2, <3>1, EventTyped DEF TicketChain
  <2> QED BY <2>1, <2>2
<1> QED BY <1>2, <1>3

\* An event that is added becomes the newest of its session and ticket, and of no other.
LEMMA NewestAfter ==
  ASSUME NEW str \in Seq(Events), NEW e \in Events, NEW x
  PROVE  /\ SessionLog(Append(str, e), x) = IF e.session = x THEN e.log ELSE SessionLog(str, x)
         /\ TicketChain(Append(str, e), x) =
              IF TicketOf(e) = x THEN CheckpointOf(e).chain ELSE TicketChain(str, x)
<1> DEFINE n == Len(str)
           long == Append(str, e)
<1>1. /\ n \in Nat /\ DOMAIN str = 1..n /\ DOMAIN long = 1..(n + 1)
      /\ long[n + 1] = e /\ \A i \in 1..n : long[i] = str[i]
  OBVIOUS
<1>2. 1..(n + 1) = 1..n \cup {n + 1}
  BY <1>1
<1> HIDE DEF n, long
<1>3. SessionLog(long, x) = IF e.session = x THEN e.log ELSE SessionLog(str, x)
  <2> DEFINE I == OfSession(str, x)
             J == OfSession(long, x)
  <2>1. J = I \cup (IF e.session = x THEN {n + 1} ELSE {})
    BY <1>1, <1>2 DEF OfSession
  <2>2. I \in SUBSET (1..n) /\ (I # {} => Newest(I) \in I)
    BY PlacesTyped DEF n
  <2>3. CASE e.session = x
    <3>1. J = I \cup {n + 1}
      BY <2>1, <2>3
    <3>2. Newest(J) = n + 1
      BY <1>1, <2>2, <3>1, NewestIsLast
    <3> QED BY <1>1, <2>3, <3>1, <3>2 DEF SessionLog
  <2>4. CASE e.session # x
    <3>1. J = I
      BY <2>1, <2>4
    <3>2. I # {} => long[Newest(I)] = str[Newest(I)]
      BY <1>1, <2>2
    <3> QED BY <2>4, <3>1, <3>2 DEF SessionLog
  <2> QED BY <2>3, <2>4
<1>4. TicketChain(long, x) = IF TicketOf(e) = x THEN CheckpointOf(e).chain ELSE TicketChain(str, x)
  <2> DEFINE I == OfTicket(str, x)
             J == OfTicket(long, x)
  <2>1. J = I \cup (IF TicketOf(e) = x THEN {n + 1} ELSE {})
    BY <1>1, <1>2 DEF OfTicket
  <2>2. I \in SUBSET (1..n) /\ (I # {} => Newest(I) \in I)
    BY PlacesTyped DEF n
  <2>3. CASE TicketOf(e) = x
    <3>1. J = I \cup {n + 1}
      BY <2>1, <2>3
    <3>2. Newest(J) = n + 1
      BY <1>1, <2>2, <3>1, NewestIsLast
    <3> QED BY <1>1, <2>3, <3>1, <3>2 DEF TicketChain
  <2>4. CASE TicketOf(e) # x
    <3>1. J = I
      BY <2>1, <2>4
    <3>2. I # {} => long[Newest(I)] = str[Newest(I)]
      BY <1>1, <2>2
    <3> QED BY <2>4, <3>1, <3>2 DEF TicketChain
  <2> QED BY <2>3, <2>4
<1> QED BY <1>3, <1>4 DEF long

\* A stream is readable with one more event when it was before and the event continues it.
LEMMA MonotonicAfter ==
  ASSUME NEW str \in Seq(Events), NEW e \in Events
  PROVE  Monotonic(Append(str, e)) <=> Monotonic(str) /\ Continues(str, e)
<1> DEFINE n == Len(str)
           long == Append(str, e)
<1>1. /\ n \in Nat /\ DOMAIN str = 1..n /\ DOMAIN long = 1..(n + 1)
      /\ long[n + 1] = e /\ \A i \in 1..n : long[i] = str[i]
      /\ long \in Seq(Events) /\ Len(long) = n + 1
  OBVIOUS
<1>2. \A i \in 1..(n + 1) : SubSeq(long, 1, i - 1) = SubSeq(str, 1, i - 1)
  <2> SUFFICES ASSUME NEW i \in 1..(n + 1)
               PROVE  SubSeq(long, 1, i - 1) = SubSeq(str, 1, i - 1)
    OBVIOUS
  <2>1. /\ \A k \in 1..(i - 1) : k \in 1..n /\ str[k] \in Events /\ long[k] = str[k]
        /\ i - 1 \in Int /\ 1 \in Int
    BY <1>1
  <2> HIDE DEF n, long
  <2>2. /\ SubSeq(str, 1, i - 1) \in Seq(Events)
        /\ Len(SubSeq(str, 1, i - 1)) = IF 1 <= i - 1 THEN i - 1 - 1 + 1 ELSE 0
        /\ \A k \in 1..(i - 1 - 1 + 1) : SubSeq(str, 1, i - 1)[k] = str[1 + k - 1]
    BY <2>1, SubSeqProperties
  <2>3. /\ SubSeq(long, 1, i - 1) \in Seq(Events)
        /\ Len(SubSeq(long, 1, i - 1)) = IF 1 <= i - 1 THEN i - 1 - 1 + 1 ELSE 0
        /\ \A k \in 1..(i - 1 - 1 + 1) : SubSeq(long, 1, i - 1)[k] = long[1 + k - 1]
    BY <2>1, SubSeqProperties
  <2>4. /\ i - 1 \in Nat /\ i - 1 - 1 + 1 = i - 1 /\ \A k \in 1..(i - 1) : 1 + k - 1 = k
        /\ (IF 1 <= i - 1 THEN i - 1 - 1 + 1 ELSE 0) = i - 1
    BY <1>1
  <2>5. /\ Len(SubSeq(str, 1, i - 1)) = i - 1 /\ Len(SubSeq(long, 1, i - 1)) = i - 1
        /\ \A k \in 1..(i - 1) : SubSeq(str, 1, i - 1)[k] = SubSeq(long, 1, i - 1)[k]
    BY <2>1, <2>2, <2>3, <2>4
  <2> QED BY <2>2, <2>3, <2>5, SeqEqual
<1>3. SubSeq(str, 1, (n + 1) - 1) = str
  <2>1. (n + 1) - 1 = n
    BY <1>1
  <2> QED BY <2>1, SubSeqFull
<1>4. /\ n + 1 \in 1..(n + 1) /\ 1..n \subseteq 1..(n + 1)
      /\ \A i \in 1..(n + 1) : i \in 1..n \/ i = n + 1
  BY <1>1
<1> HIDE DEF n, long
<1>5. Monotonic(long) <=> /\ \A i \in 1..n : Continues(SubSeq(long, 1, i - 1), long[i])
                          /\ Continues(SubSeq(long, 1, (n + 1) - 1), long[n + 1])
  BY <1>1, <1>4 DEF Monotonic
<1>6. Continues(SubSeq(long, 1, (n + 1) - 1), long[n + 1]) <=> Continues(str, e)
  <2>1. SubSeq(long, 1, (n + 1) - 1) = SubSeq(str, 1, (n + 1) - 1)
    BY <1>2, <1>4
  <2>2. SubSeq(long, 1, (n + 1) - 1) = str /\ long[n + 1] = e
    BY <1>1, <1>3, <2>1
  <2> QED BY <2>2
<1>7. (\A i \in 1..n : Continues(SubSeq(long, 1, i - 1), long[i])) <=> Monotonic(str)
  <2>1. \A i \in 1..n : SubSeq(long, 1, i - 1) = SubSeq(str, 1, i - 1) /\ long[i] = str[i]
    BY <1>1, <1>2, <1>4
  <2> QED BY <1>1, <2>1 DEF Monotonic
<1> QED BY <1>5, <1>6, <1>7 DEF long

\* Appending an event that continues a stream extends the chain of its ticket, and no other.
LEMMA ChainsExtend ==
  ASSUME NEW str \in Seq(Events), NEW e \in Events, Continues(str, e), NEW t
  PROVE  IsPrefix(TicketChain(str, t), TicketChain(Append(str, e), t))
<1>1. TicketChain(str, t) \in Seq(Bodies)
  BY ChainsTyped
<1>2. CASE TicketOf(e) = t
  <2>1. TicketChain(Append(str, e), t) = CheckpointOf(e).chain
    BY <1>2, NewestAfter
  <2>2. TicketChain(str, t) = Front(CheckpointOf(e).chain)
    BY <1>2 DEF Continues
  <2> QED BY <2>1, <2>2, EventTyped, FrontIs
<1>3. CASE TicketOf(e) # t
  BY <1>1, <1>3, NewestAfter, SelfIsPrefix
<1> QED BY <1>2, <1>3

------------------------------------------------------------------------------
(* Part 2: types and the promises of a running invocation.                 *)

\* The event of an invocation that builds one.
Planned(p, c) ==
  [session |-> job[p].session, log |-> Append(SessionLog(stream, job[p].session), c)]

HasEvent == {"built", "admitted", "appended", "recorded", "already"}

\* An invocation that runs has a command, and its event is of the ticket and session of it.
Typed(p) ==
  /\ pc[p] \in Active \cup HasEvent => job[p] \in Jobs
  /\ pc[p] \in HasEvent =>
       event[p] \in Events /\ event[p].session = job[p].session
                           /\ TicketOf(event[p]) = job[p].ticket

Kinds == TypeOK /\ \A p \in Processes : Typed(p)

\* Building an event.
LEMMA BuildTyped ==
  ASSUME Kinds, NEW p \in Processes, Capture(p) \/ Record(p)
  PROVE  /\ pc[p] = "started" /\ pc' = [pc EXCEPT ![p] = "built"]
         /\ UNCHANGED <<stream, torn, index, job, read, answer>>
         /\ \E e \in Events : /\ event' = [event EXCEPT ![p] = e]
                              /\ e.session = job[p].session /\ TicketOf(e) = job[p].ticket
<1>1. pc[p] = "started" /\ job[p] \in Jobs
  BY DEF Capture, Record, Runs, Build, Goto, Kinds, Typed, Active, TypeOK
<1>2. stream \in Seq(Events)
  BY DEF Kinds, TypeOK
<1>3. ASSUME NEW c \in Checkpoints, c.ticket = job[p].ticket
      PROVE  /\ Planned(p, c) \in Events
             /\ Planned(p, c).session = job[p].session /\ TicketOf(Planned(p, c)) = job[p].ticket
  <2>1. job[p].session \in Sessions
    BY <1>1 DEF Jobs
  <2> DEFINE old == SessionLog(stream, job[p].session)
  <2>2. old \in Seq(Checkpoints)
    BY <1>2, ChainsTyped
  <2> HIDE DEF old
  <2>3. /\ Append(old, c) \in Seq(Checkpoints) /\ Append(old, c) # <<>>
        /\ Last(Append(old, c)) = c
    BY <2>2, AppendProperties DEF Last
  <2> QED BY <1>3, <2>1, <2>3 DEF Planned, Events, TicketOf, CheckpointOf, old
<1>4. CASE Capture(p)
  <2>1. PICK b \in Bodies :
          Build(p, [ticket |-> job[p].ticket, chain |-> Append(TicketChain(stream, job[p].ticket), b)])
    BY <1>4 DEF Capture
  <2> DEFINE c == [ticket |-> job[p].ticket, chain |-> Append(TicketChain(stream, job[p].ticket), b)]
  <2>2. c \in Checkpoints /\ c.ticket = job[p].ticket
    <3>1. TicketChain(stream, job[p].ticket) \in Seq(Bodies)
      BY <1>2, ChainsTyped
    <3>2. Append(TicketChain(stream, job[p].ticket), b) \in Seq(Bodies) \ {<<>>}
      BY <3>1, AppendProperties
    <3> QED BY <1>1, <3>2 DEF Jobs, Checkpoints
  <2> HIDE DEF c
  <2>3. Build(p, c)
    BY <2>1 DEF c
  <2> QED BY <1>3, <2>2, <2>3 DEF Build, Goto, Planned
<1>5. CASE Record(p)
  <2>1. PICK c \in Inputs : c.ticket = job[p].ticket /\ Build(p, c)
    BY <1>5 DEF Record
  <2>2. c \in Checkpoints
    BY ContinuityAssumption
  <2> QED BY <1>3, <2>1, <2>2 DEF Build, Goto, Planned
<1> QED BY <1>4, <1>5

\* Nth counts through the places, without taking one twice.
LEMMA PlacesAreTaken ==
  ASSUME NEW m \in Nat, NEW S \in SUBSET (1..m)
  PROVE  /\ Cardinality(S) \in Nat /\ (Cardinality(S) = 0 <=> S = {})
         /\ \A i \in 1..Cardinality(S) : Nth(S, i) \in S
         /\ \A i, j \in 1..Cardinality(S) : Nth(S, i) = Nth(S, j) => i = j
<1> DEFINE n == Cardinality(S)
           Rank(c) == Cardinality({k \in S : k <= c})
<1>1. IsFiniteSet(S) /\ n \in Nat
  <2>1. IsFiniteSet(1..m)
    BY FS_Interval
  <2> QED BY <2>1, FS_Subset, FS_CardinalityType
<1>2. n = 0 <=> S = {}
  BY <1>1, FS_EmptySet
<1>3. \A c \in S : Rank(c) \in 1..n
  <2> TAKE c \in S
  <2> DEFINE B == {k \in S : k <= c}
  <2>1. B \in SUBSET S /\ c \in B
    OBVIOUS
  <2> HIDE DEF B
  <2>2. IsFiniteSet(B) /\ Cardinality(B) <= n /\ Cardinality(B) \in Nat
    BY <1>1, <2>1, FS_Subset, FS_CardinalityType
  <2>3. Cardinality(B) # 0
    BY <2>1, <2>2, FS_EmptySet
  <2> QED BY <1>1, <2>2, <2>3 DEF B
<1> HIDE DEF n
<1>4. ASSUME NEW c \in S, NEW d \in S, c < d PROVE Rank(c) # Rank(d)
  <2> DEFINE B == {k \in S : k <= c}
             D == {k \in S : k <= d}
  <2>0. c \in Nat /\ d \in Nat /\ \A x \in S : x \in Nat
    OBVIOUS
  <2>1. B \in SUBSET D /\ d \in D /\ d \notin B
    <3>1. \A x \in S : x <= c => x <= d
      BY <1>4, <2>0
    <3>2. ~(d <= c) /\ d <= d
      BY <1>4, <2>0
    <3> QED BY <3>1, <3>2
  <2>2. IsFiniteSet(D)
    BY <1>1, FS_Subset
  <2>3. Cardinality(B) = Rank(c) /\ Cardinality(D) = Rank(d)
    OBVIOUS
  <2> HIDE DEF B, D, Rank
  <2>4. Cardinality(D) = Cardinality(B) => D = B
    BY <2>1, <2>2, FS_Subset
  <2> QED BY <2>1, <2>3, <2>4
<1>5. \A c, d \in S : Rank(c) = Rank(d) => c = d
  <2> SUFFICES ASSUME NEW c \in S, NEW d \in S, Rank(c) = Rank(d), c # d
               PROVE  FALSE
    OBVIOUS
  <2> HIDE DEF Rank
  <2>1. c < d \/ d < c
    OBVIOUS
  <2> QED BY <1>4, <2>1
<1>6. \A i \in 1..n : \E c \in S : Rank(c) = i
  <2> DEFINE f == [c \in S |-> Rank(c)]
  <2>1. f \in [S -> 1..n] /\ (\A c, d \in S : f[c] = f[d] => c = d) /\ \A c \in S : f[c] = Rank(c)
    BY <1>3, <1>5
  <2> HIDE DEF f
  <2>2. f \in Injection(S, 1..n)
    BY <2>1 DEF Injection, IsInjective
  <2>3. IsFiniteSet(1..n) /\ Cardinality(1..n) = n
    BY <1>1, FS_Interval
  <2>4. f \in Surjection(S, 1..n)
    BY <1>1, <2>2, <2>3, FS_Injection DEF n
  <2>5. \A i \in 1..n : \E c \in S : f[c] = i
    BY <2>4 DEF Surjection
  <2> QED BY <2>1, <2>5
<1>7. \A i \in 1..n : Nth(S, i) \in S /\ Rank(Nth(S, i)) = i
  BY <1>6 DEF Nth
<1>8. \A i, j \in 1..n : Nth(S, i) = Nth(S, j) => i = j
  BY <1>7
<1> QED BY <1>1, <1>2, <1>7, <1>8 DEF n

\* An index entry is the latest event of its ticket, there is one for a ticket, and there are
\* not more than there is room for.
LEMMA IndexIs ==
  ASSUME NEW str \in Seq(Events)
  PROVE  /\ IndexOf(str) \in Seq(Events) /\ Len(IndexOf(str)) <= Maximum
         /\ \A i \in DOMAIN IndexOf(str) : \E k \in DOMAIN str : IndexOf(str)[i] = str[k]
         /\ \A i, k \in DOMAIN IndexOf(str) :
              TicketOf(IndexOf(str)[i]) = TicketOf(IndexOf(str)[k]) => i = k
<1> DEFINE S == Latest(str)
           newest == [n \in 1..Cardinality(S) |-> str[Nth(S, n)]]
           c == Cardinality(S)
           first == IF c > Maximum THEN c - Maximum + 1 ELSE 1
<1>1. /\ Len(str) \in Nat /\ DOMAIN str = 1..Len(str) /\ S \in SUBSET (1..Len(str))
      /\ \A i \in S : str[i] \in Events
  BY DEF Latest
<1>2. \A i, k \in S : TicketOf(str[i]) = TicketOf(str[k]) => i = k
  <2> SUFFICES ASSUME NEW i \in S, NEW k \in S, TicketOf(str[i]) = TicketOf(str[k])
               PROVE  i = k
    OBVIOUS
  <2>1. k <= i /\ i <= k
    BY <1>1 DEF Latest
  <2>2. i \in Nat /\ k \in Nat
    BY <1>1
  <2> HIDE DEF S
  <2> QED BY <2>1, <2>2
<1> HIDE DEF S
<1>3. /\ c \in Nat
      /\ \A i \in 1..c : Nth(S, i) \in S
      /\ \A i, j \in 1..c : Nth(S, i) = Nth(S, j) => i = j
  BY <1>1, PlacesAreTaken
<1> HIDE DEF c
<1>4. /\ newest \in Seq(Events) /\ Len(newest) = c /\ \A i \in 1..c : newest[i] = str[Nth(S, i)]
  <2>1. newest = [n \in 1..c |-> str[Nth(S, n)]]
    BY DEF c
  <2>2. \A i \in 1..c : str[Nth(S, i)] \in Events
    BY <1>1, <1>3
  <2> HIDE DEF newest
  <2> QED BY <1>3, <2>1, <2>2
<1> HIDE DEF newest
<1>5. Maximum \in Nat /\ Maximum > 0
  BY ContinuityAssumption
<1>6. /\ first \in Nat /\ first >= 1 /\ first <= c + 1 /\ c - first + 1 <= Maximum
      /\ (IF first <= c THEN c - first + 1 ELSE 0) = c - first + 1 /\ c - first + 1 \in Nat
  BY <1>3, <1>5
<1>7. IndexOf(str) = SubSeq(newest, first, c)
  BY <1>4 DEF IndexOf, newest, S, c
<1> HIDE DEF first
<1>8. \A i \in first..c : i \in 1..c /\ newest[i] \in Events
  BY <1>3, <1>4, <1>6
<1>9. /\ IndexOf(str) \in Seq(Events) /\ Len(IndexOf(str)) = c - first + 1
      /\ \A i \in 1..(c - first + 1) : IndexOf(str)[i] = newest[first + i - 1]
  BY <1>3, <1>6, <1>7, <1>8, SubSeqProperties
<1>10. /\ \A i \in 1..(c - first + 1) : first + i - 1 \in 1..c
       /\ DOMAIN IndexOf(str) = 1..(c - first + 1)
  BY <1>3, <1>6, <1>9
<1>11. \A i \in DOMAIN IndexOf(str) : \E k \in S : IndexOf(str)[i] = str[k]
  BY <1>3, <1>4, <1>9, <1>10
<1>12. \A i, k \in DOMAIN IndexOf(str) :
         TicketOf(IndexOf(str)[i]) = TicketOf(IndexOf(str)[k]) => i = k
  <2> SUFFICES ASSUME NEW i \in 1..(c - first + 1), NEW k \in 1..(c - first + 1),
                      TicketOf(IndexOf(str)[i]) = TicketOf(IndexOf(str)[k])
               PROVE  i = k
    BY <1>10
  <2>1. /\ first + i - 1 \in 1..c /\ first + k - 1 \in 1..c
        /\ IndexOf(str)[i] = newest[first + i - 1] /\ IndexOf(str)[k] = newest[first + k - 1]
    BY <1>9, <1>10
  <2>2. Nth(S, first + i - 1) = Nth(S, first + k - 1)
    BY <1>2, <1>3, <1>4, <2>1
  <2>3. first + i - 1 = first + k - 1
    BY <1>3, <2>1, <2>2
  <2> QED BY <1>6, <2>3
<1> QED BY <1>1, <1>6, <1>9, <1>11, <1>12

\* One step of an invocation.
Step(p) ==
  \/ Start(p) \/ Fail(p) \/ Capture(p) \/ Record(p)
  \/ Admit(p) \/ AlreadyRecorded(p) \/ NotMonotonic(p)
  \/ AppendEvent(p) \/ TearLine(p) \/ WriteIndex(p)
  \/ Load(p) \/ Rebuild(p) \/ Resolve(p) \/ Crash(p)

LEMMA StepIs == Next <=> \E p \in Processes : Step(p)
BY DEF Next, Step

\* A step changes only what belongs to the invocation that makes it.
LEMMA OthersStay ==
  ASSUME TypeOK, NEW p \in Processes, Step(p), NEW q \in Processes, q # p
  PROVE  /\ pc'[q] = pc[q] /\ job'[q] = job[q] /\ event'[q] = event[q]
         /\ read'[q] = read[q] /\ answer'[q] = answer[q]
<1> USE DEF TypeOK, Goto
<1>1. CASE Start(p)
  BY <1>1 DEF Start
<1>2. CASE Fail(p) \/ Crash(p)
  BY <1>2 DEF Fail, Crash
<1>3. CASE Capture(p) \/ Record(p)
  BY <1>3 DEF Capture, Record, Build
<1>4. CASE Admit(p) \/ AlreadyRecorded(p) \/ NotMonotonic(p) \/ Load(p)
  BY <1>4 DEF Admit, AlreadyRecorded, NotMonotonic, Load
<1>5. CASE AppendEvent(p) \/ TearLine(p) \/ WriteIndex(p) \/ Rebuild(p)
  BY <1>5 DEF AppendEvent, TearLine, WriteIndex, Rebuild
<1>6. CASE Resolve(p)
  BY <1>6 DEF Resolve
<1> QED BY <1>1, <1>2, <1>3, <1>4, <1>5, <1>6 DEF Step

\* Where a step leads, by the place it starts from.
LEMMA OwnStep ==
  ASSUME TypeOK, NEW p \in Processes, Step(p)
  PROVE  /\ pc' = [pc EXCEPT ![p] = pc'[p]]
         /\ pc'[p] \in Active \cup Ended
         /\ pc'[p] \in Active => Start(p) \/ (pc[p] \in Active /\ job' = job)
         /\ pc'[p] \in HasEvent => Capture(p) \/ Record(p) \/ (pc[p] \in HasEvent /\ UNCHANGED <<job, event>>)
         /\ pc'[p] = "admitted" => Admit(p)
         /\ pc'[p] = "appended" => AppendEvent(p)
         /\ pc'[p] = "loaded" => Load(p)
         /\ pc'[p] = "already" => AlreadyRecorded(p)
         /\ pc'[p] = "recorded" => WriteIndex(p)
         /\ pc'[p] = "rebuilt" => Rebuild(p)
<1> USE DEF TypeOK, Goto, Active, Ended, HasEvent
<1>1. CASE Start(p)
  BY <1>1 DEF Start
<1>2. CASE Fail(p) \/ Crash(p)
  BY <1>2 DEF Fail, Crash
<1>3. CASE Capture(p) \/ Record(p)
  BY <1>3 DEF Capture, Record, Build, Runs
<1>4. CASE Admit(p) \/ AlreadyRecorded(p) \/ NotMonotonic(p)
  BY <1>4 DEF Admit, AlreadyRecorded, NotMonotonic
<1>5. CASE AppendEvent(p) \/ TearLine(p) \/ WriteIndex(p) \/ Rebuild(p)
  BY <1>5 DEF AppendEvent, TearLine, WriteIndex, Rebuild
<1>6. CASE Resolve(p) \/ Load(p)
  BY <1>6 DEF Resolve, Load, Runs
<1> QED BY <1>1, <1>2, <1>3, <1>4, <1>5, <1>6 DEF Step

\* What a step does to the stream and to its last line.
LEMMA StreamStep ==
  ASSUME TypeOK, NEW p \in Processes, Step(p)
  PROVE  \/ UNCHANGED <<stream, torn>>
         \/ AppendEvent(p) /\ ~torn /\ torn' = torn /\ stream' = Append(stream, event[p])
         \/ TearLine(p) /\ torn' = TRUE /\ stream' = stream
BY DEF Step, Start, Fail, Capture, Record, Build, Admit, AlreadyRecorded, NotMonotonic,
       AppendEvent, TearLine, WriteIndex, Load, Rebuild, Resolve, Crash

LEMMA KindsStep ==
  ASSUME Kinds, NEW p \in Processes, Step(p)
  PROVE  Kinds'
<1>0. TypeOK /\ stream \in Seq(Events)
  BY DEF Kinds, TypeOK
<1>1. ASSUME NEW q \in Processes PROVE Typed(q)'
  <2>1. CASE q # p
    BY <1>0, <2>1, OthersStay DEF Kinds, Typed
  <2>2. CASE q = p /\ Start(p)
    <3>1. job'[p] \in Jobs /\ pc'[p] = "started"
      BY <1>0, <2>2 DEF Start, Goto, TypeOK
    <3> QED BY <2>2, <3>1 DEF Typed, HasEvent
  <2>3. CASE q = p /\ (Capture(p) \/ Record(p))
    <3>1. PICK e \in Events : /\ event' = [event EXCEPT ![p] = e]
                              /\ e.session = job[p].session /\ TicketOf(e) = job[p].ticket
      BY <2>3, BuildTyped
    <3>2. pc[p] = "started" /\ job' = job /\ event'[p] = e
      BY <1>0, <2>3, <3>1, BuildTyped DEF TypeOK
    <3>3. job[p] \in Jobs
      BY <3>2 DEF Kinds, Typed, Active
    <3> QED BY <2>3, <3>1, <3>2, <3>3 DEF Typed
  <2>4. CASE q = p /\ ~Start(p) /\ ~(Capture(p) \/ Record(p))
    <3>1. Typed(p)
      BY DEF Kinds
    <3>2. pc'[p] \in Active => pc[p] \in Active /\ job' = job
      BY <1>0, <2>4, OwnStep
    <3>3. pc'[p] \in HasEvent => pc[p] \in HasEvent /\ job' = job /\ event' = event
      BY <1>0, <2>4, OwnStep
    <3> QED BY <2>4, <3>1, <3>2, <3>3 DEF Typed
  <2> QED BY <2>1, <2>2, <2>3, <2>4
<1>2. TypeOK'
  <2>1. CASE Start(p)
    BY <1>0, <2>1 DEF Start, Goto, TypeOK, Active
  <2>2. CASE Fail(p) \/ Crash(p)
    BY <1>0, <2>2 DEF Fail, Crash, TypeOK, Ended
  <2>3. CASE Capture(p) \/ Record(p)
    <3>1. PICK e \in Events : event' = [event EXCEPT ![p] = e]
      BY <2>3, BuildTyped
    <3>2. pc' = [pc EXCEPT ![p] = "built"] /\ UNCHANGED <<stream, torn, index, job, read, answer>>
      BY <2>3, BuildTyped
    <3> QED BY <1>0, <3>1, <3>2 DEF TypeOK, Active
  <2>4. CASE Admit(p) \/ AlreadyRecorded(p) \/ NotMonotonic(p) \/ Load(p)
    BY <1>0, <2>4 DEF Admit, AlreadyRecorded, NotMonotonic, Load, Goto, TypeOK, Active, Ended
  <2>5. CASE AppendEvent(p) \/ TearLine(p)
    <3>1. pc[p] = "admitted" => event[p] \in Events
      BY DEF Kinds, Typed, HasEvent
    <3>2. stream' \in Seq(Events)
      BY <1>0, <2>5, <3>1, AppendProperties DEF AppendEvent, TearLine, Goto
    <3> QED BY <1>0, <2>5, <3>2 DEF AppendEvent, TearLine, Goto, TypeOK, Active, Ended
  <2>6. CASE WriteIndex(p)
    <3>1. event[p] \in Events /\ read[p] \in Seq(Events)
      BY <2>6 DEF WriteIndex, Goto, Kinds, Typed, HasEvent, TypeOK
    <3>2. index' \in Seq(Events)
      BY <2>6, <3>1, AppendProperties, IndexIs DEF WriteIndex
    <3> QED BY <1>0, <2>6, <3>2 DEF WriteIndex, Goto, TypeOK, Ended
  <2>7. CASE Rebuild(p)
    <3>1. read[p] \in Seq(Events)
      BY <1>0 DEF TypeOK
    <3>2. index' \in Seq(Events)
      BY <2>7, <3>1, IndexIs DEF Rebuild
    <3> QED BY <1>0, <2>7, <3>2 DEF Rebuild, Goto, TypeOK, Ended
  <2>8. CASE Resolve(p)
    <3> DEFINE t == job[p].ticket
               e == stream[Newest(OfTicket(stream, t))]
    <3>1. e \in Events
      BY <1>0, <2>8, PlacesTyped DEF Resolve
    <3>2. answer' = [answer EXCEPT ![p] = CheckpointOf(e)] /\ CheckpointOf(e) \in Checkpoints
      BY <2>8, <3>1, EventTyped DEF Resolve
    <3> HIDE DEF e
    <3> QED BY <1>0, <2>8, <3>2 DEF Resolve, Goto, TypeOK, Ended
  <2> QED BY <2>1, <2>2, <2>3, <2>4, <2>5, <2>6, <2>7, <2>8 DEF Step
<1> QED BY <1>1, <1>2 DEF Kinds

LEMMA KindsInit == Init => Kinds
BY EmptySeq DEF Init, Kinds, TypeOK, Typed, Active, HasEvent

LEMMA KindsNext ==
  ASSUME Kinds, [Next]_vars
  PROVE  Kinds'
<1>1. CASE UNCHANGED vars
  BY <1>1 DEF vars, Kinds, TypeOK, Typed
<1>2. CASE Next
  BY <1>2, StepIs, KindsStep
<1> QED BY <1>1, <1>2

\* Every variable keeps its type, whatever the callers do to each other.
THEOREM TypeCorrect == Spec => []TypeOK
<1>1. Kinds => TypeOK
  BY DEF Kinds
<1> QED BY <1>1, KindsInit, KindsNext, PTL DEF Spec

LEMMA KindsAlways == Spec => []Kinds
BY KindsInit, KindsNext, PTL DEF Spec

------------------------------------------------------------------------------
(* Part 3: what needs no discipline.                                       *)

LEMMA OnlyLonger ==
  ASSUME Kinds, [Next]_vars
  PROVE  IsPrefix(stream, stream') /\ (torn => torn')
<1>0. TypeOK /\ stream \in Seq(Events)
  BY DEF Kinds, TypeOK
<1>1. CASE UNCHANGED <<stream, torn>>
  BY <1>0, <1>1, SelfIsPrefix
<1>2. ASSUME NEW p \in Processes, Step(p) PROVE IsPrefix(stream, stream') /\ (torn => torn')
  <2>1. AppendEvent(p) => event[p] \in Events
    BY DEF AppendEvent, Goto, Kinds, Typed, HasEvent
  <2> QED BY <1>0, <1>1, <1>2, <2>1, StreamStep, AppendExtends, SelfIsPrefix
<1> QED BY <1>1, <1>2, StepIs DEF vars

\* "The JSONL stream is append-only": no step loses or changes a line, and no lock is needed
\* for that, because each event is one write at whatever is the end (append_event).
THEOREM LinesStay == Spec => AppendOnly
<1>1. Kinds /\ [Next]_vars => [IsPrefix(stream, stream') /\ (torn => torn')]_vars
  BY OnlyLonger
<1> QED BY <1>1, KindsAlways, PTL DEF Spec, AppendOnly

LEMMA QuietRebuild ==
  ASSUME Kinds, [Next]_vars, NEW p \in Processes,
         pc[p] = "loaded", pc'[p] = "rebuilt", read[p] = stream
  PROVE  index' = IndexOf(stream')
<1>0. TypeOK
  BY DEF Kinds
<1>1. PICK q \in Processes : Step(q)
  BY StepIs DEF vars
<1>2. q = p
  BY <1>0, <1>1, OthersStay
<1>3. Rebuild(p)
  BY <1>0, <1>1, <1>2, OwnStep
<1> QED BY <1>3 DEF Rebuild

\* A rebuild that met no writer repairs the index, whatever crashes and lost updates of
\* concurrent invocations did to it (rebuild_index).
THEOREM QuietRebuildsRepair == Spec => RebuildRepairs
<1>1. Kinds /\ [Next]_vars =>
        [\A p \in Processes : pc[p] = "loaded" /\ pc'[p] = "rebuilt" /\ read[p] = stream
                                => index' = IndexOf(stream')]_vars
  BY QuietRebuild
<1> QED BY <1>1, KindsAlways, PTL DEF Spec, RebuildRepairs

\* Invocations that run at the same time may.
Apart ==
  \A p, q \in Processes :
    p # q /\ pc[p] \in Active /\ pc[q] \in Active => MayOverlap(job[p], job[q])

LEMMA OverlapIsMutual ==
  \A j, k : MayOverlap(j, k) => MayOverlap(k, j)
BY DEF MayOverlap

LEMMA ApartStep ==
  ASSUME TypeOK, Apart, NEW p \in Processes, Step(p)
  PROVE  Apart'
<1> SUFFICES ASSUME NEW a \in Processes, NEW b \in Processes,
                    a # b, pc'[a] \in Active, pc'[b] \in Active
             PROVE  MayOverlap(job'[a], job'[b])
  BY DEF Apart, MayOverlap
<1>1. ASSUME NEW q \in Processes, q # p, pc'[p] \in Active, pc'[q] \in Active
      PROVE  MayOverlap(job'[p], job'[q])
  <2>1. pc[q] \in Active /\ job'[q] = job[q]
    BY <1>1, OthersStay
  <2>2. CASE Start(p)
    BY <2>1, <2>2 DEF Start, TypeOK
  <2>3. CASE pc[p] \in Active /\ job' = job
    BY <1>1, <2>1, <2>3 DEF Apart
  <2> QED BY <1>1, <2>2, <2>3, OwnStep
<1>2. CASE a # p /\ b # p
  BY <1>2, OthersStay DEF Apart
<1>3. CASE a = p
  BY <1>1, <1>3
<1>4. CASE b = p
  BY <1>1, <1>4, OverlapIsMutual
<1> QED BY <1>2, <1>3, <1>4

\* Nobody appends after a line that was cut: there is none, or who takes the next turn reads it.
CutsAreSeen == Discipline = "serial" \/ "torn" \notin Faults

\* Who is about to append sees whole lines, and its event is there as soon as it says so.
Kept ==
  \A p \in Processes :
    /\ pc[p] = "admitted" => ~torn
    /\ pc[p] \in {"appended", "recorded", "already"} => \E i \in DOMAIN stream : stream[i] = event[p]

\* What was read is still there.
ReadIsOld ==
  \A p \in Processes :
    pc[p] \in {"admitted", "appended", "loaded"} =>
      \A i \in DOMAIN read[p] : i \in DOMAIN stream /\ stream[i] = read[p][i]

Durable == Kinds /\ Apart /\ Kept /\ ReadIsOld /\ IndexIsProjection

\* A line that is there stays there.
LEMMA LinesRemain ==
  ASSUME Kinds, [Next]_vars
  PROVE  \A i \in DOMAIN stream : i \in DOMAIN stream' /\ stream'[i] = stream[i]
<1>1. stream \in Seq(Events) /\ stream' \in Seq(Events)
  BY KindsNext DEF Kinds, TypeOK
<1>2. Len(stream) <= Len(stream') /\ \A i \in 1..Len(stream) : stream[i] = stream'[i]
  BY <1>1, OnlyLonger, PrefixIs
<1> QED BY <1>1, <1>2

LEMMA KeptStep ==
  ASSUME Kinds, Apart, Kept, CutsAreSeen, NEW p \in Processes, Step(p)
  PROVE  Kept'
<1>0. TypeOK /\ [Next]_vars
  BY StepIs DEF Kinds
<1>1. \A i \in DOMAIN stream : i \in DOMAIN stream' /\ stream'[i] = stream[i]
  BY <1>0, LinesRemain
<1>2. ASSUME NEW q \in Processes, q # p
      PROVE  /\ pc'[q] = "admitted" => ~torn'
             /\ pc'[q] \in {"appended", "recorded", "already"} =>
                  \E i \in DOMAIN stream' : stream'[i] = event'[q]
  <2>1. pc'[q] = pc[q] /\ event'[q] = event[q]
    BY <1>0, <1>2, OthersStay
  <2>2. ASSUME pc[q] = "admitted" PROVE ~torn'
    <3>1. ~torn
      BY <2>2 DEF Kept
    <3>2. ASSUME TearLine(p) PROVE FALSE
      <4>1. pc[p] \in Active /\ pc[q] \in Active /\ "torn" \in Faults
        BY <2>2, <3>2 DEF TearLine, Goto, Active
      <4>2. MayOverlap(job[p], job[q])
        BY <1>2, <4>1 DEF Apart
      <4> QED BY <4>1, <4>2 DEF CutsAreSeen, MayOverlap
    <3> QED BY <1>0, <3>1, <3>2, StreamStep
  <2> QED BY <1>1, <2>1, <2>2 DEF Kept
<1>3. pc'[p] = "admitted" => ~torn'
  BY <1>0, OwnStep DEF Admit, Readable
<1>4. pc'[p] \in {"appended", "recorded", "already"} =>
        \E i \in DOMAIN stream' : stream'[i] = event'[p]
  <2>1. ASSUME AppendEvent(p) PROVE \E i \in DOMAIN stream' : stream'[i] = event'[p]
    <3>1. ~torn /\ event' = event /\ stream' = Append(stream, event[p])
      BY <2>1 DEF AppendEvent, Goto, Kept
    <3>2. event[p] \in Events /\ stream \in Seq(Events)
      BY <2>1 DEF AppendEvent, Goto, Kinds, Typed, HasEvent, TypeOK
    <3>3. stream'[Len(stream) + 1] = event[p] /\ Len(stream) + 1 \in DOMAIN stream'
      BY <3>1, <3>2
    <3> QED BY <3>1, <3>3
  <2>2. ASSUME AlreadyRecorded(p) PROVE \E i \in DOMAIN stream' : stream'[i] = event'[p]
    BY <2>2 DEF AlreadyRecorded
  <2>3. ASSUME WriteIndex(p) PROVE \E i \in DOMAIN stream' : stream'[i] = event'[p]
    BY <2>3 DEF WriteIndex, Goto, Kept
  <2> QED BY <1>0, <2>1, <2>2, <2>3, OwnStep
<1> QED BY <1>2, <1>3, <1>4 DEF Kept

LEMMA ReadStep ==
  ASSUME Kinds, ReadIsOld, NEW p \in Processes, Step(p)
  PROVE  ReadIsOld'
<1>0. TypeOK /\ [Next]_vars
  BY StepIs DEF Kinds
<1>1. \A i \in DOMAIN stream : i \in DOMAIN stream' /\ stream'[i] = stream[i]
  BY <1>0, LinesRemain
<1>2. ASSUME NEW q \in Processes, q # p, pc'[q] \in {"admitted", "appended", "loaded"}
      PROVE  \A i \in DOMAIN read'[q] : i \in DOMAIN stream' /\ stream'[i] = read'[q][i]
  <2>1. pc'[q] = pc[q] /\ read'[q] = read[q]
    BY <1>0, <1>2, OthersStay
  <2> QED BY <1>1, <1>2, <2>1 DEF ReadIsOld
<1>3. ASSUME pc'[p] \in {"admitted", "appended", "loaded"}
      PROVE  \A i \in DOMAIN read'[p] : i \in DOMAIN stream' /\ stream'[i] = read'[p][i]
  <2>1. CASE Admit(p) \/ Load(p)
    BY <1>0, <2>1 DEF Admit, Load, TypeOK
  <2>2. CASE AppendEvent(p)
    BY <1>1, <2>2 DEF AppendEvent, Goto, ReadIsOld
  <2> QED BY <1>0, <1>3, <2>1, <2>2, OwnStep
<1> QED BY <1>2, <1>3 DEF ReadIsOld

\* An index of events that are in the stream.
LEMMA ProjectionOf ==
  ASSUME NEW str \in Seq(Events), index' = IndexOf(str),
         \A i \in DOMAIN str : \E k \in DOMAIN stream' : stream'[k] = str[i]
  PROVE  IndexIsProjection'
<1>1. \A i \in DOMAIN index' : \E k \in DOMAIN stream' : stream'[k] = index'[i]
  <2> TAKE i \in DOMAIN index'
  <2>1. PICK k \in DOMAIN str : index'[i] = str[k]
    BY IndexIs
  <2> QED BY <2>1
<1>2. /\ Len(index') <= Maximum
      /\ \A i, k \in DOMAIN index' : TicketOf(index'[i]) = TicketOf(index'[k]) => i = k
  BY IndexIs
<1> QED BY <1>1, <1>2 DEF IndexIsProjection, TicketOf, CheckpointOf

LEMMA ProjectionStep ==
  ASSUME Kinds, Kept, ReadIsOld, IndexIsProjection, NEW p \in Processes, Step(p)
  PROVE  IndexIsProjection'
<1>0. TypeOK /\ [Next]_vars
  BY StepIs DEF Kinds
<1>1. \A i \in DOMAIN stream : i \in DOMAIN stream' /\ stream'[i] = stream[i]
  BY <1>0, LinesRemain
<1>2. CASE WriteIndex(p)
  <2> DEFINE long == Append(read[p], event[p])
  <2>1. pc[p] = "appended" /\ stream' = stream /\ index' = IndexOf(long)
    BY <1>2 DEF WriteIndex, Goto
  <2>2. read[p] \in Seq(Events) /\ event[p] \in Events
    BY <2>1 DEF Kinds, TypeOK, Typed, HasEvent
  <2>3. /\ \A i \in DOMAIN read[p] : i \in DOMAIN stream /\ stream[i] = read[p][i]
        /\ \E i \in DOMAIN stream : stream[i] = event[p]
    BY <2>1 DEF Kept, ReadIsOld
  <2>4. \A i \in DOMAIN long : (i \in DOMAIN read[p] /\ long[i] = read[p][i]) \/ long[i] = event[p]
    BY <2>2
  <2>5. long \in Seq(Events)
    BY <2>2
  <2> HIDE DEF long
  <2>6. \A i \in DOMAIN long : \E k \in DOMAIN stream' : stream'[k] = long[i]
    BY <2>1, <2>3, <2>4
  <2> QED BY <2>1, <2>5, <2>6, ProjectionOf
<1>3. CASE Rebuild(p)
  <2>1. pc[p] = "loaded" /\ stream' = stream /\ index' = IndexOf(read[p]) /\ read[p] \in Seq(Events)
    BY <1>0, <1>3 DEF Rebuild, Goto, TypeOK
  <2>2. \A i \in DOMAIN read[p] : \E k \in DOMAIN stream' : stream'[k] = read[p][i]
    BY <2>1 DEF ReadIsOld
  <2> QED BY <2>1, <2>2, ProjectionOf
<1>4. CASE index' = index
  <2>1. \A i \in DOMAIN index : \E k \in DOMAIN stream' : stream'[k] = index[i]
    BY <1>1 DEF IndexIsProjection
  <2> QED BY <1>4, <2>1 DEF IndexIsProjection, TicketOf, CheckpointOf
<1>5. WriteIndex(p) \/ Rebuild(p) \/ index' = index
  BY DEF Step, Start, Fail, Capture, Record, Build, Admit, AlreadyRecorded, NotMonotonic,
         AppendEvent, TearLine, WriteIndex, Load, Rebuild, Resolve, Crash
<1> QED BY <1>2, <1>3, <1>4, <1>5

LEMMA DurableInit == Init => Durable
<1> SUFFICES ASSUME Init PROVE Durable
  OBVIOUS
<1>1. Kinds
  BY KindsInit
<1>2. Apart /\ Kept /\ ReadIsOld
  BY DEF Init, Apart, Kept, ReadIsOld, Active
<1>3. IndexIsProjection
  BY ContinuityAssumption DEF Init, IndexIsProjection
<1> QED BY <1>1, <1>2, <1>3 DEF Durable

LEMMA DurableNext ==
  ASSUME Durable, CutsAreSeen, [Next]_vars
  PROVE  Durable'
<1>1. CASE UNCHANGED vars
  BY <1>1, KindsNext DEF vars, Durable, Apart, MayOverlap, Kept, ReadIsOld, IndexIsProjection,
                         TicketOf, CheckpointOf
<1>2. CASE Next
  <2>1. PICK p \in Processes : Step(p)
    BY <1>2, StepIs
  <2> QED BY <2>1, KindsStep, ApartStep, KeptStep, ReadStep, ProjectionStep DEF Durable, Kinds
<1> QED BY <1>1, <1>2

LEMMA DurableAlways == ASSUME CutsAreSeen PROVE Spec => []Durable
BY DurableInit, DurableNext, PTL DEF Spec

\* The index never invents: its entries are events of the stream, one for each ticket, and not
\* more than there is room for, even when invocations overwrite each other's index.
THEOREM IndexInventsNothing == ASSUME CutsAreSeen PROVE Spec => []IndexIsProjection
BY DurableAlways, PTL DEF Durable

------------------------------------------------------------------------------
(* Part 4: what a discipline is enough for.                                *)

\* The stream is readable, and who was admitted still continues it.
Chained ==
  /\ Monotonic(stream)
  /\ \A p \in Processes : pc[p] = "admitted" => Continues(stream, event[p])

LEMMA ChainedStep ==
  ASSUME Kinds, Apart, Chained, Discipline # "none", NEW p \in Processes, Step(p)
  PROVE  Chained'
<1>0. TypeOK /\ stream \in Seq(Events)
  BY DEF Kinds, TypeOK
<1>1. CASE UNCHANGED stream
  <2>1. ASSUME NEW q \in Processes, pc'[q] = "admitted" PROVE Continues(stream, event'[q])
    <3>1. CASE q # p
      BY <1>0, <2>1, <3>1, OthersStay DEF Chained
    <3>2. CASE q = p
      BY <1>0, <2>1, <3>2, OwnStep DEF Admit
    <3> QED BY <3>1, <3>2
  <2> QED BY <1>1, <2>1 DEF Chained
<1>2. CASE AppendEvent(p) /\ stream' = Append(stream, event[p])
  <2>1. pc[p] = "admitted" /\ pc'[p] = "appended" /\ event' = event
    BY <1>0, <1>2 DEF AppendEvent, Goto, TypeOK
  <2>2. /\ event[p] \in Events /\ Continues(stream, event[p])
        /\ event[p].session = job[p].session /\ TicketOf(event[p]) = job[p].ticket
    BY <2>1 DEF Kinds, Typed, HasEvent, Chained
  <2>3. Monotonic(stream')
    BY <1>0, <1>2, <2>2, MonotonicAfter DEF Chained
  <2>4. ASSUME NEW q \in Processes, pc'[q] = "admitted" PROVE Continues(stream', event'[q])
    <3>1. q # p /\ pc[q] = "admitted"
      BY <1>0, <2>1, <2>4, OthersStay
    <3>2. MayOverlap(job[p], job[q])
      BY <2>1, <3>1 DEF Apart, Active
    <3>3. event[q].session # event[p].session /\ TicketOf(event[q]) # TicketOf(event[p])
      BY <2>2, <3>1, <3>2 DEF MayOverlap, Kinds, Typed, HasEvent
    <3>4. Continues(stream, event[q])
      BY <3>1 DEF Chained
    <3> QED BY <1>0, <1>2, <2>1, <2>2, <3>3, <3>4, NewestAfter DEF Continues
  <2> QED BY <2>3, <2>4 DEF Chained
<1> QED BY <1>0, <1>1, <1>2, StreamStep

\* Within a session, logs get longer.
Longer(str) ==
  \A i, k \in DOMAIN str : i < k /\ str[i].session = str[k].session => Len(str[i].log) < Len(str[k].log)

LEMMA LongerAfter ==
  ASSUME NEW str \in Seq(Events), Longer(str), NEW e \in Events, Continues(str, e)
  PROVE  Longer(Append(str, e))
<1> DEFINE n == Len(str)
           long == Append(str, e)
           s == e.session
<1>1. /\ n \in Nat /\ DOMAIN str = 1..n /\ DOMAIN long = 1..(n + 1)
      /\ long[n + 1] = e /\ \A i \in 1..n : long[i] = str[i] /\ str[i] \in Events
  OBVIOUS
<1> HIDE DEF n, long
<1>2. ASSUME NEW i \in 1..n, str[i].session = s PROVE Len(str[i].log) < Len(e.log)
  <2> DEFINE I == OfSession(str, s)
             last == Newest(I)
  <2>1. i \in I /\ I \in SUBSET (1..n)
    BY <1>1, <1>2 DEF OfSession
  <2>2. last \in I /\ i <= last
    BY <1>1, <2>1, NewestIs
  <2>3. str[last].session = s /\ last \in 1..n /\ SessionLog(str, s) = str[last].log
    BY <1>1, <2>1, <2>2 DEF OfSession, SessionLog
  <2>4. Len(str[i].log) <= Len(str[last].log)
    <3>1. Len(str[i].log) \in Nat /\ Len(str[last].log) \in Nat
      BY <1>1, <2>3, EventTyped
    <3>2. CASE i = last
      BY <3>1, <3>2
    <3>3. CASE i # last
      <4>1. i < last
        BY <2>2, <2>3, <3>3
      <4>2. Len(str[i].log) < Len(str[last].log)
        BY <1>1, <1>2, <2>3, <4>1 DEF Longer
      <4> QED BY <3>1, <4>2
    <3> QED BY <3>2, <3>3
  <2>5. Len(Front(e.log)) + 1 = Len(e.log) /\ Front(e.log) = str[last].log
    BY <2>3, EventTyped, FrontIs DEF Continues
  <2>6. Len(str[i].log) \in Nat /\ Len(str[last].log) \in Nat
    BY <1>1, <2>3, EventTyped
  <2> QED BY <2>4, <2>5, <2>6
<1>3. ASSUME NEW i \in 1..(n + 1), NEW k \in 1..(n + 1), i < k, long[i].session = long[k].session
      PROVE  Len(long[i].log) < Len(long[k].log)
  <2>1. i \in 1..n
    BY <1>1, <1>3
  <2>2. CASE k = n + 1
    BY <1>1, <1>2, <1>3, <2>1, <2>2
  <2>3. CASE k # n + 1
    <3>1. k \in 1..n
      BY <1>1, <2>3
    <3> QED BY <1>1, <1>3, <2>1, <3>1 DEF Longer
  <2> QED BY <2>2, <2>3
<1> QED BY <1>1, <1>3 DEF Longer, long

\* An answer names a checkpoint on the chain of its ticket.
LEMMA AnswersStep ==
  ASSUME Kinds, Chained, AnswersOnChain, NEW p \in Processes, Step(p)
  PROVE  /\ AnswersOnChain'
         /\ \A t : IsPrefix(TicketChain(stream, t), TicketChain(stream', t))
<1>0. TypeOK /\ stream \in Seq(Events) /\ stream' \in Seq(Events)
  BY KindsStep DEF Kinds, TypeOK
<1>1. \A t : IsPrefix(TicketChain(stream, t), TicketChain(stream', t))
  <2>1. CASE UNCHANGED stream
    BY <1>0, <2>1, ChainsTyped, SelfIsPrefix
  <2>2. CASE AppendEvent(p) /\ stream' = Append(stream, event[p])
    <3>1. event[p] \in Events /\ Continues(stream, event[p])
      BY <2>2 DEF AppendEvent, Goto, Kinds, Typed, HasEvent, Chained
    <3> QED BY <1>0, <2>2, <3>1, ChainsExtend
  <2> QED BY <1>0, <2>1, <2>2, StreamStep
<1>2. ASSUME NEW q \in Processes, answer'[q] # None
      PROVE  IsPrefix(answer'[q].chain, TicketChain(stream', answer'[q].ticket))
  <2>1. CASE answer'[q] = answer[q]
    <3>1. answer[q] \in Checkpoints
      BY <1>0, <1>2, <2>1 DEF TypeOK
    <3>2. answer[q].chain \in Seq(Bodies)
      BY <3>1 DEF Checkpoints
    <3>3. IsPrefix(answer[q].chain, TicketChain(stream, answer[q].ticket))
      BY <1>2, <2>1 DEF AnswersOnChain
    <3> QED BY <1>0, <1>1, <2>1, <3>2, <3>3, ChainsTyped, PrefixesCompose
  <2>2. CASE q = p /\ Resolve(p)
    <3> DEFINE t == job[p].ticket
               e == stream[Newest(OfTicket(stream, t))]
    <3>0. OfTicket(stream, t) # {} /\ Newest(OfTicket(stream, t)) \in OfTicket(stream, t)
      BY <1>0, <2>2, PlacesTyped DEF Resolve
    <3>1. e \in Events /\ TicketOf(e) = t
      BY <1>0, <3>0 DEF OfTicket
    <3>2. answer'[p] = CheckpointOf(e) /\ stream' = stream /\ TicketChain(stream, t) = CheckpointOf(e).chain
      BY <1>0, <2>2 DEF Resolve, TicketChain, TypeOK
    <3> HIDE DEF e
    <3> QED BY <2>2, <3>1, <3>2, EventTyped, SelfIsPrefix DEF TicketOf
  <2>3. q = p => Resolve(p) \/ answer' = answer
    BY DEF Step, Start, Fail, Capture, Record, Build, Admit, AlreadyRecorded, NotMonotonic,
           AppendEvent, TearLine, WriteIndex, Load, Rebuild, Resolve, Crash
  <2> QED BY <1>0, <2>1, <2>2, <2>3, OthersStay
<1> QED BY <1>1, <1>2 DEF AnswersOnChain

Disciplined == Kinds /\ Apart /\ Chained /\ Longer(stream) /\ AnswersOnChain

LEMMA DisciplinedInit == Init => Disciplined
<1> SUFFICES ASSUME Init PROVE Disciplined
  OBVIOUS
<1>1. Kinds
  BY KindsInit
<1> QED BY <1>1 DEF Init, Disciplined, Apart, Chained, Monotonic, Longer, AnswersOnChain, Active

LEMMA DisciplinedNext ==
  ASSUME Disciplined, Discipline # "none", [Next]_vars
  PROVE  /\ Disciplined'
         /\ \A t : IsPrefix(TicketChain(stream, t), TicketChain(stream', t))
<1>0. stream \in Seq(Events) /\ TypeOK
  BY DEF Disciplined, Kinds, TypeOK
<1>1. CASE UNCHANGED vars
  <2>1. \A t : IsPrefix(TicketChain(stream, t), TicketChain(stream', t))
    BY <1>0, <1>1, ChainsTyped, SelfIsPrefix DEF vars
  <2>2. Kinds' /\ Apart' /\ Chained'
    BY <1>1, KindsNext DEF vars, Disciplined, Apart, MayOverlap, Chained
  <2>3. Longer(stream)' /\ AnswersOnChain'
    BY <1>1 DEF vars, Disciplined, Longer, AnswersOnChain
  <2> QED BY <2>1, <2>2, <2>3 DEF Disciplined
<1>2. CASE Next
  <2>1. PICK p \in Processes : Step(p)
    BY <1>2, StepIs
  <2>2. Longer(stream')
    <3>1. AppendEvent(p) => event[p] \in Events /\ Continues(stream, event[p])
      BY DEF AppendEvent, Goto, Disciplined, Kinds, Typed, HasEvent, Chained
    <3> QED BY <1>0, <2>1, <3>1, StreamStep, LongerAfter DEF Disciplined
  <2>3. Longer(stream)'
    BY <2>2 DEF Longer
  <2> QED BY <1>0, <2>1, <2>3, KindsStep, ApartStep, ChainedStep, AnswersStep DEF Disciplined
<1> QED BY <1>1, <1>2

LEMMA DisciplinedAlways == ASSUME Discipline # "none" PROVE Spec => []Disciplined
BY DisciplinedInit, DisciplinedNext, PTL DEF Spec

\* With turns, or with a ticket and session each, the chains of the lines stay readable, up to
\* a line that was cut.
THEOREM StreamStaysReadable ==
  ASSUME Discipline # "none" PROVE Spec => []ReadableUntilCut
<1>1. Disciplined => ReadableUntilCut
  BY DEF Disciplined, Chained, ReadableUntilCut
<1> QED BY <1>1, DisciplinedAlways, PTL

\* Without cut lines every later capture, resolve and rebuild can read the stream.
THEOREM IndexIsRebuildable ==
  ASSUME Discipline # "none", "torn" \notin Faults PROVE Spec => []Rebuildable
<1>1. Init => ~torn
  BY DEF Init
<1>2. Disciplined /\ ~torn /\ [Next]_vars => ~torn'
  <2> SUFFICES ASSUME Disciplined, ~torn, [Next]_vars PROVE ~torn'
    OBVIOUS
  <2>1. CASE UNCHANGED vars
    BY <2>1 DEF vars
  <2>2. ASSUME NEW p \in Processes, Step(p) PROVE ~torn'
    BY <2>2, StreamStep DEF TearLine, Disciplined, Kinds
  <2> QED BY <2>1, <2>2, StepIs
<1>3. Disciplined /\ ~torn => Rebuildable
  BY DEF Disciplined, Chained, Rebuildable, Readable
<1> QED BY <1>1, <1>2, <1>3, DisciplinedAlways, PTL DEF Spec

\* With a discipline no checkpoint of a ticket is taken back, replaced or forked.
THEOREM ChainsOnlyGrow == ASSUME Discipline # "none" PROVE Spec => ChainsGrow
<1>1. Disciplined /\ [Next]_vars =>
        [\A t \in Tickets : IsPrefix(TicketChain(stream, t), TicketChain(stream', t))]_vars
  BY DisciplinedNext
<1> QED BY <1>1, DisciplinedAlways, PTL DEF Spec, ChainsGrow

\* resolve never answers with a checkpoint that is not on its ticket's chain, and later
\* answers are never older.
THEOREM AnswersStayOnChain == ASSUME Discipline # "none" PROVE Spec => []AnswersOnChain
BY DisciplinedAlways, PTL DEF Disciplined

\* An event that was reported as recorded is in the stream, and no event is there twice, where
\* cut lines are seen.
THEOREM RecordedIsThereOnce ==
  ASSUME Discipline # "none", CutsAreSeen PROVE Spec => []RecordedOnce
<1>1. Durable /\ Disciplined => RecordedOnce
  <2> SUFFICES ASSUME Durable, Disciplined PROVE RecordedOnce
    OBVIOUS
  <2>1. stream \in Seq(Events)
    BY DEF Disciplined, Kinds, TypeOK
  <2>2. \A p \in Processes : pc[p] \in {"recorded", "already"} =>
          \E i \in DOMAIN stream : stream[i] = event[p]
    BY DEF Durable, Kept
  <2>3. ASSUME NEW i \in DOMAIN stream, NEW k \in DOMAIN stream, stream[i] = stream[k], i < k
        PROVE  FALSE
    <3>1. Len(stream[i].log) < Len(stream[k].log)
      BY <2>3 DEF Disciplined, Longer
    <3>2. Len(stream[i].log) \in Nat
      BY <2>1, EventTyped
    <3> QED BY <2>3, <3>1, <3>2
  <2>4. \A i, k \in DOMAIN stream : i = k \/ i < k \/ k < i
    BY <2>1
  <2> QED BY <2>2, <2>3, <2>4 DEF RecordedOnce
<1> QED BY <1>1, DurableAlways, DisciplinedAlways, PTL

-----------------------------------------------------------------------------
(* One invocation at a time.                                               *)

\* What was read is what is there, and the index is that of the stream except between a line
\* and its index.
Current ==
  /\ \A p \in Processes :
       /\ pc[p] \in {"admitted", "loaded"} => read[p] = stream
       /\ pc[p] = "admitted" => ~torn
       /\ pc[p] = "appended" => stream = Append(read[p], event[p])
  /\ (\A p \in Processes : pc[p] \notin {"appended", "crashed"}) => index = IndexOf(stream)

LEMMA TakingTurns ==
  ASSUME Apart, Discipline = "serial", NEW p \in Processes, NEW q \in Processes,
         pc[p] \in Active, pc[q] \in Active
  PROVE  p = q
BY DEF Apart, MayOverlap

LEMMA NothingIndexed == IndexOf(<<>>) = <<>>
<1>1. <<>> \in Seq(Events) /\ DOMAIN <<>> = {}
  BY EmptySeq
<1>2. IndexOf(<<>>) \in Seq(Events) /\ DOMAIN IndexOf(<<>>) = {}
  BY <1>1, IndexIs
<1> QED BY <1>2, EmptySeq

LEMMA CurrentStep ==
  ASSUME Kinds, Apart, Current, Discipline = "serial", NEW p \in Processes, Step(p)
  PROVE  Current'
<1>0. TypeOK /\ p \in Processes
  BY DEF Kinds
<1>1. ASSUME NEW q \in Processes, q # p, pc[q] \in Active
      PROVE  FALSE
  <2>1. pc[p] \notin Active
    BY <1>1, TakingTurns
  <2>2. ~Start(p)
    BY <1>1 DEF Start, MayOverlap
  <2> QED BY <2>1, <2>2 DEF Step, Fail, Capture, Record, Build, Admit, AlreadyRecorded, Runs,
             NotMonotonic, AppendEvent, TearLine, WriteIndex, Load, Rebuild, Resolve, Crash,
             Goto, Active
<1>2. ASSUME NEW q \in Processes, q # p PROVE pc'[q] \notin Active /\ pc'[q] = pc[q]
  BY <1>0, <1>1, <1>2, OthersStay
<1>3. /\ pc'[p] \in {"admitted", "loaded"} => read'[p] = stream'
      /\ pc'[p] = "admitted" => ~torn'
  BY <1>0, OwnStep DEF Admit, Load, Readable, TypeOK
<1>4. pc'[p] = "appended" => stream' = Append(read'[p], event'[p])
  <2> SUFFICES ASSUME AppendEvent(p) PROVE stream' = Append(read'[p], event'[p])
    BY <1>0, OwnStep
  <2> QED BY DEF AppendEvent, Goto, Current
<1>5. ASSUME \A q \in Processes : pc'[q] \notin {"appended", "crashed"}
      PROVE  index' = IndexOf(stream')
  <2>1. \A q \in Processes : q # p => pc[q] \notin {"appended", "crashed"}
    BY <1>2, <1>5
  <2>2. CASE WriteIndex(p)
    BY <2>2 DEF WriteIndex, Goto, Current
  <2>3. CASE Rebuild(p)
    BY <2>3 DEF Rebuild, Goto, Current
  <2>4. CASE ~WriteIndex(p) /\ ~Rebuild(p)
    <3>1. pc[p] \notin {"appended", "crashed"} /\ UNCHANGED <<stream, index>>
      BY <1>0, <1>5, <2>4 DEF Step, Start, Fail, Capture, Record, Build, Admit, AlreadyRecorded,
             Runs, NotMonotonic, AppendEvent, TearLine, Load, Resolve, Crash, Goto, Active, TypeOK
    <3> QED BY <2>1, <3>1 DEF Current
  <2> QED BY <2>2, <2>3, <2>4
<1>6. \A q \in Processes : q # p => pc'[q] \notin {"admitted", "loaded", "appended"}
  BY <1>2 DEF Active
<1> QED BY <1>3, <1>4, <1>5, <1>6 DEF Current

\* With turns, the index shows the newest checkpoint of each of the tickets it has room for as
\* soon as the last invocation has ended, unless one was killed between its line and its index.
THEOREM IndexBecomesCurrent == ASSUME Discipline = "serial" PROVE Spec => []IndexIsCurrent
<1> DEFINE Inv == Kinds /\ Apart /\ Current
<1>1. Init => Inv
  <2> SUFFICES ASSUME Init PROVE Inv
    OBVIOUS
  <2>1. Kinds /\ Apart
    BY DisciplinedInit DEF Disciplined
  <2> QED BY <2>1, NothingIndexed DEF Init, Current
<1>2. Inv /\ [Next]_vars => Inv'
  <2> SUFFICES ASSUME Inv, [Next]_vars PROVE Inv'
    OBVIOUS
  <2>1. CASE UNCHANGED vars
    BY <2>1, KindsNext DEF vars, Apart, MayOverlap, Current
  <2>2. CASE Next
    BY <2>2, StepIs, KindsStep, ApartStep, CurrentStep DEF Kinds
  <2> QED BY <2>1, <2>2
<1>3. Inv => IndexIsCurrent
  BY DEF Current, IndexIsCurrent, Active
<1> HIDE DEF Inv
<1> QED BY <1>1, <1>2, <1>3, PTL DEF Spec
=============================================================================
