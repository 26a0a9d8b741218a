---------------------- MODULE ContinuityScenariosProofs -----------------------
(***************************************************************************)
(* What holds of the continuity log in the three scenarios that are checked*)
(* together: the theorems about one log, each for the discipline, faults   *)
(* and bounds of its scenario.                                             *)
(***************************************************************************)
EXTENDS ContinuityScenarios, WorkContinuityProofs

DisjointLog == INSTANCE WorkContinuityProofs
                 WITH Discipline <- "disjoint", Faults <- {"crash"}, Maximum <- Maximum + 1
FreeLog == INSTANCE WorkContinuityProofs
             WITH Discipline <- "none", Faults <- {"crash"},
                  Processes <- FreeProcesses, Bodies <- FreeBodies, Inputs <- FreeInputs

\* Both instances make the same index.
LEMMA DisjointIndexAlike == \A str : Disjoint!IndexOf(str) = DisjointLog!IndexOf(str)
<1> TAKE str
<1>1. \A S : Disjoint!Cardinality(S) = DisjointLog!Cardinality(S)
  BY DEF Disjoint!Cardinality, DisjointLog!Cardinality
<1>2. Disjoint!Latest(str) = DisjointLog!Latest(str)
  BY DEF Disjoint!Latest, DisjointLog!Latest, Disjoint!TicketOf, DisjointLog!TicketOf,
         Disjoint!CheckpointOf, DisjointLog!CheckpointOf, Disjoint!Last, DisjointLog!Last
<1>3. \A S, n : Disjoint!Nth(S, n) = DisjointLog!Nth(S, n)
  BY DEF Disjoint!Nth, DisjointLog!Nth, Disjoint!Cardinality, DisjointLog!Cardinality
<1> DEFINE a == [n \in 1..Disjoint!Cardinality(Disjoint!Latest(str)) |->
                   str[Disjoint!Nth(Disjoint!Latest(str), n)]]
           b == [n \in 1..DisjointLog!Cardinality(DisjointLog!Latest(str)) |->
                   str[DisjointLog!Nth(DisjointLog!Latest(str), n)]]
<1>4. a = b
  BY <1>1, <1>2, <1>3
<1>5. Disjoint!IndexOf(str) =
        SubSeq(a, IF Len(a) > Maximum + 1 THEN Len(a) - (Maximum + 1) + 1 ELSE 1, Len(a))
  BY DEF Disjoint!IndexOf
<1>6. DisjointLog!IndexOf(str) =
        SubSeq(b, IF Len(b) > Maximum + 1 THEN Len(b) - (Maximum + 1) + 1 ELSE 1, Len(b))
  BY DEF DisjointLog!IndexOf
<1> QED BY <1>4, <1>5, <1>6

\* The log of the disjoint scenario is the one the theorems are about.
LEMMA DisjointIsLog == Disjoint!Spec => DisjointLog!Spec
<1>1. Disjoint!Init => DisjointLog!Init
  BY DEF Disjoint!Init, DisjointLog!Init
<1>2. [Disjoint!Next]_(Disjoint!vars) => [DisjointLog!Next]_(DisjointLog!vars)
  <2>1. ASSUME NEW p, Disjoint!Start(p) PROVE DisjointLog!Start(p)
    BY <2>1
       DEF Disjoint!Start, DisjointLog!Start, Disjoint!Jobs, DisjointLog!Jobs,
           Disjoint!Commands, DisjointLog!Commands, Disjoint!Active, DisjointLog!Active,
           Disjoint!MayOverlap, DisjointLog!MayOverlap, Disjoint!Goto, DisjointLog!Goto
  <2>2. ASSUME NEW p, Disjoint!Fail(p) PROVE DisjointLog!Fail(p)
    BY <2>2
       DEF Disjoint!Fail, DisjointLog!Fail, Disjoint!Readable, DisjointLog!Readable,
           Disjoint!Monotonic, DisjointLog!Monotonic, Disjoint!Continues, DisjointLog!Continues,
           Disjoint!Front, DisjointLog!Front, Disjoint!SessionLog, DisjointLog!SessionLog,
           Disjoint!OfSession, DisjointLog!OfSession, Disjoint!Newest, DisjointLog!Newest,
           Disjoint!CheckpointOf, DisjointLog!CheckpointOf, Disjoint!Last, DisjointLog!Last,
           Disjoint!TicketChain, DisjointLog!TicketChain, Disjoint!OfTicket,
           DisjointLog!OfTicket, Disjoint!TicketOf, DisjointLog!TicketOf, Disjoint!Runs,
           DisjointLog!Runs
  <2>3. ASSUME NEW p, Disjoint!Capture(p) PROVE DisjointLog!Capture(p)
    BY <2>3
       DEF Disjoint!Capture, DisjointLog!Capture, Disjoint!Runs, DisjointLog!Runs,
           Disjoint!Build, DisjointLog!Build, Disjoint!Readable, DisjointLog!Readable,
           Disjoint!Monotonic, DisjointLog!Monotonic, Disjoint!Continues, DisjointLog!Continues,
           Disjoint!Front, DisjointLog!Front, Disjoint!SessionLog, DisjointLog!SessionLog,
           Disjoint!OfSession, DisjointLog!OfSession, Disjoint!Newest, DisjointLog!Newest,
           Disjoint!CheckpointOf, DisjointLog!CheckpointOf, Disjoint!Last, DisjointLog!Last,
           Disjoint!TicketChain, DisjointLog!TicketChain, Disjoint!OfTicket,
           DisjointLog!OfTicket, Disjoint!TicketOf, DisjointLog!TicketOf, Disjoint!Goto,
           DisjointLog!Goto
  <2>4. ASSUME NEW p, Disjoint!Record(p) PROVE DisjointLog!Record(p)
    BY <2>4
       DEF Disjoint!Record, DisjointLog!Record, Disjoint!Runs, DisjointLog!Runs, Disjoint!Build,
           DisjointLog!Build, Disjoint!Readable, DisjointLog!Readable, Disjoint!Monotonic,
           DisjointLog!Monotonic, Disjoint!Continues, DisjointLog!Continues, Disjoint!Front,
           DisjointLog!Front, Disjoint!SessionLog, DisjointLog!SessionLog, Disjoint!OfSession,
           DisjointLog!OfSession, Disjoint!Newest, DisjointLog!Newest, Disjoint!CheckpointOf,
           DisjointLog!CheckpointOf, Disjoint!Last, DisjointLog!Last, Disjoint!TicketChain,
           DisjointLog!TicketChain, Disjoint!OfTicket, DisjointLog!OfTicket, Disjoint!TicketOf,
           DisjointLog!TicketOf, Disjoint!Goto, DisjointLog!Goto
  <2>5. ASSUME NEW p, Disjoint!Admit(p) PROVE DisjointLog!Admit(p)
    BY <2>5
       DEF Disjoint!Admit, DisjointLog!Admit, Disjoint!Goto, DisjointLog!Goto,
           Disjoint!Readable, DisjointLog!Readable, Disjoint!Monotonic, DisjointLog!Monotonic,
           Disjoint!Continues, DisjointLog!Continues, Disjoint!Front, DisjointLog!Front,
           Disjoint!SessionLog, DisjointLog!SessionLog, Disjoint!OfSession,
           DisjointLog!OfSession, Disjoint!Newest, DisjointLog!Newest, Disjoint!CheckpointOf,
           DisjointLog!CheckpointOf, Disjoint!Last, DisjointLog!Last, Disjoint!TicketChain,
           DisjointLog!TicketChain, Disjoint!OfTicket, DisjointLog!OfTicket, Disjoint!TicketOf,
           DisjointLog!TicketOf
  <2>6. ASSUME NEW p, Disjoint!AlreadyRecorded(p) PROVE DisjointLog!AlreadyRecorded(p)
    BY <2>6
       DEF Disjoint!AlreadyRecorded, DisjointLog!AlreadyRecorded, Disjoint!Goto,
           DisjointLog!Goto, Disjoint!Readable, DisjointLog!Readable, Disjoint!Monotonic,
           DisjointLog!Monotonic, Disjoint!Continues, DisjointLog!Continues, Disjoint!Front,
           DisjointLog!Front, Disjoint!SessionLog, DisjointLog!SessionLog, Disjoint!OfSession,
           DisjointLog!OfSession, Disjoint!Newest, DisjointLog!Newest, Disjoint!CheckpointOf,
           DisjointLog!CheckpointOf, Disjoint!Last, DisjointLog!Last, Disjoint!TicketChain,
           DisjointLog!TicketChain, Disjoint!OfTicket, DisjointLog!OfTicket, Disjoint!TicketOf,
           DisjointLog!TicketOf
  <2>7. ASSUME NEW p, Disjoint!NotMonotonic(p) PROVE DisjointLog!NotMonotonic(p)
    BY <2>7
       DEF Disjoint!NotMonotonic, DisjointLog!NotMonotonic, Disjoint!Goto, DisjointLog!Goto,
           Disjoint!Readable, DisjointLog!Readable, Disjoint!Monotonic, DisjointLog!Monotonic,
           Disjoint!Continues, DisjointLog!Continues, Disjoint!Front, DisjointLog!Front,
           Disjoint!SessionLog, DisjointLog!SessionLog, Disjoint!OfSession,
           DisjointLog!OfSession, Disjoint!Newest, DisjointLog!Newest, Disjoint!CheckpointOf,
           DisjointLog!CheckpointOf, Disjoint!Last, DisjointLog!Last, Disjoint!TicketChain,
           DisjointLog!TicketChain, Disjoint!OfTicket, DisjointLog!OfTicket, Disjoint!TicketOf,
           DisjointLog!TicketOf
  <2>8. ASSUME NEW p, Disjoint!AppendEvent(p) PROVE DisjointLog!AppendEvent(p)
    BY <2>8
       DEF Disjoint!AppendEvent, DisjointLog!AppendEvent, Disjoint!Goto, DisjointLog!Goto
  <2>9. ASSUME NEW p, Disjoint!TearLine(p) PROVE DisjointLog!TearLine(p)
    BY <2>9
       DEF Disjoint!TearLine, DisjointLog!TearLine, Disjoint!Goto, DisjointLog!Goto
  <2>10. ASSUME NEW p, Disjoint!WriteIndex(p) PROVE DisjointLog!WriteIndex(p)
    BY <2>10, DisjointIndexAlike
       DEF Disjoint!WriteIndex, DisjointLog!WriteIndex, Disjoint!Goto, DisjointLog!Goto
  <2>11. ASSUME NEW p, Disjoint!Load(p) PROVE DisjointLog!Load(p)
    BY <2>11
       DEF Disjoint!Load, DisjointLog!Load, Disjoint!Runs, DisjointLog!Runs, Disjoint!Readable,
           DisjointLog!Readable, Disjoint!Monotonic, DisjointLog!Monotonic, Disjoint!Continues,
           DisjointLog!Continues, Disjoint!Front, DisjointLog!Front, Disjoint!SessionLog,
           DisjointLog!SessionLog, Disjoint!OfSession, DisjointLog!OfSession, Disjoint!Newest,
           DisjointLog!Newest, Disjoint!CheckpointOf, DisjointLog!CheckpointOf, Disjoint!Last,
           DisjointLog!Last, Disjoint!TicketChain, DisjointLog!TicketChain, Disjoint!OfTicket,
           DisjointLog!OfTicket, Disjoint!TicketOf, DisjointLog!TicketOf, Disjoint!Goto,
           DisjointLog!Goto
  <2>12. ASSUME NEW p, Disjoint!Rebuild(p) PROVE DisjointLog!Rebuild(p)
    BY <2>12, DisjointIndexAlike
       DEF Disjoint!Rebuild, DisjointLog!Rebuild, Disjoint!Goto, DisjointLog!Goto
  <2>13. ASSUME NEW p, Disjoint!Resolve(p) PROVE DisjointLog!Resolve(p)
    BY <2>13
       DEF Disjoint!Resolve, DisjointLog!Resolve, Disjoint!Runs, DisjointLog!Runs,
           Disjoint!Readable, DisjointLog!Readable, Disjoint!Monotonic, DisjointLog!Monotonic,
           Disjoint!Continues, DisjointLog!Continues, Disjoint!Front, DisjointLog!Front,
           Disjoint!SessionLog, DisjointLog!SessionLog, Disjoint!OfSession,
           DisjointLog!OfSession, Disjoint!Newest, DisjointLog!Newest, Disjoint!CheckpointOf,
           DisjointLog!CheckpointOf, Disjoint!Last, DisjointLog!Last, Disjoint!TicketChain,
           DisjointLog!TicketChain, Disjoint!OfTicket, DisjointLog!OfTicket, Disjoint!TicketOf,
           DisjointLog!TicketOf, Disjoint!Goto, DisjointLog!Goto
  <2>14. ASSUME NEW p, Disjoint!Crash(p) PROVE DisjointLog!Crash(p)
    BY <2>14
       DEF Disjoint!Crash, DisjointLog!Crash, Disjoint!Active, DisjointLog!Active
  <2> QED BY <2>1, <2>2, <2>3, <2>4, <2>5, <2>6, <2>7, <2>8, <2>9, <2>10, <2>11, <2>12, <2>13, <2>14
         DEF Disjoint!Next, DisjointLog!Next, Disjoint!vars, DisjointLog!vars
<1> QED BY <1>1, <1>2, PTL DEF Disjoint!Spec, DisjointLog!Spec

\* The assumption of the theorems holds of the log of this scenario.
LEMMA DisjointAssumed == DisjointLog!ContinuityAssumption
BY ContinuityAssumption, ScenariosAssumption
   DEF DisjointLog!ContinuityAssumption, DisjointLog!Checkpoints, Checkpoints

\* Both instances make the same index.
LEMMA FreeIndexAlike == \A str : Free!IndexOf(str) = FreeLog!IndexOf(str)
<1> TAKE str
<1>1. \A S : Free!Cardinality(S) = FreeLog!Cardinality(S)
  BY DEF Free!Cardinality, FreeLog!Cardinality
<1>2. Free!Latest(str) = FreeLog!Latest(str)
  BY DEF Free!Latest, FreeLog!Latest, Free!TicketOf, FreeLog!TicketOf,
         Free!CheckpointOf, FreeLog!CheckpointOf, Free!Last, FreeLog!Last
<1>3. \A S, n : Free!Nth(S, n) = FreeLog!Nth(S, n)
  BY DEF Free!Nth, FreeLog!Nth, Free!Cardinality, FreeLog!Cardinality
<1> DEFINE a == [n \in 1..Free!Cardinality(Free!Latest(str)) |->
                   str[Free!Nth(Free!Latest(str), n)]]
           b == [n \in 1..FreeLog!Cardinality(FreeLog!Latest(str)) |->
                   str[FreeLog!Nth(FreeLog!Latest(str), n)]]
<1>4. a = b
  BY <1>1, <1>2, <1>3
<1>5. Free!IndexOf(str) =
        SubSeq(a, IF Len(a) > Maximum THEN Len(a) - Maximum + 1 ELSE 1, Len(a))
  BY DEF Free!IndexOf
<1>6. FreeLog!IndexOf(str) =
        SubSeq(b, IF Len(b) > Maximum THEN Len(b) - Maximum + 1 ELSE 1, Len(b))
  BY DEF FreeLog!IndexOf
<1> QED BY <1>4, <1>5, <1>6

\* The log of the free scenario is the one the theorems are about.
LEMMA FreeIsLog == Free!Spec => FreeLog!Spec
<1>1. Free!Init => FreeLog!Init
  BY DEF Free!Init, FreeLog!Init
<1>2. [Free!Next]_(Free!vars) => [FreeLog!Next]_(FreeLog!vars)
  <2>1. ASSUME NEW p, Free!Start(p) PROVE FreeLog!Start(p)
    BY <2>1
       DEF Free!Start, FreeLog!Start, Free!Jobs, FreeLog!Jobs, Free!Commands, FreeLog!Commands,
           Free!Active, FreeLog!Active, Free!MayOverlap, FreeLog!MayOverlap, Free!Goto,
           FreeLog!Goto
  <2>2. ASSUME NEW p, Free!Fail(p) PROVE FreeLog!Fail(p)
    BY <2>2
       DEF Free!Fail, FreeLog!Fail, Free!Readable, FreeLog!Readable, Free!Monotonic,
           FreeLog!Monotonic, Free!Continues, FreeLog!Continues, Free!Front, FreeLog!Front,
           Free!SessionLog, FreeLog!SessionLog, Free!OfSession, FreeLog!OfSession, Free!Newest,
           FreeLog!Newest, Free!CheckpointOf, FreeLog!CheckpointOf, Free!Last, FreeLog!Last,
           Free!TicketChain, FreeLog!TicketChain, Free!OfTicket, FreeLog!OfTicket,
           Free!TicketOf, FreeLog!TicketOf, Free!Runs, FreeLog!Runs
  <2>3. ASSUME NEW p, Free!Capture(p) PROVE FreeLog!Capture(p)
    BY <2>3
       DEF Free!Capture, FreeLog!Capture, Free!Runs, FreeLog!Runs, Free!Build, FreeLog!Build,
           Free!Readable, FreeLog!Readable, Free!Monotonic, FreeLog!Monotonic, Free!Continues,
           FreeLog!Continues, Free!Front, FreeLog!Front, Free!SessionLog, FreeLog!SessionLog,
           Free!OfSession, FreeLog!OfSession, Free!Newest, FreeLog!Newest, Free!CheckpointOf,
           FreeLog!CheckpointOf, Free!Last, FreeLog!Last, Free!TicketChain, FreeLog!TicketChain,
           Free!OfTicket, FreeLog!OfTicket, Free!TicketOf, FreeLog!TicketOf, Free!Goto,
           FreeLog!Goto
  <2>4. ASSUME NEW p, Free!Record(p) PROVE FreeLog!Record(p)
    BY <2>4
       DEF Free!Record, FreeLog!Record, Free!Runs, FreeLog!Runs, Free!Build, FreeLog!Build,
           Free!Readable, FreeLog!Readable, Free!Monotonic, FreeLog!Monotonic, Free!Continues,
           FreeLog!Continues, Free!Front, FreeLog!Front, Free!SessionLog, FreeLog!SessionLog,
           Free!OfSession, FreeLog!OfSession, Free!Newest, FreeLog!Newest, Free!CheckpointOf,
           FreeLog!CheckpointOf, Free!Last, FreeLog!Last, Free!TicketChain, FreeLog!TicketChain,
           Free!OfTicket, FreeLog!OfTicket, Free!TicketOf, FreeLog!TicketOf, Free!Goto,
           FreeLog!Goto
  <2>5. ASSUME NEW p, Free!Admit(p) PROVE FreeLog!Admit(p)
    BY <2>5
       DEF Free!Admit, FreeLog!Admit, Free!Goto, FreeLog!Goto, Free!Readable, FreeLog!Readable,
           Free!Monotonic, FreeLog!Monotonic, Free!Continues, FreeLog!Continues, Free!Front,
           FreeLog!Front, Free!SessionLog, FreeLog!SessionLog, Free!OfSession,
           FreeLog!OfSession, Free!Newest, FreeLog!Newest, Free!CheckpointOf,
           FreeLog!CheckpointOf, Free!Last, FreeLog!Last, Free!TicketChain, FreeLog!TicketChain,
           Free!OfTicket, FreeLog!OfTicket, Free!TicketOf, FreeLog!TicketOf
  <2>6. ASSUME NEW p, Free!AlreadyRecorded(p) PROVE FreeLog!AlreadyRecorded(p)
    BY <2>6
       DEF Free!AlreadyRecorded, FreeLog!AlreadyRecorded, Free!Goto, FreeLog!Goto,
           Free!Readable, FreeLog!Readable, Free!Monotonic, FreeLog!Monotonic, Free!Continues,
           FreeLog!Continues, Free!Front, FreeLog!Front, Free!SessionLog, FreeLog!SessionLog,
           Free!OfSession, FreeLog!OfSession, Free!Newest, FreeLog!Newest, Free!CheckpointOf,
           FreeLog!CheckpointOf, Free!Last, FreeLog!Last, Free!TicketChain, FreeLog!TicketChain,
           Free!OfTicket, FreeLog!OfTicket, Free!TicketOf, FreeLog!TicketOf
  <2>7. ASSUME NEW p, Free!NotMonotonic(p) PROVE FreeLog!NotMonotonic(p)
    BY <2>7
       DEF Free!NotMonotonic, FreeLog!NotMonotonic, Free!Goto, FreeLog!Goto, Free!Readable,
           FreeLog!Readable, Free!Monotonic, FreeLog!Monotonic, Free!Continues,
           FreeLog!Continues, Free!Front, FreeLog!Front, Free!SessionLog, FreeLog!SessionLog,
           Free!OfSession, FreeLog!OfSession, Free!Newest, FreeLog!Newest, Free!CheckpointOf,
           FreeLog!CheckpointOf, Free!Last, FreeLog!Last, Free!TicketChain, FreeLog!TicketChain,
           Free!OfTicket, FreeLog!OfTicket, Free!TicketOf, FreeLog!TicketOf
  <2>8. ASSUME NEW p, Free!AppendEvent(p) PROVE FreeLog!AppendEvent(p)
    BY <2>8
       DEF Free!AppendEvent, FreeLog!AppendEvent, Free!Goto, FreeLog!Goto
  <2>9. ASSUME NEW p, Free!TearLine(p) PROVE FreeLog!TearLine(p)
    BY <2>9
       DEF Free!TearLine, FreeLog!TearLine, Free!Goto, FreeLog!Goto
  <2>10. ASSUME NEW p, Free!WriteIndex(p) PROVE FreeLog!WriteIndex(p)
    BY <2>10, FreeIndexAlike
       DEF Free!WriteIndex, FreeLog!WriteIndex, Free!Goto, FreeLog!Goto
  <2>11. ASSUME NEW p, Free!Load(p) PROVE FreeLog!Load(p)
    BY <2>11
       DEF Free!Load, FreeLog!Load, Free!Runs, FreeLog!Runs, Free!Readable, FreeLog!Readable,
           Free!Monotonic, FreeLog!Monotonic, Free!Continues, FreeLog!Continues, Free!Front,
           FreeLog!Front, Free!SessionLog, FreeLog!SessionLog, Free!OfSession,
           FreeLog!OfSession, Free!Newest, FreeLog!Newest, Free!CheckpointOf,
           FreeLog!CheckpointOf, Free!Last, FreeLog!Last, Free!TicketChain, FreeLog!TicketChain,
           Free!OfTicket, FreeLog!OfTicket, Free!TicketOf, FreeLog!TicketOf, Free!Goto,
           FreeLog!Goto
  <2>12. ASSUME NEW p, Free!Rebuild(p) PROVE FreeLog!Rebuild(p)
    BY <2>12, FreeIndexAlike
       DEF Free!Rebuild, FreeLog!Rebuild, Free!Goto, FreeLog!Goto
  <2>13. ASSUME NEW p, Free!Resolve(p) PROVE FreeLog!Resolve(p)
    BY <2>13
       DEF Free!Resolve, FreeLog!Resolve, Free!Runs, FreeLog!Runs, Free!Readable,
           FreeLog!Readable, Free!Monotonic, FreeLog!Monotonic, Free!Continues,
           FreeLog!Continues, Free!Front, FreeLog!Front, Free!SessionLog, FreeLog!SessionLog,
           Free!OfSession, FreeLog!OfSession, Free!Newest, FreeLog!Newest, Free!CheckpointOf,
           FreeLog!CheckpointOf, Free!Last, FreeLog!Last, Free!TicketChain, FreeLog!TicketChain,
           Free!OfTicket, FreeLog!OfTicket, Free!TicketOf, FreeLog!TicketOf, Free!Goto,
           FreeLog!Goto
  <2>14. ASSUME NEW p, Free!Crash(p) PROVE FreeLog!Crash(p)
    BY <2>14
       DEF Free!Crash, FreeLog!Crash, Free!Active, FreeLog!Active
  <2> QED BY <2>1, <2>2, <2>3, <2>4, <2>5, <2>6, <2>7, <2>8, <2>9, <2>10, <2>11, <2>12, <2>13, <2>14
         DEF Free!Next, FreeLog!Next, Free!vars, FreeLog!vars
<1> QED BY <1>1, <1>2, PTL DEF Free!Spec, FreeLog!Spec

\* And of this one.
LEMMA FreeAssumed == FreeLog!ContinuityAssumption
BY ContinuityAssumption, ScenariosAssumption
   DEF FreeLog!ContinuityAssumption, FreeLog!Checkpoints, Checkpoints

------------------------------------------------------------------------------
(* The scenarios.  Which one a behaviour is of is settled at its start.    *)

TakesTurns == scenario = "serial"
KeepsApart == scenario = "disjoint"
RunsFree == scenario = "free"

scenarioVars == <<scenario, vars>>

\* A step is one of the log of the scenario.
LEMMA ScenarioStays ==
  ASSUME [ScenariosNext]_scenarioVars
  PROVE  /\ TakesTurns <=> TakesTurns'
         /\ KeepsApart <=> KeepsApart'
         /\ RunsFree <=> RunsFree'
         /\ TakesTurns => [Next]_vars
         /\ KeepsApart => [Disjoint!Next]_(Disjoint!vars)
         /\ RunsFree => [Free!Next]_(Free!vars)
         /\ [Next]_vars \/ [Disjoint!Next]_vars \/ [Free!Next]_vars
BY DEF ScenariosNext, RunSerial, RunDisjoint, RunFree, scenarioVars, vars, TakesTurns,
       KeepsApart, RunsFree, Disjoint!vars, Free!vars

LEMMA ScenarioStarts ==
  ASSUME ScenariosInit
  PROVE  /\ TakesTurns => Init
         /\ KeepsApart => Disjoint!Init
         /\ RunsFree => Free!Init
         /\ TakesTurns \/ KeepsApart \/ RunsFree
BY DEF ScenariosInit, TakesTurns, KeepsApart, RunsFree

\* A behaviour is one of the log of its scenario.
LEMMA OneScenario ==
  ScenariosSpec => /\ []~TakesTurns \/ Spec
                   /\ []~KeepsApart \/ DisjointLog!Spec
                   /\ []~RunsFree \/ FreeLog!Spec
                   /\ Spec \/ DisjointLog!Spec \/ FreeLog!Spec
<1>1. ScenariosInit => /\ TakesTurns => Init
                       /\ KeepsApart => Disjoint!Init
                       /\ RunsFree => Free!Init
                       /\ TakesTurns \/ KeepsApart \/ RunsFree
  BY ScenarioStarts
<1>2. [ScenariosNext]_scenarioVars =>
        /\ TakesTurns <=> TakesTurns'
        /\ KeepsApart <=> KeepsApart'
        /\ RunsFree <=> RunsFree'
        /\ TakesTurns => [Next]_vars
        /\ KeepsApart => [Disjoint!Next]_(Disjoint!vars)
        /\ RunsFree => [Free!Next]_(Free!vars)
  BY ScenarioStays
<1>3. ScenariosSpec => /\ []~TakesTurns \/ Spec
                       /\ []~KeepsApart \/ Disjoint!Spec
                       /\ []~RunsFree \/ Free!Spec
                       /\ Spec \/ Disjoint!Spec \/ Free!Spec
  BY <1>1, <1>2, PTL DEF ScenariosSpec, scenarioVars, Spec, Disjoint!Spec, Free!Spec
<1> QED BY <1>3, DisjointIsLog, FreeIsLog, PTL

LEMMA Assumed ==
  /\ Discipline = "serial" /\ Discipline # "none" /\ CutsAreSeen
  /\ DisjointLog!CutsAreSeen /\ FreeLog!CutsAreSeen
BY ScenariosAssumption DEF CutsAreSeen, DisjointLog!CutsAreSeen, FreeLog!CutsAreSeen

\* Each discipline is enough for what the log promises under it: with turns, a stream readable
\* up to a cut line, what was recorded there once, and a current index in the end; with a
\* ticket and session each, a stream that can always be read and answers that stay on their
\* chain; with none, an index that invents nothing.
THEOREM DisciplineIsEnough == ScenariosSpec => []DisciplineSuffices
<1>1. Spec => [](ReadableUntilCut /\ RecordedOnce /\ IndexIsCurrent)
  BY Assumed, StreamStaysReadable, RecordedIsThereOnce, IndexBecomesCurrent, PTL
<1>2. DisjointLog!Spec => []DisjointLog!Rebuildable
  BY DisjointAssumed, DisjointLog!IndexIsRebuildable
<1>3. DisjointLog!Spec => []DisjointLog!AnswersOnChain
  BY DisjointAssumed, DisjointLog!AnswersStayOnChain
<1>4. FreeLog!Spec => []FreeLog!IndexIsProjection
  BY FreeAssumed, Assumed, FreeLog!IndexInventsNothing
<1>5. DisjointLog!Rebuildable => Disjoint!Rebuildable
  BY DEF DisjointLog!Rebuildable, Disjoint!Rebuildable,
         Disjoint!Readable, DisjointLog!Readable,
         Disjoint!Monotonic, DisjointLog!Monotonic, Disjoint!Continues, DisjointLog!Continues,
         Disjoint!Front, DisjointLog!Front, Disjoint!SessionLog, DisjointLog!SessionLog,
         Disjoint!OfSession, DisjointLog!OfSession, Disjoint!Newest, DisjointLog!Newest,
         Disjoint!CheckpointOf, DisjointLog!CheckpointOf, Disjoint!Last, DisjointLog!Last,
         Disjoint!TicketChain, DisjointLog!TicketChain, Disjoint!OfTicket,
         DisjointLog!OfTicket, Disjoint!TicketOf, DisjointLog!TicketOf
<1>6. DisjointLog!AnswersOnChain => Disjoint!AnswersOnChain
  BY DEF DisjointLog!AnswersOnChain, Disjoint!AnswersOnChain,
         Disjoint!IsPrefix, DisjointLog!IsPrefix, Disjoint!Newest, DisjointLog!Newest,
         Disjoint!CheckpointOf, DisjointLog!CheckpointOf, Disjoint!Last, DisjointLog!Last,
         Disjoint!TicketChain, DisjointLog!TicketChain, Disjoint!OfTicket,
         DisjointLog!OfTicket, Disjoint!TicketOf, DisjointLog!TicketOf
<1>7. FreeLog!IndexIsProjection => Free!IndexIsProjection
  BY DEF FreeLog!IndexIsProjection, Free!IndexIsProjection, Free!TicketOf, FreeLog!TicketOf,
         Free!CheckpointOf, FreeLog!CheckpointOf, Free!Last, FreeLog!Last
<1>8. /\ ~TakesTurns \/ (ReadableUntilCut /\ RecordedOnce /\ IndexIsCurrent)
      /\ ~KeepsApart \/ (Disjoint!Rebuildable /\ Disjoint!AnswersOnChain)
      /\ ~RunsFree \/ Free!IndexIsProjection
      => DisciplineSuffices
  BY DEF DisciplineSuffices, TakesTurns, KeepsApart, RunsFree
<1> QED BY <1>1, <1>2, <1>3, <1>4, <1>5, <1>6, <1>7, <1>8, OneScenario, PTL

\* No step loses or changes a line, in any scenario; with turns, no checkpoint of a ticket is
\* taken back or forked.
THEOREM LogOnlyGrows == ScenariosSpec => LogGrows
<1>1. Spec => AppendOnly /\ ChainsGrow
  BY Assumed, LinesStay, ChainsOnlyGrow
<1>2. DisjointLog!Spec => DisjointLog!AppendOnly
  BY DisjointAssumed, DisjointLog!LinesStay
<1>3. FreeLog!Spec => FreeLog!AppendOnly
  BY FreeAssumed, FreeLog!LinesStay
<1>4. [DisjointLog!IsPrefix(stream, stream') /\ (torn => torn')]_(DisjointLog!vars) =>
        [IsPrefix(stream, stream') /\ (torn => torn')]_vars
  BY DEF DisjointLog!IsPrefix, IsPrefix, DisjointLog!vars, vars
<1>5. [FreeLog!IsPrefix(stream, stream') /\ (torn => torn')]_(FreeLog!vars) =>
        [IsPrefix(stream, stream') /\ (torn => torn')]_vars
  BY DEF FreeLog!IsPrefix, IsPrefix, FreeLog!vars, vars
<1>6. ScenariosSpec => AppendOnly
  <2>1. DisjointLog!AppendOnly => AppendOnly
    BY <1>4, PTL DEF DisjointLog!AppendOnly, AppendOnly
  <2>2. FreeLog!AppendOnly => AppendOnly
    BY <1>5, PTL DEF FreeLog!AppendOnly, AppendOnly
  <2> QED BY <1>1, <1>2, <1>3, <2>1, <2>2, OneScenario, PTL
<1>7. ScenariosSpec =>
        [][scenario = "serial" =>
             \A t \in Tickets : IsPrefix(TicketChain(stream, t), TicketChain(stream', t))]_vars
  <2>1. ~TakesTurns =>
          [scenario = "serial" =>
             \A t \in Tickets : IsPrefix(TicketChain(stream, t), TicketChain(stream', t))]_vars
    BY DEF TakesTurns
  <2>2. [\A t \in Tickets : IsPrefix(TicketChain(stream, t), TicketChain(stream', t))]_vars =>
          [scenario = "serial" =>
             \A t \in Tickets : IsPrefix(TicketChain(stream, t), TicketChain(stream', t))]_vars
    OBVIOUS
  <2> QED BY <1>1, <2>1, <2>2, OneScenario, PTL DEF ChainsGrow
<1> QED BY <1>6, <1>7, PTL DEF LogGrows

\* A rebuild that met no writer repairs the index, whatever crashes and lost updates of
\* concurrent invocations did to it.
THEOREM RebuildsMend == ScenariosSpec => RebuildMends
<1> DEFINE Repairs(p) == pc[p] = "loaded" /\ pc'[p] = "rebuilt" /\ read[p] = stream
           Mends == [scenario = "disjoint" =>
                       \A p \in Processes : Repairs(p) => index' = Disjoint!IndexOf(stream')]_vars
           Logged == [\A p \in Processes :
                        Repairs(p) => index' = DisjointLog!IndexOf(stream')]_(DisjointLog!vars)
<1>1. DisjointLog!Spec => DisjointLog!RebuildRepairs
  BY DisjointAssumed, DisjointLog!QuietRebuildsRepair
<1>2. Logged => Mends
  BY DisjointIndexAlike DEF DisjointLog!vars, vars
<1>3. ~KeepsApart => Mends
  BY DEF KeepsApart
<1>4. DisjointLog!RebuildRepairs => RebuildMends
  BY <1>2, PTL DEF DisjointLog!RebuildRepairs, RebuildMends
<1>5. []~KeepsApart => RebuildMends
  BY <1>3, PTL DEF RebuildMends
<1> QED BY <1>1, <1>4, <1>5, OneScenario, PTL
=============================================================================
