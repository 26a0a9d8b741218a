------------------------- MODULE ContinuityScenarios ------------------------
(***************************************************************************)
(* The continuity log under the three disciplines its callers may follow:  *)
(* one invocation at a time (killed, and with torn lines), one ticket and  *)
(* session each, and none.  A behaviour is of one of them.  The constants  *)
(* are those of the first; the others replace some.                        *)
(***************************************************************************)
EXTENDS WorkContinuity

CONSTANTS
    FreeProcesses,  \* without discipline: the invocations
    FreeBodies,     \* and the contents
    FreeInputs

VARIABLE scenario

ASSUME ScenariosAssumption ==
    /\ Discipline = "serial"
    /\ FreeInputs \subseteq [ticket : Tickets, chain : Seq(FreeBodies) \ {<<>>}]

Disjoint == INSTANCE WorkContinuity
              WITH Discipline <- "disjoint", Faults <- {"crash"}, Maximum <- Maximum + 1
Free == INSTANCE WorkContinuity
          WITH Discipline <- "none", Faults <- {"crash"},
               Processes <- FreeProcesses, Bodies <- FreeBodies, Inputs <- FreeInputs

ScenariosInit ==
    \/ scenario = "serial" /\ Init
    \/ scenario = "disjoint" /\ Disjoint!Init
    \/ scenario = "free" /\ Free!Init

RunSerial == scenario = "serial" /\ Next /\ UNCHANGED scenario
RunDisjoint == scenario = "disjoint" /\ Disjoint!Next /\ UNCHANGED scenario
RunFree == scenario = "free" /\ Free!Next /\ UNCHANGED scenario

ScenariosNext == RunSerial \/ RunDisjoint \/ RunFree

ScenariosSpec == ScenariosInit /\ [][ScenariosNext]_<<scenario, vars>>

-----------------------------------------------------------------------------
\* What each discipline is enough for.  Taking turns: the chains are readable up to a line
\* that was cut, what was reported as recorded is there once, and the index is current when
\* all have ended.  A ticket and session each: the stream can always be read, and an answer
\* stays on its chain.  None: the index still invents nothing.
DisciplineSuffices ==
    /\ scenario = "serial" => ReadableUntilCut /\ RecordedOnce /\ IndexIsCurrent
    /\ scenario = "disjoint" => Disjoint!Rebuildable /\ Disjoint!AnswersOnChain
    /\ scenario = "free" => Free!IndexIsProjection

\* No step loses or changes a line, under any discipline; with turns, no checkpoint of a
\* ticket is taken back or forked.
LogGrows ==
    /\ AppendOnly
    /\ [][scenario = "serial" =>
            \A t \in Tickets : IsPrefix(TicketChain(stream, t), TicketChain(stream', t))]_vars

\* A rebuild that met no writer of its own ticket's stream repairs the index, whatever
\* crashes and lost updates of concurrent invocations did to it (rebuild_index).
RebuildMends ==
    [][scenario = "disjoint" => \A p \in Processes :
         pc[p] = "loaded" /\ pc'[p] = "rebuilt" /\ read[p] = stream
            => index' = Disjoint!IndexOf(stream')]_vars
=============================================================================
