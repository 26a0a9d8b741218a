--------------------------- MODULE WorkContinuity ---------------------------
(***************************************************************************)
(* The local continuity log of .governance/work_continuity.py: an append   *)
(* only JSONL stream of checkpoint events and an index of the newest       *)
(* checkpoint of each ticket, replaced atomically.                         *)
(*                                                                         *)
(* A process is one invocation of the command line: capture and record add *)
(* an event, rebuild-index writes the index again, resolve reads.  No lock *)
(* protects the stream; what callers promise each other is Discipline.     *)
(*                                                                         *)
(* References are digests of the content, the previous reference included, *)
(* so a reference stands for the whole chain it ends: a checkpoint is its  *)
(* ticket and the bodies of the chain up to it (its sequence number is the *)
(* length), an event is its session and the checkpoints logged up to it.   *)
(***************************************************************************)
EXTENDS Naturals, SequencesExt

CONSTANTS
    Processes,      \* invocations of work_continuity.py
    Tickets,
    Sessions,
    Bodies,         \* contents a checkpoint can capture
    Inputs,         \* checkpoints in files given to record
    Maximum,        \* checkpointIndexMaxEntries
    Discipline,     \* "serial", "disjoint" or "none"
    Faults,         \* a subset of {"crash", "torn"}
    None            \* no event, no checkpoint, no command

Checkpoints == [ticket : Tickets, chain : Seq(Bodies) \ {<<>>}]
Events == [session : Sessions, log : Seq(Checkpoints) \ {<<>>}]

ASSUME ContinuityAssumption ==
    /\ Inputs \subseteq Checkpoints
    /\ Maximum \in Nat \ {0}
    /\ Discipline \in {"serial", "disjoint", "none"}
    /\ Faults \subseteq {"crash", "torn"}

VARIABLES
    stream,     \* complete lines of the event stream
    torn,       \* TRUE: an incomplete or garbled line follows them
    index,      \* entries of the checkpoint index, oldest first
    pc,         \* Processes -> where the invocation is
    job,        \* Processes -> its command, ticket and session, None before it starts
    event,      \* Processes -> the event it built, or None
    read,       \* Processes -> the stream it read last
    answer      \* Processes -> the checkpoint resolve returned, or None

vars == <<stream, torn, index, pc, job, event, read, answer>>

Commands == {"capture", "record", "rebuild", "resolve"}
Active == {"started", "built", "admitted", "appended", "loaded"}
Ended == {"recorded", "already", "rebuilt", "resolved", "failed", "crashed"}

Jobs == [command : Commands, ticket : Tickets, session : Sessions]

-----------------------------------------------------------------------------
(***************************************************************************)
(* Reading a stream: event_state.                                          *)
(***************************************************************************)

CheckpointOf(e) == Last(e.log)
TicketOf(e) == CheckpointOf(e).ticket

Newest(I) == CHOOSE i \in I : \A j \in I : j <= i

OfSession(str, s) == {i \in DOMAIN str : str[i].session = s}
OfTicket(str, t) == {i \in DOMAIN str : TicketOf(str[i]) = t}

\* What the next event of a session, and the next checkpoint of a ticket,
\* have to name as previous.
SessionLog(str, s) ==
    IF OfSession(str, s) = {} THEN <<>> ELSE str[Newest(OfSession(str, s))].log
TicketChain(str, t) ==
    IF OfTicket(str, t) = {} THEN <<>>
    ELSE CheckpointOf(str[Newest(OfTicket(str, t))]).chain

\* e continues its session and its ticket after the events of str.
Continues(str, e) ==
    /\ Front(e.log) = SessionLog(str, e.session)
    /\ Front(CheckpointOf(e).chain) = TicketChain(str, TicketOf(e))

\* event_state accepts: both chains are monotonic at every line.  A repeated
\* event reference breaks the chain of its session.
Monotonic(str) == \A i \in DOMAIN str : Continues(SubSeq(str, 1, i - 1), str[i])

Readable == ~torn /\ Monotonic(stream)

\* index_from_events: the newest event of each ticket, in their order, the last Maximum of
\* them.
Latest(str) ==
    {i \in DOMAIN str : \A k \in DOMAIN str : TicketOf(str[k]) = TicketOf(str[i]) => k <= i}

\* The n-th smallest member of S.
Nth(S, n) == CHOOSE i \in S : Cardinality({k \in S : k <= i}) = n

IndexOf(str) ==
    LET newest == [n \in 1..Cardinality(Latest(str)) |-> str[Nth(Latest(str), n)]]
    IN  SubSeq(newest, IF Len(newest) > Maximum THEN Len(newest) - Maximum + 1 ELSE 1, Len(newest))

-----------------------------------------------------------------------------

Init ==
    /\ stream = <<>>
    /\ torn = FALSE
    /\ index = <<>>
    /\ pc = [p \in Processes |-> "idle"]
    /\ job = [p \in Processes |-> None]
    /\ event = [p \in Processes |-> None]
    /\ read = [p \in Processes |-> <<>>]
    /\ answer = [p \in Processes |-> None]

Goto(p, from, to) == pc[p] = from /\ pc' = [pc EXCEPT ![p] = to]

\* Two commands that may overlap under the callers' discipline.
MayOverlap(j, k) ==
    \/ Discipline = "none"
    \/ /\ Discipline = "disjoint"
       /\ j.ticket # k.ticket
       /\ j.session # k.session

Start(p) ==
    /\ \E j \in Jobs :
          /\ \A q \in Processes : pc[q] \in Active => MayOverlap(j, job[q])
          /\ job' = [job EXCEPT ![p] = j]
    /\ Goto(p, "idle", "started")
    /\ UNCHANGED <<stream, torn, index, event, read, answer>>

\* p has started and its command is c.
Runs(p, c) == pc[p] = "started" /\ job[p].command = c

\* The stream, the manifest, the intent or Git refuse.
Fail(p) ==
    /\ \/ pc[p] \in {"started", "built"} /\ ~Readable
       \/ Runs(p, "capture")
       \/ /\ Runs(p, "resolve")
          /\ OfTicket(stream, job[p].ticket) = {}
    /\ pc' = [pc EXCEPT ![p] = "failed"]
    /\ UNCHANGED <<stream, torn, index, job, event, read, answer>>

\* The event is built on the newest event of the session.
Build(p, c) ==
    /\ Readable
    /\ Goto(p, "started", "built")
    /\ event' = [event EXCEPT ![p] =
                    [session |-> job[p].session,
                     log |-> Append(SessionLog(stream, job[p].session), c)]]
    /\ UNCHANGED <<stream, torn, index, job, read, answer>>

\* capture: a new checkpoint on top of the newest one of the ticket.
Capture(p) ==
    /\ Runs(p, "capture")
    /\ \E b \in Bodies :
          Build(p, [ticket |-> job[p].ticket,
                    chain |-> Append(TicketChain(stream, job[p].ticket), b)])

\* record: a checkpoint from a file, as it is.
Record(p) ==
    /\ Runs(p, "record")
    /\ \E c \in Inputs : c.ticket = job[p].ticket /\ Build(p, c)

\* Mutant: the candidate is not validated before it is appended.
AdmitUnchecked(p) ==
    /\ Goto(p, "built", "admitted")
    /\ Readable
    /\ read' = [read EXCEPT ![p] = stream]
    /\ UNCHANGED <<stream, torn, index, job, event, answer>>

\* commit_event reads the stream again and validates the candidate.
Admit(p) ==
    /\ Goto(p, "built", "admitted")
    /\ Readable
    /\ Continues(stream, event[p])
    /\ read' = [read EXCEPT ![p] = stream]
    /\ UNCHANGED <<stream, torn, index, job, event, answer>>

\* The same event, reference and content, is in the stream.
AlreadyRecorded(p) ==
    /\ Goto(p, "built", "already")
    /\ Readable
    /\ \E i \in DOMAIN stream : stream[i] = event[p]
    /\ UNCHANGED <<stream, torn, index, job, event, read, answer>>

\* The chain moved on since the event was built, or the file does not fit.
NotMonotonic(p) ==
    /\ Goto(p, "built", "failed")
    /\ Readable
    /\ ~Continues(stream, event[p])
    /\ \A i \in DOMAIN stream : stream[i] # event[p]
    /\ UNCHANGED <<stream, torn, index, job, event, read, answer>>

\* Mutant: the stream is written again as a whole, from what was read.
RewriteStream(p) ==
    /\ Goto(p, "admitted", "appended")
    /\ stream' = Append(read[p], event[p])
    /\ UNCHANGED <<torn, index, job, event, read, answer>>

\* append_event: one write with O_APPEND, at whatever is the end by now.  After
\* an incomplete line it only makes that line longer.
AppendEvent(p) ==
    /\ Goto(p, "admitted", "appended")
    /\ stream' = IF torn THEN stream ELSE Append(stream, event[p])
    /\ UNCHANGED <<torn, index, job, event, read, answer>>

\* A kill or a full disk in the middle of the write.
TearLine(p) ==
    /\ "torn" \in Faults
    /\ Goto(p, "admitted", "crashed")
    /\ torn' = TRUE
    /\ UNCHANGED <<stream, index, job, event, read, answer>>

\* write_index replaces the index by the one of the stream that was read and
\* the own event.
WriteIndex(p) ==
    /\ Goto(p, "appended", "recorded")
    /\ index' = IndexOf(Append(read[p], event[p]))
    /\ UNCHANGED <<stream, torn, job, event, read, answer>>

\* rebuild-index: read, then replace.
Load(p) ==
    /\ Runs(p, "rebuild")
    /\ Readable
    /\ Goto(p, "started", "loaded")
    /\ read' = [read EXCEPT ![p] = stream]
    /\ UNCHANGED <<stream, torn, index, job, event, answer>>

\* Mutant: an index that exists is taken for a good one.
RebuildIfMissing(p) ==
    /\ Goto(p, "loaded", "rebuilt")
    /\ index' = IF index = <<>> THEN IndexOf(read[p]) ELSE index
    /\ UNCHANGED <<stream, torn, job, event, read, answer>>

Rebuild(p) ==
    /\ Goto(p, "loaded", "rebuilt")
    /\ index' = IndexOf(read[p])
    /\ UNCHANGED <<stream, torn, job, event, read, answer>>

\* resolve: the newest checkpoint of the ticket.
Resolve(p) ==
    /\ Runs(p, "resolve")
    /\ Readable
    /\ OfTicket(stream, job[p].ticket) # {}
    /\ Goto(p, "started", "resolved")
    /\ answer' = [answer EXCEPT ![p] =
                    CheckpointOf(stream[Newest(OfTicket(stream, job[p].ticket))])]
    /\ UNCHANGED <<stream, torn, index, job, event, read>>

Crash(p) ==
    /\ "crash" \in Faults
    /\ pc[p] \in Active
    /\ pc' = [pc EXCEPT ![p] = "crashed"]
    /\ UNCHANGED <<stream, torn, index, job, event, read, answer>>

Next ==
    \E p \in Processes :
        \/ Start(p) \/ Fail(p)
        \/ Capture(p) \/ Record(p)
        \/ Admit(p) \/ AlreadyRecorded(p) \/ NotMonotonic(p)
        \/ AppendEvent(p) \/ TearLine(p) \/ WriteIndex(p)
        \/ Load(p) \/ Rebuild(p) \/ Resolve(p)
        \/ Crash(p)

Spec == Init /\ [][Next]_vars

-----------------------------------------------------------------------------
(***************************************************************************)
(* Properties.                                                             *)
(***************************************************************************)

TypeOK ==
    /\ stream \in Seq(Events)
    /\ torn \in BOOLEAN
    /\ index \in Seq(Events)
    /\ pc \in [Processes -> Active \cup Ended \cup {"idle"}]
    /\ job \in [Processes -> Jobs \cup {None}]
    /\ event \in [Processes -> Events \cup {None}]
    /\ read \in [Processes -> Seq(Events)]
    /\ answer \in [Processes -> Checkpoints \cup {None}]

\* Module docstring: the index "can always be rebuilt from the stream": every
\* later capture, resolve and rebuild can read it.
Rebuildable == Readable

\* The chains of the lines stay readable, whatever happens to the last line.
ReadableUntilCut == torn \/ Monotonic(stream)

\* "The JSONL stream is append-only": no step loses or changes a line.
AppendOnly == [][IsPrefix(stream, stream') /\ (torn => torn')]_vars

\* The index never invents: its entries are events of the stream, one for
\* each ticket, and not more than Maximum.
IndexIsProjection ==
    /\ \A i \in DOMAIN index : \E k \in DOMAIN stream : stream[k] = index[i]
    /\ \A i, k \in DOMAIN index : TicketOf(index[i]) = TicketOf(index[k]) => i = k
    /\ Len(index) <= Maximum

\* An event reported as recorded, or as recorded already, is in the stream,
\* and no event is there twice.
RecordedOnce ==
    /\ \A p \in Processes : pc[p] \in {"recorded", "already"} =>
          \E i \in DOMAIN stream : stream[i] = event[p]
    /\ \A i, k \in DOMAIN stream : stream[i] = stream[k] => i = k

\* After the last invocation has ended, the index shows the newest checkpoint
\* of each of the tickets it has room for, unless one of them was killed
\* between its line and its index.
IndexIsCurrent ==
    (\A p \in Processes : pc[p] \notin Active \cup {"crashed"}) => index = IndexOf(stream)

\* The checkpoints of a ticket are a chain that only grows: no checkpoint is
\* taken back, replaced, or forked.
ChainsGrow ==
    [][\A t \in Tickets : IsPrefix(TicketChain(stream, t), TicketChain(stream', t))]_vars

\* resolve never answers with a checkpoint older than one an earlier resolve
\* has answered with, and never with one that is not on the ticket's chain.
AnswersOnChain ==
    \A p \in Processes : answer[p] # None =>
        IsPrefix(answer[p].chain, TicketChain(stream, answer[p].ticket))

\* A rebuild that met no concurrent writer repairs whatever crashes and lost
\* updates did to the index.
RebuildRepairs ==
    [][\A p \in Processes :
         pc[p] = "loaded" /\ pc'[p] = "rebuilt" /\ read[p] = stream
            => index' = IndexOf(stream')]_vars
=============================================================================
