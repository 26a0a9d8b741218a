----------------------------- MODULE TicketCurrency ---------------------------
(***************************************************************************)
(* poa/ticket-currency: whether a ticket is still of use.  The decision is   *)
(* taken for one ticket after the other with the tickets that are observed    *)
(* then; who asks (external) cancels what it recommends to cancel.            *)
(***************************************************************************)
EXTENDS FiniteSets

CONSTANTS Tickets, Unnamed   \* ids, and no id at all

VARIABLES
  tickets,    \* status of each ticket and the tickets its labels name
  cancelled   \* history: cancelled tickets with the reason

currencyVars == <<tickets, cancelled>>

Named == Tickets \cup {Unnamed}

CurrencyInit ==
  /\ tickets = [t \in Tickets |-> [status |-> "none", successor |-> Unnamed, source |-> Unnamed]]
  /\ cancelled = {}

\* The labels source: and superseded-by: are given when a ticket is opened; none names itself.
Label ==
  /\ \A t \in Tickets : tickets[t].status = "none"
  /\ \E successor, source \in [Tickets -> Named], done \in SUBSET Tickets :
       /\ \A t \in Tickets : t \notin {successor[t], source[t]}
       /\ tickets' = [t \in Tickets |->
            [status |-> IF t \in done THEN "done" ELSE "open", successor |-> successor[t],
             source |-> source[t]]]
  /\ UNCHANGED cancelled

Live(t) == tickets[t].status = "open"

\* Mutant: a cancelled successor stands for the work as a live one does.
SupersededByAny(t, observed) ==
  LET s == tickets[t].successor IN
  IF s = Unnamed THEN "no" ELSE IF s \in observed THEN "yes" ELSE "unknown"

\* The explicit successor: it stands for the work unless it was cancelled itself.
Superseded(t, observed) ==
  LET s == tickets[t].successor IN
  IF s = Unnamed THEN "no"
  ELSE IF s \notin observed THEN "unknown"
  ELSE IF tickets[s].status # "canceled" THEN "yes" ELSE "no"

\* ticketCurrencyDecision of a ticket that is active; what is not observed is uncertain.
Currency(t, observed) ==
  LET s == Superseded(t, observed) source == tickets[t].source IN
  IF s = "yes" THEN "superseded"
  ELSE IF s = "unknown" THEN "uncertain"
  ELSE IF source = Unnamed THEN "current"
  ELSE IF source \notin observed THEN "uncertain"
  ELSE IF ~Live(source) THEN "source over" ELSE "current"

Sweep(t) ==
  /\ Live(t)
  /\ \E observed \in {S \in SUBSET Tickets : t \in S} :
       LET answer == Currency(t, observed) IN
       /\ answer \in {"superseded", "source over"}
       /\ tickets' = [tickets EXCEPT ![t].status = "canceled"]
       /\ cancelled' = cancelled \cup {<<t, answer>>}

CloseTicket(t) ==
  /\ Live(t)
  /\ tickets' = [tickets EXCEPT ![t].status = "done"]
  /\ UNCHANGED cancelled

CurrencyNext == Label \/ \E t \in Tickets : Sweep(t) \/ CloseTicket(t)

------------------------------------------------------------------------------
\* Tickets that name each other as successors are never all cancelled for it: of those the
\* last one left has only cancelled successors, and stays, or was done.
WorkIsNotLost ==
  \A S \in (SUBSET Tickets) \ {{}} :
    ~ /\ \A t \in S : <<t, "superseded">> \in cancelled
      /\ \A t \in S : tickets[t].successor \in S
==============================================================================
