-------------------------- MODULE PublicationGate ---------------------------
(***************************************************************************)
(* What a change lease promises about publication, without revisions,      *)
(* tokens, requests or receipts: work ends or is frozen at one head, the   *)
(* frozen head stays what it is, and nothing lands but the frozen head.    *)
(***************************************************************************)
CONSTANTS
    Heads,      \* commits
    None        \* no commit

VARIABLES
    stage,      \* "working", "frozen", "landed" or "ended"
    head        \* the commit that is frozen or has landed, or None

Init == stage = "working" /\ head = None

Freeze(h) ==
    /\ stage = "working"
    /\ stage' = "frozen"
    /\ head' = h

Land ==
    /\ stage = "frozen"
    /\ stage' = "landed"
    /\ UNCHANGED head

\* Closed after landing, or given up before it.
End ==
    /\ stage # "ended"
    /\ stage' = "ended"
    /\ head' = None

Next == Land \/ End \/ \E h \in Heads : Freeze(h)

Spec == Init /\ [][Next]_<<stage, head>>
=============================================================================
