SPECIFICATION SingleUseSpec
CONSTANTS
    g1 = g1
    g2 = g2
    ann = ann
    bob = bob
    cid = cid
    r1 = r1
    r2 = r2
    Calls = {c1, c2}
    Addresses = {ann, bob, cid}
    NoGrant = NoGrant
    Nobody = Nobody
    Plans = {"p", "q"}
    Grants = {g1, g2}
    Signed = {g1}
    RecipientsOf <- MCRecipientsOf
    PlanOf <- MCPlanOf
    LastMoment <- MCLastMoment
    Prompt = TRUE
    EndOfTime = 2
    Exporters = {x1, x2}
    Evidences = {o1, o2}
    Bundle = {"unit", "export-receipt.json"}
    Free = Free
    Other = Other
    Actors = {a1, a2}
    Controllers = {k1, k2}
    Heads = {h1, h2}
    Replacements <- MCReplacements
    References = {r1, r2}
    FirstToken = 5
    MaxRevision = 9
    Overlapping = FALSE
    None = None
    Allocators = {n1, n2}
    Worktrees = {w1, w2}
INVARIANTS
    
    ApprovedOnly
    ReportedIsSent
    ExportIsVerified
    
    AuthorityIsFenced
    SignalsAreSafe
PROPERTIES
    EmailCallsEnd
    ImplementsGate
    
CHECK_DEADLOCK FALSE
