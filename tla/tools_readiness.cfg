SPECIFICATION ToolsSpec
CONSTANTS
    Letters = {"a", "b", "c"}
    Patterns <- MCPatterns
    Paths <- MCPaths
    Nodes <- MCNodes
    Missing = 4
    Prerequisites <- MCPrerequisites
    Steps <- MCSteps
    MaxAttempts = 2
    Tickets = {t1, t2, t3}
    Unnamed = Unnamed
    People = {"ann", "bob"}
    Sources = {"f", "g"}
    MaxPushes = 2
    MaxMoves = 1
    MaxReviews = 1
    MaxEdits = 1
    Findings = {f1}
    Actions = {a1, a2}
    Checks = {c1}
    Unresolved = Unresolved
    Unset = Unset
    Template <- MCTemplate
    MaxIntentEdits = 2
    MaxRuns = 2
    Members = {"m1", "m2", "m3"}
    Blobs = {"old", "new"}
    NoBlob = "none"
    Ignored = {"m3"}
    BaseTree <- MCBase
    SourceTree <- MCSource
    MaxCommits = 2
    MaxChanges = 2
    ManagedTargets = {"tool", "seeded", "workflow"}
    Package <- MCPackage
    Allowlisted = {"workflow"}
    MaxOwnEdits = 3
    Executions = {e1, e2}
    Outputs = {o1, o2}
    N = 2
    None = None
    e1 = e1
    e2 = e2
    o1 = o1
    o2 = o2
    Calls = {k1, k2}
    k1 = k1
    k2 = k2
    Origins = {"plesk", "moved", "foreign"}
    Organization = {"plesk", "moved"}
    Default = "plesk"
    Nowhere = "nowhere"
    Signed <- MCSigned
    Contents <- MCContents
    NoContent = NoContent
    Malformed = "malformed"
    Embedded <- MCEmbedded
    MaxUpdates = 1
    Inquiries <- MCInquiries
SYMMETRY MCSymmetry
INVARIANTS ProgressNeverStrands
CHECK_DEADLOCK FALSE
