SPECIFICATION Spec
CONSTANTS
    None = None
    Allocators = {a1, a2}
    Worktrees = {w1, w2}
    Storages = {"files"}
    Registered = {}
    Receipts = {}
    MergedHighest = 1
    Faults = {"crash"}
INVARIANTS HighWaterCoversClaims
