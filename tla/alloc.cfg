SPECIFICATION ScenariosSpec
CONSTANTS
    a1 = a1
    a2 = a2
    a3 = a3
    None = None
    Allocators = {a1, a2, a3}
    Storages = {"files", "sqlite"}
    MergedHighest = 1
    Worktrees = {w1, w2}
    Registered = {w2}
    Receipts = {1, 2, 4}
    Faults = {}
    CrashWorktrees = {w1}
SYMMETRY MCSymmetry
INVARIANTS Serialized AllocationIsSound
PROPERTIES HighWaterGrows ImplementsLocalNumbering
