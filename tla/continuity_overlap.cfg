SPECIFICATION Spec
CONSTANTS
    p1 = p1
    p2 = p2
    p3 = p3
    t1 = t1
    t2 = t2
    s1 = s1
    s2 = s2
    b1 = b1
    b2 = b2
    None = None
    Processes = {p1, p2}
    Tickets = {t1, t2}
    Sessions = {s1, s2}
    Bodies = {b1, b2}
    Inputs <- MCInputs
    Maximum = 2
    Discipline = "none"
    Faults = {}
SYMMETRY MCSymmetry
INVARIANTS Rebuildable
CHECK_DEADLOCK FALSE
