SPECIFICATION ScenariosSpec
CONSTANTS
    p1 = p1
    p2 = p2
    p3 = p3
    q1 = q1
    q2 = q2
    None = None
    Processes = {p1, p2, p3}
    Tickets = {t1, t2}
    Sessions = {s1, s2}
    Bodies = {b1}
    Inputs <- MCInputs
    Maximum = 1
    Discipline = "serial"
    Faults = {"crash", "torn"}
    FreeProcesses = {q1, q2}
    FreeBodies = {b1, b2}
    FreeInputs <- MCFreeInputs
SYMMETRY MCSymmetry
INVARIANTS DisciplineSuffices
PROPERTIES LogGrows 
CHECK_DEADLOCK FALSE
