SPECIFICATION Spec
CONSTANTS
    a1 = a1
    a2 = a2
    c1 = c1
    c2 = c2
    h1 = h1
    h2 = h2
    r1 = r1
    r2 = r2
    None = None
    Actors = {a1, a2}
    Controllers = {c1, c2}
    Heads = {h1, h2}
    Replacements <- MCReplacements
    References = {r1, r2}
    FirstToken = 5
    MaxRevision = 9
    Overlapping = FALSE
SYMMETRY MCSymmetry
INVARIANTS LeaseStaysValid
