\* A lookup that caches the old name after a rename has been answered.
SPECIFICATION Spec
CONSTANTS
    e1 = e1
    e2 = e2
    a = a
    b = b
    c = c
    t1 = t1
    t2 = t2
    Ids <- MCIds
    Names <- MCNames
    None = None
    Threads <- TwoThreads
    MaxWrites = 2
SYMMETRY Symmetry
INVARIANTS
    ResolvedNamesAreCurrent
