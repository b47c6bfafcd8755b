\* Three writes: a name passes from one experiment to the other, and back or on.
SPECIFICATION Spec
CONSTANTS
    e1 = e1
    e2 = e2
    a = a
    b = b
    c = c
    t1 = t1
    t2 = t2
    Ids <- MCIds
    Names <- MCNames
    None = None
    Threads <- TwoThreads
    MaxWrites = 3
SYMMETRY Symmetry
INVARIANTS
    StaleIdsAreBeingCleared
    ResolvedIdsAreCurrent
    OldNamesNeedARace
