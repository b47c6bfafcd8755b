\* A TTL of two ticks in a run of four, one grant that is taken away or given
\* and maybe back, and one key too many for the table.
SPECIFICATION AuthorizerSpec
CONSTANTS
    t1 = t1
    t2 = t2
    allowed = allowed
    denied = denied
    Threads <- MCThreads
    Keys <- MCKeys
    Values <- MCValues
    Questions <- MCQuestions
    Volatile <- MCVolatile
    Granted = allowed
    None = None
    TTL = 2
    MaxEntries = 2
    MaxTime = 3
    MaxChanges = 1
    MaxReview = 1
SYMMETRY Symmetry
INVARIANTS
    EvictionIsOrderly
    HitIsLatestAndFresh
    ChangesTakeEffect
PROPERTIES
    FreshEntriesSurvive
