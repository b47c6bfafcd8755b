\* Three revisions after the empty cluster: create, change or delete, and
\* one more that races a LIST or a lookup in flight.
SPECIFICATION FairSpec
CONSTANTS
    team = team
    kubeSystem = kubeSystem
    plain = plain
    described = described
    thread = thread
    Names <- MCNames
    Excluded <- MCExcluded
    Values <- MCValues
    Readers <- MCReaders
    Absent = Absent
    Failed = Failed
    NoRv = NoRv
    MaxRev = 3
INVARIANTS
    CursorMatchesSnapshot
    LookupsAreTrue
PROPERTIES
    ImplementsWatchedView
    Converges
