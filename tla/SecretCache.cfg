\* Two callers that may both create the cache; access may be granted or withdrawn.
SPECIFICATION FairSpec
CONSTANTS
    team = team
    bucket = bucket
    first = first
    second = second
    Unusable = Unusable
    Absent = Absent
    Invalid = Invalid
    Failed = Failed
    NoName = NoName
    NoRv = NoRv
    NoOne = NoOne
    Names <- OneName
    Buckets <- OneBucket
    Callers <- TwoCallers
    MaxRev = 2
    MaxSwitches = 1
INVARIANTS
    OneSecretCache
    AnswersWereTrue
PROPERTIES
    LockIsReleased
    Converges
