\* A denial that is applied after access has come back.
SPECIFICATION Spec
CONSTANTS
    team = team
    plain = plain
    secretBacked = secretBacked
    thread = thread
    Absent = Absent
    Failed = Failed
    NoRv = NoRv
    Names <- OneName
    Values <- PlainOnly
    SecretBacked <- NoSecretBacked
    Requests <- OneRequest
    SecretsListable = TRUE
    MaxRev = 2
    MaxSwitches = 2
INVARIANTS
    AbsenceIsFresh
