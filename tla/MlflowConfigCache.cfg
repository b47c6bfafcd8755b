\* Access may be lost and come back; the one config comes and goes, and
\* needs the Secret cache.
SPECIFICATION FairSpec
CONSTANTS
    team = team
    plain = plain
    secretBacked = secretBacked
    thread = thread
    Absent = Absent
    Failed = Failed
    NoRv = NoRv
    Names <- OneName
    Values <- SecretBackedOnly
    SecretBacked <- MCSecretBacked
    Requests <- OneRequest
    SecretsListable = TRUE
    MaxRev = 2
    MaxSwitches = 3
INVARIANTS
    NoneHasACause
    NoMissedWakeup
PROPERTIES
    ThreadAloneMovesForward
    Converges
