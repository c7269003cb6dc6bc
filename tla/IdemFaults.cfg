\* One sale, retried; acknowledgements get lost and rows disappear.
CONSTANTS
    a1 = a1  a2 = a2  a3 = a3  k1 = k1  k2 = k2
    Attempts <- MCAttempts
    Keys <- OneKey
    Requests <- Same
    Key <- KeyOf
    Fingerprint <- ContentOf
    Scope <- UserOf
    NoRecord = NoRecord
    UniqueEffect = TRUE
    AckMayBeLost = TRUE
    RecordsVanish = TRUE
    MaxFaults = 2
SPECIFICATION FairSpec
INVARIANTS AtMostOnce
PROPERTIES ClaimedKeyCompletes
