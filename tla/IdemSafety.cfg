\* Two keys; one is also sent with other content and by another user.
CONSTANTS
    a1 = a1  a2 = a2  a3 = a3  k1 = k1  k2 = k2
    Attempts <- MCAttempts
    Keys <- TwoKeys
    Requests <- TwoOperations
    Key <- KeyOf
    Fingerprint <- ContentOf
    Scope <- UserOf
    NoRecord = NoRecord
    UniqueEffect = FALSE
    AckMayBeLost = FALSE
    RecordsVanish = FALSE
    MaxFaults = 2
SYMMETRY Symmetric
SPECIFICATION Spec
INVARIANTS TypeOK AtMostOnce EffectIsNoted ToldIsTrue
PROPERTIES CompletedIsFinal KeepsPromise
