\* Two operations with permits, one of them expired, two pushes at a time, one fault.
CONSTANTS
    h1 = h1  h2 = h2
    Handlers <- TwoHandlers
    MaxOps = 2
    Leased <- AllLeased
    Late <- OnlySecond
    MaxFaults = 1
INVARIANTS SettledTellsApplied AcceptedIsApplied RefusesNoFirstAttempt
PROPERTIES EveryOperationAnswered
SPECIFICATION FairSpec
CHECK_DEADLOCK FALSE
