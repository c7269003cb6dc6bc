\* All operations; openings and closings overlap, the others run alone.
CONSTANTS
    h1 = h1  h2 = h2  t1 = t1  s1 = s1  s2 = s2  e1 = e1  e2 = e2
    ShiftHandlers <- TwoHandlers
    Terminals <- OneTerminal
    Shifts <- TwoShifts
    Expenses <- TwoExpenses
    Operations <- Kinds
    Overlapping <- OpenAndClose
    MaxAmount = 1
    MaxPosted = 1
SYMMETRY Symmetric
INVARIANTS OneOpenPerTerminal SettledOnce CloseTellsRows ShortOnlyByWithdrawals
SPECIFICATION ShiftSpec
CHECK_DEADLOCK FALSE
