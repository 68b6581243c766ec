\* Two sources of each kind, two slots, one index, three clock readings.
CONSTANTS
    ShredSource = {u1, u2}
    EntrySource = {g1, g2}
    Slot = {1, 2}
    Index = {0}
    Time = {0, 1, 2}
    Latency = {7}
    MaxEvents = 4
SYMMETRY SourceSymmetry
SPECIFICATION MCSpec
INVARIANTS
    RegTypeOK
    FirstIsHead
    SlotLowerBound
    SlotFirstAccountedFor
    AccountingBalances
    EveryShredHasAWinner
    WinnersBeatLosers
    LogAgreesWithTable
    EntryLagNotUnderstated
PROPERTY RecordsOnlyGrow
CHECK_DEADLOCK FALSE
