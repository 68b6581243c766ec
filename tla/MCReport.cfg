\* Two shred sources, two slots, three events before and during the report.
CONSTANTS
    ShredSource = {u1, u2}
    EntrySource = {g1}
    Slot = {1, 2}
    Index = {0}
    Time = {0, 1}
    Latency = {7}
    MaxEvents = 3
    MaxLate = 1
SYMMETRY SourceSymmetry
SPECIFICATION ReportSpec
INVARIANTS
    ReportAddsUp
    TablesTellOneStory
CHECK_DEADLOCK FALSE
