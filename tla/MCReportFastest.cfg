\* Three sources, one of them silent.
CONSTANTS
    ShredSource = {u1, u2, u3}
    EntrySource = {g1}
    Slot = {1}
    Index = {0}
    Time = {0, 1}
    Latency = {7}
    MaxEvents = 3
    MaxLate = 1
SPECIFICATION ReportSpec
INVARIANT FastestFirst
CHECK_DEADLOCK FALSE
