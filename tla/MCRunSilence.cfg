\* Slot-range mode, shreds before, in and beyond the range; one listener
\* and one Jito entry stream.
CONSTANTS
    None = None
    LeaderSlots = None
    Listener = {"l1"}
    Stream = {"j"}
    Yellowstone = {}
    Direct = {}
    Spawns <- NoDirect
    Slot = {1, 2, 3}
    StartSlot = 2
    EndSlot = 2
    Duration = 0
    SilenceTimeout = 2
    QueueCap = 1
SPECIFICATION RunSpec
INVARIANT MonitorKeepsCount
PROPERTY SilenceNotPremature
PROPERTY SilentRunStops
PROPERTY RangeEndStopsRun
