\* A run with a duration, a Jito direct task with its listener and one
\* Yellowstone stream.
CONSTANTS
    None = None
    LeaderSlots = None
    Listener = {"l1"}
    Stream = {"d", "y"}
    Yellowstone = {"y"}
    Direct = {"d"}
    Spawns <- DirectStartsL
    Slot = {3}
    StartSlot = None
    EndSlot = None
    Duration = 2
    SilenceTimeout = 1
    QueueCap = 1
SPECIFICATION RunSpec
INVARIANTS
    RunTypeOK
    AggOutlivesRun
PROPERTY TimedRunStops
PROPERTY CancelledRunExits
PROPERTY ImplementsRunPhases
