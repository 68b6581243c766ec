\* Slot-range mode, one listener, no gRPC source.
CONSTANTS
    None = None
    LeaderSlots = None
    Listener = {"l1"}
    Stream = {}
    Yellowstone = {}
    Direct = {}
    Spawns <- NoDirect
    Slot = {2, 3}
    StartSlot = 2
    EndSlot = 2
    Duration = 0
    SilenceTimeout = 2
    QueueCap = 1
SPECIFICATION StragglerSpec
INVARIANTS
    StragglersAreRecorded
