\* Slots up to three windows apart.
CONSTANTS
    Slot = {1, 2, 3, 4}
    Window = 1
    MaxTime = 3
    MaxEntries = 3
SPECIFICATION YellowSpec
CHECK_DEADLOCK FALSE
INVARIANTS
    WindowBounded
    WindowComplete
PROPERTY SampleWithinConnection
PROPERTY SampleNotOverstated
