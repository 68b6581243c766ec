\* A plain socket and a capture socket with two routes, no stream;
\* duration mode.
CONSTANTS
    u1 = u1  u2 = u2  u3 = u3  g1 = g1  g2 = g2
    udp = udp  pcap = pcap  direct = direct  geyser = geyser  None = None
    Index = {0}
    Latency = {7}
    ShredSource = {u1, u2, u3}
    Slot = {2}
    Network <- TwoOfSlot2
    Time = {0, 1}
    Listener = {udp, pcap}
    Routes <- PcapPairRoutes
    MaxPackets = 3
    EntrySource = {g1}
    Stream = {}
    StreamSource <- NoStreamSource
    AccountSource <- NoStreamSource
    MaxUpdates = 0
    StartSlot = None
    EndSlot = None
    LeaderSlots = None
SPECIFICATION MCSpec
INVARIANTS
    NothingLostOrReordered
    FirstSeenIsEarliestOfSocket
    AtMostOneLatePacket
CHECK_DEADLOCK FALSE
