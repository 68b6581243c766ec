\* A source with two sockets and a stream with an account subscription;
\* start slot, end slot and leader filter all configured.
CONSTANTS
    u1 = u1  u2 = u2  u3 = u3  g1 = g1  g2 = g2
    udp = udp  pcap = pcap  direct = direct  geyser = geyser  None = None
    Index = {0}
    Latency = {7}
    ShredSource = {u1}
    EntrySource = {g1, g2}
    Slot = {1, 2, 3, 4}
    Network <- OnePerSlot
    Time = {0}
    Listener = {udp, direct}
    Stream = {geyser}
    Routes <- BothFeedOne
    StreamSource <- GeyserSource
    AccountSource <- GeyserAccount
    StartSlot = 2
    EndSlot = 3
    LeaderSlots = {1, 3, 4}
    MaxPackets = 3
    MaxUpdates = 1
SPECIFICATION MCSpec
SYMMETRY SocketSymmetry
INVARIANTS
    RecordedAsAsked
    OnlyStartCheckDrops
CHECK_DEADLOCK FALSE
