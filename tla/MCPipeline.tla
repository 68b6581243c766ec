----------------------------- MODULE MCPipeline -----------------------------
(* Bounded instances of Pipeline: at most MaxPackets packets and MaxUpdates *)
(* stream updates are received in one behaviour.                            *)
EXTENDS Pipeline, TLC

CONSTANTS MaxPackets, MaxUpdates,
          u1, u2, u3,       \* shred-level sources
          g1, g2,           \* entry-level sources
          udp, pcap, direct,    \* sockets
          geyser            \* a gRPC stream

VARIABLES packets, updates  \* received so far

\* One data shred per slot; two shreds of one slot.
OnePerSlot == {[slot |-> s, index |-> 0, shred_type |-> "Data"] : s \in Slot}
TwoOfSlot2 == {[slot |-> 2, index |-> 0, shred_type |-> t] : t \in ShredType}

TwoSocketRoutes  == udp :> <<u1>> @@ pcap :> <<u2>>
PcapPairRoutes   == udp :> <<u1>> @@ pcap :> <<u2, u3>>
BothFeedOne      == udp :> <<u1>> @@ direct :> <<u1>>
SocketSymmetry   == Permutations({udp, direct})   \* of BothFeedOne
NoStreamSource   == <<>>
GeyserSource     == geyser :> g1
GeyserAccount    == geyser :> g2
NoAccount        == geyser :> None

MCInit == PipeInit /\ packets = 0 /\ updates = 0

Grown(ts) == Cardinality({t \in ts : Len(outbox'[t]) > Len(outbox[t])})

MCNext ==
    /\ PipeNext
    /\ packets' = packets + Grown(Listener)
    /\ updates' = updates + Grown(Stream)
    /\ packets' <= MaxPackets
    /\ updates' <= MaxUpdates

MCSpec == MCInit /\ [][MCNext]_<<pipeVars, packets, updates>>
=============================================================================
