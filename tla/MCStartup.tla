------------------------------ MODULE MCStartup ------------------------------
(* Source blocks, configurations and frames for TLC.                       *)
EXTENDS Startup

A == Name("A", 0)

Udp1(name, enabled) == [type |-> "raw_udp", enabled |-> enabled, name |-> name]
Dz(name) == [type |-> "doublezero", enabled |-> TRUE, name |-> name]
Jito(name, engine, bind, udp, grpc) ==
    [type |-> "jito", enabled |-> TRUE, name |-> name, block_engine |-> engine,
     udp_bind |-> bind, proxy_udp |-> udp, proxy_grpc |-> grpc]
Ys(name, account, account_name) ==
    [type |-> "yellowstone", enabled |-> TRUE, name |-> name,
     account |-> account, account_name |-> account_name]
Pcap(port, interface, source_ips, exclude_ips) ==
    [type |-> "pcap", enabled |-> TRUE, name |-> NoName, port |-> port,
     interface |-> interface, source_ips |-> source_ips, exclude_ips |-> exclude_ips]

Listeners ==
    {Udp1(NoName, TRUE), Udp1(A, TRUE), Udp1(Name("Raw UDP", 2), TRUE),
     Udp1(NoName, FALSE), Dz(NoName)}
Jitos ==
    {Jito(NoName, TRUE, TRUE, TRUE, TRUE), Jito(A, TRUE, TRUE, FALSE, TRUE),
     Jito(NoName, FALSE, FALSE, TRUE, FALSE), Jito(NoName, TRUE, FALSE, FALSE, FALSE),
     Jito(NoName, FALSE, FALSE, FALSE, FALSE)}
Streams == {Ys(NoName, FALSE, NoName), Ys(NoName, TRUE, NoName), Ys(A, TRUE, A)}
Pcaps ==
    {Pcap(1, "eth0", {}, {}), Pcap(1, "eth0", {"ip1", "junk"}, {}),
     Pcap(1, "", {}, {"ip1"}), Pcap(1, "eth1", {"ip1", "ip2"}, {"ip2"}),
     Pcap(2, "", {"ip2"}, {"junk"})}

Blocks == Listeners \cup Jitos \cup Streams \cup Pcaps

Configs ==
    {[sources |-> s, leader |-> "none"] :
        s \in UNION {[1..n -> Blocks] : n \in 0..2} \cup [1..3 -> Pcaps]}
    \cup {[sources |-> <<Udp1(NoName, TRUE)>>, leader |-> l] : l \in {"no_rpc", "rpc"}}

\* The smallest shred in a frame, and every frame that differs from it in
\* the captured length and two other fields.
Good == [len |-> 0, ethertype |-> EtherIp, ihl |-> 5, proto |-> Udp, frag |-> 0,
         dport |-> 1, src |-> "ip1", udp_len |-> 91, slot |-> 7, iface |-> "eth0"]

Values(field) ==
    CASE field = "ethertype" -> {EtherIp, 34525}
      [] field = "ihl"       -> {4, 5, 6, 15}
      [] field = "proto"     -> {6, Udp}
      [] field = "frag"      -> {0, 1, 8191, 8192, 16384, 16385}
      [] field = "dport"     -> {1, 2}
      [] field = "src"       -> {"ip1", "ip2", "ip3"}
      [] field = "udp_len"   -> {0, 8, 90, 91, 92}
      [] field = "slot"      -> {0, 7}
      [] field = "iface"     -> {"eth0", "eth1"}

Fields == DOMAIN Good \ {"len"}

Altered(f) == UNION {{[f EXCEPT ![x] = v] : v \in Values(x)} : x \in Fields}

Frames ==
    {[f EXCEPT !.len = UdpStart(f) + f.udp_len + pad] :
        f \in UNION {Altered(g) : g \in Altered(Good)}, pad \in {-1, 0, 1}}
=============================================================================
