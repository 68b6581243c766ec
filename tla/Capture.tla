------------------------------- MODULE Capture -------------------------------
(***************************************************************************)
(* What an AF_PACKET socket makes of an Ethernet frame, from               *)
(* src/src/sources/pcap.rs and shred.rs: the kernel runs the socket's BPF  *)
(* program, then the capture thread finds the UDP payload, parses the      *)
(* shred header and offers the shred to each route of the socket.          *)
(*                                                                         *)
(* A frame is a record of the header fields the code loads; ihl is in      *)
(* 32-bit words, frag is the 16-bit field with the flags in its upper      *)
(* three bits, len is what was captured.  Offsets are those of the code.   *)
(***************************************************************************)
EXTENDS Naturals, Sequences

EtherIp == 2048     \* 0x0800
Udp     == 17

-----------------------------------------------------------------------------
(* The frame as the BPF machine reads it; any other field reads as zero.   *)
UdpStart(f) == 14 + 4 * f.ihl

Half(f, offset) == CASE offset = 12              -> f.ethertype
                     [] offset = 20              -> f.frag
                     [] offset = UdpStart(f) + 2 -> f.dport
                     [] OTHER                    -> 0

Octet(f, offset) == IF offset = 23 THEN f.proto ELSE 0

Ldh(k)         == [op |-> "ldh", k |-> k, jt |-> 0, jf |-> 0]
Ldb(k)         == [op |-> "ldb", k |-> k, jt |-> 0, jf |-> 0]
LdxIhl(k)      == [op |-> "ldx_ihl", k |-> k, jt |-> 0, jf |-> 0]
LdhX(k)        == [op |-> "ldh_x", k |-> k, jt |-> 0, jf |-> 0]
Jeq(k, t, f)   == [op |-> "jeq", k |-> k, jt |-> t, jf |-> f]
Jset(k, t, f)  == [op |-> "jset", k |-> k, jt |-> t, jf |-> f]
Ret(k)         == [op |-> "ret", k |-> k, jt |-> 0, jf |-> 0]

\* Mutant: the port is looked for behind a header without options.
Filter_FixedHeader(port) ==
    <<Ldh(12), Jeq(EtherIp, 0, 8), Ldb(23), Jeq(Udp, 0, 6), Ldh(20),
      Jset(8191, 4, 0), LdxIhl(14), Ldh(36), Jeq(port, 0, 1), Ret(65535), Ret(0)>>

\* "udp dst port <port>".
Filter(port) ==
    <<Ldh(12), Jeq(EtherIp, 0, 8), Ldb(23), Jeq(Udp, 0, 6), Ldh(20),
      Jset(8191, 4, 0), LdxIhl(14), LdhX(16), Jeq(port, 0, 1), Ret(65535), Ret(0)>>

\* A k of 2^n - 1 tests the lower n bits.
Matches(insn, a) == IF insn.op = "jeq" THEN a = insn.k ELSE a % (insn.k + 1) # 0

\* The machine is at instruction at, with accumulator a and index register
\* x; at instruction 0 it has returned a.
Machine(at, a, x) == [at |-> at, a |-> a, x |-> x]
Returned(value)   == Machine(0, value, 0)

\* A load beyond the frame returns 0.
Step(prog, f, m) ==
    LET insn   == prog[m.at]
        offset == IF insn.op = "ldh_x" THEN m.x + insn.k ELSE insn.k
        Load(octets, next) == IF offset + octets > f.len THEN Returned(0) ELSE next
    IN  IF m.at = 0 THEN m
        ELSE CASE insn.op = "ret"     -> Returned(insn.k)
               [] insn.op = "ldx_ihl" -> Load(1, Machine(m.at + 1, m.a, 4 * f.ihl))
               [] insn.op \in {"ldh", "ldh_x"} ->
                     Load(2, Machine(m.at + 1, Half(f, offset), m.x))
               [] insn.op = "ldb" -> Load(1, Machine(m.at + 1, Octet(f, offset), m.x))
               [] OTHER ->
                     Machine(m.at + 1 + (IF Matches(insn, m.a) THEN insn.jt ELSE insn.jf),
                             m.a, m.x)

\* The value the program returns for f.  It jumps forward only: it returns
\* after no more steps than it has instructions.
BpfRun(prog, f) ==
    LET after[n \in 0..Len(prog)] ==
          IF n = 0 THEN Machine(1, 0, 0) ELSE Step(prog, f, after[n - 1])
    IN  after[Len(prog)].a

Accepted(port, f) == BpfRun(Filter(port), f) > 0

-----------------------------------------------------------------------------
NoPayload == 65536      \* longer than any payload

\* The length of the payload, by the UDP header and not by the frame.
extract_udp_payload(f) ==
    LET payload_len == IF f.udp_len > 8 THEN f.udp_len - 8 ELSE 0 IN
    IF /\ f.len >= 42
       /\ f.ethertype = EtherIp
       /\ f.ihl >= 5
       /\ f.len >= UdpStart(f) + 8
       /\ f.proto = Udp
       /\ f.frag % 8192 = 0
       /\ UdpStart(f) + 8 + payload_len <= f.len
    THEN payload_len
    ELSE NoPayload

MIN_SHRED_SIZE == 83

\* parse_shred_key returns a key.
IsShred(f, payload_len) ==
    payload_len # NoPayload /\ payload_len >= MIN_SHRED_SIZE /\ f.slot # 0

-----------------------------------------------------------------------------
\* The source address is at hand whenever a route of the socket has a filter.
route_matches(route, src) ==
    /\ route.include_ips # {} => src \in route.include_ips
    /\ route.exclude_ips # {} => src \notin route.exclude_ips

\* The routes of a socket with this port that a frame is sent for.
EventsOf(port, routes, f) ==
    {i \in DOMAIN routes : /\ Accepted(port, f)
                           /\ IsShred(f, extract_udp_payload(f))
                           /\ route_matches(routes[i], f.src)}
=============================================================================
