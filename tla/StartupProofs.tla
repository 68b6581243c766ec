---------------------------- MODULE StartupProofs ----------------------------
(***************************************************************************)
(* TLAPS proofs about the start of the program: the leader filter it is    *)
(* given, what its AF_PACKET sockets make of a frame, and the source ids   *)
(* and names it hands out.                                                 *)
(***************************************************************************)
EXTENDS Startup, FiniteSetTheorems, TLAPS

(* Epochs are the quotients of slots, the indices their remainders.        *)
LEMMA QuotientAndRemainder ==
    ASSUME NEW n \in Nat, NEW d \in Nat \ {0},
           NEW q, q = n \div d, NEW r, r = n % d
    PROVE  q \in Nat /\ r \in Nat /\ r < d /\ n = d * q + r
<1>1. q \in Nat
  OBVIOUS
<1>2. r \in Nat /\ r < d
  OBVIOUS
<1>3. n = d * q + r
  OBVIOUS
<1> QED BY <1>1, <1>2, <1>3

LEMMA SlotOfEpoch ==
    ASSUME NEW d \in Nat \ {0}, NEW q \in Nat, NEW r \in Nat, r < d
    PROVE  (d * q + r) \div d = q /\ (d * q + r) % d = r
<1> DEFINE n == d * q + r
           p == n \div d
           s == n % d
<1>1. n \in Nat
  OBVIOUS
<1> HIDE DEF n, p, s
<1>2. p \in Nat /\ s \in Nat /\ s < d /\ n = d * p + s
  BY <1>1, QuotientAndRemainder DEF p, s
<1>3. d * p + s = d * q + r
  BY <1>2 DEF n
<1>4. p = q
  <2>1. ASSUME p >= q + 1 PROVE FALSE
    <3>1. d * p >= d * q + d
      BY <1>2, <2>1
    <3> QED BY <1>2, <1>3, <3>1
  <2>2. ASSUME q >= p + 1 PROVE FALSE
    <3>1. d * q >= d * p + d
      BY <1>2, <2>2
    <3> QED BY <1>2, <1>3, <3>1
  <2> QED BY <1>2, <2>1, <2>2
<1>5. s = r
  BY <1>2, <1>3, <1>4
<1> QED BY <1>4, <1>5 DEF n, p, s

-----------------------------------------------------------------------------
(* The inductive invariant of the two calls: what the first one returned   *)
(* are the indices of the leader's slots in the epoch it was served in.    *)
SchedInv ==
    /\ cluster_slot \in Nat
    /\ led \subseteq Nat
    /\ pc \in {"schedule", "epoch"} => leader_slots = {}
    /\ pc = "epoch" => slot_indices = {SlotIndex(s) : s \in SlotsOf(asked_in)}
    /\ FilterIsExactWithinEpoch

(* The first slot of the epoch of a slot, plus an index, is a slot of that *)
(* epoch; and every slot of an epoch is found that way.                    *)
LEMMA AbsoluteSlots ==
    ASSUME NEW c \in Nat
    PROVE  /\ \A i \in Nat : i < EpochLength =>
                 EpochOf(c - SlotIndex(c) + i) = EpochOf(c)
           /\ \A s \in Nat : EpochOf(s) = EpochOf(c) =>
                 c - SlotIndex(c) + SlotIndex(s) = s
<1> DEFINE e == EpochOf(c)
           i0 == SlotIndex(c)
<1>1. EpochLength \in Nat \ {0}
  BY LeaderScheduleAssumption
<1>2. e \in Nat /\ i0 \in Nat /\ c = EpochLength * e + i0
  BY <1>1, QuotientAndRemainder DEF EpochOf, SlotIndex
<1> HIDE DEF e, i0
<1>3. ASSUME NEW i \in Nat, i < EpochLength
      PROVE  EpochOf(c - i0 + i) = e
  <2>1. c - i0 + i = EpochLength * e + i
    BY <1>1, <1>2
  <2> QED BY <1>1, <1>2, <1>3, <2>1, SlotOfEpoch DEF EpochOf
<1>4. ASSUME NEW s \in Nat, EpochOf(s) = e
      PROVE  c - i0 + SlotIndex(s) = s
  <2> DEFINE i == SlotIndex(s)
  <2>1. i \in Nat /\ s = EpochLength * EpochOf(s) + i
    BY <1>1, QuotientAndRemainder DEF EpochOf, SlotIndex
  <2> HIDE DEF i
  <2>2. c - i0 + i = s
    BY <1>1, <1>2, <1>4, <2>1
  <2> QED BY <2>2 DEF i
<1> QED BY <1>3, <1>4 DEF e, i0

LEMMA SchedInvInit == SchedInit => SchedInv
  BY LeaderScheduleAssumption DEF SchedInit, SchedInv, FilterIsExactWithinEpoch

LEMMA SchedInvNext == SchedInv /\ [SchedNext]_schedVars => SchedInv'
<1> SUFFICES ASSUME SchedInv, [SchedNext]_schedVars PROVE SchedInv'
  OBVIOUS
<1> USE LeaderScheduleAssumption
    DEF SchedInv, FilterIsExactWithinEpoch, SlotsOf, EpochOf, SlotIndex
<1>1. CASE ClusterAdvances
  BY <1>1 DEF ClusterAdvances
<1>2. CASE RpcFails
  BY <1>2 DEF RpcFails
<1>3. CASE GetLeaderSchedule
  <2>1. /\ UNCHANGED <<cluster_slot, led, leader_slots>> /\ leader_slots = {}
        /\ asked_in' = EpochOf(cluster_slot)
        /\ slot_indices' = {SlotIndex(s) : s \in SlotsOf(asked_in')}
    BY <1>3 DEF GetLeaderSchedule
  <2> QED BY <2>1
<1>4. CASE GetEpochInfo
  <2>1. /\ UNCHANGED <<cluster_slot, led, asked_in, slot_indices>>
        /\ leader_slots = {} /\ pc' \in {"failed", "loaded"}
        /\ slot_indices = {SlotIndex(s) : s \in SlotsOf(asked_in)}
        /\ leader_slots' \in {leader_slots, Absolute(cluster_slot)}
    BY <1>4 DEF GetEpochInfo
  <2>2. ASSUME NEW first \in Absolute(cluster_slot),
               leader_slots' = Absolute(cluster_slot),
               EpochOf(first) = asked_in
        PROVE  Absolute(cluster_slot) = SlotsOf(asked_in)
    <3> HIDE DEF EpochOf, SlotIndex
    <3>1. SlotsOf(asked_in) = {s \in led : EpochOf(s) = asked_in}
      OBVIOUS
    <3>2. Absolute(cluster_slot)
             = {cluster_slot - SlotIndex(cluster_slot) + SlotIndex(s) :
                   s \in SlotsOf(asked_in)}
      BY <2>1 DEF Absolute
    <3>3. asked_in = EpochOf(cluster_slot)
      <4>1. PICK s \in SlotsOf(asked_in) :
               first = cluster_slot - SlotIndex(cluster_slot) + SlotIndex(s)
        BY <2>2, <3>2
      <4>2. s \in Nat
        BY <3>1
      <4>3. SlotIndex(s) \in Nat /\ SlotIndex(s) < EpochLength
        BY <4>2, QuotientAndRemainder DEF SlotIndex
      <4> QED BY <2>2, <4>1, <4>3, AbsoluteSlots
    <3>4. \A s \in SlotsOf(asked_in) :
             cluster_slot - SlotIndex(cluster_slot) + SlotIndex(s) = s
      BY <3>1, <3>3, AbsoluteSlots
    <3> QED BY <3>2, <3>4
  <2>3. FilterIsExactWithinEpoch'
    BY <2>1, <2>2
  <2> QED BY <2>1, <2>3
<1>5. CASE UNCHANGED schedVars
  BY <1>5 DEF schedVars
<1> QED BY <1>1, <1>2, <1>3, <1>4, <1>5 DEF SchedNext

(* The leader filter is the leader's slots of the epoch it asked for, when *)
(* both calls were served in one epoch, however the cluster moves on       *)
(* between them and for every epoch length.                                *)
THEOREM LeaderFilterIsExact == SchedSpec => []FilterIsExactWithinEpoch
<1>1. SchedInv => FilterIsExactWithinEpoch
  BY DEF SchedInv
<1> QED BY <1>1, SchedInvInit, SchedInvNext, PTL DEF SchedSpec

(* The same of the program's start, of which the fetch is one stage.       *)
THEOREM StartFilterIsExact == StartSpec => []FilterIsExactWithinEpoch
<1>1. StartInit => SchedInv
  BY SchedInvInit DEF StartInit
<1>2. [StartNext]_startVars => [SchedNext]_schedVars
  BY DEF StartNext, startVars, Validate, Fetch, StartListener, StartJito,
         StartYellowstone, AddPcap, StartCapture, AllStarted, DirectListens,
         Exit, Starting
<1>3. SchedInv => FilterIsExactWithinEpoch
  BY DEF SchedInv
<1> QED BY <1>1, <1>2, <1>3, SchedInvNext, PTL DEF StartSpec

-----------------------------------------------------------------------------
(* The kernel's filter: a machine of n steps, for any n that is reached one *)
(* at a time.                                                              *)
StepsUpTo(prog, f, g, n) ==
    [m \in 0..n |-> IF m = 0 THEN Machine(1, 0, 0) ELSE Step(prog, f, g[m - 1])]

LEMMA OneMoreStep ==
    ASSUME NEW prog, NEW f, NEW n \in Nat, NEW g, g = StepsUpTo(prog, f, g, n)
    PROVE  \E h : h = StepsUpTo(prog, f, h, n + 1)
<1> DEFINE h == StepsUpTo(prog, f, g, n + 1)
<1>1. \A m \in 0..n : h[m] = g[m]
  <2>1. ASSUME NEW m \in 0..n PROVE h[m] = StepsUpTo(prog, f, g, n)[m]
    BY DEF StepsUpTo
  <2> QED BY <2>1
<1>2. \A m \in 0..n + 1 : m # 0 => m - 1 \in 0..n
  OBVIOUS
<1> HIDE DEF h
<1>3. StepsUpTo(prog, f, g, n + 1) = StepsUpTo(prog, f, h, n + 1)
  BY <1>1, <1>2 DEF StepsUpTo
<1>4. h = StepsUpTo(prog, f, h, n + 1)
  BY <1>3 DEF h
<1> QED BY <1>4

LEMMA FilterRuns ==
    ASSUME NEW prog, NEW f
    PROVE  \E g : g = StepsUpTo(prog, f, g, 11)
<1> DEFINE Runs(n) == \E g : g = StepsUpTo(prog, f, g, n)
<1>0. Runs(0)
  <2> DEFINE g == [m \in 0..0 |-> Machine(1, 0, 0)]
  <2>1. g = StepsUpTo(prog, f, g, 0)
    BY DEF StepsUpTo
  <2> QED BY <2>1
<1>s. ASSUME NEW n \in Nat, Runs(n) PROVE Runs(n + 1)
  BY <1>s, OneMoreStep
<1> HIDE DEF Runs
<1>1. /\ (Runs(0) => Runs(1)) /\ (Runs(1) => Runs(2)) /\ (Runs(2) => Runs(3))
      /\ (Runs(3) => Runs(4)) /\ (Runs(4) => Runs(5)) /\ (Runs(5) => Runs(6))
      /\ (Runs(6) => Runs(7)) /\ (Runs(7) => Runs(8)) /\ (Runs(8) => Runs(9))
      /\ (Runs(9) => Runs(10)) /\ (Runs(10) => Runs(11))
  <2>1. \A n \in Nat : Runs(n) => Runs(n + 1)
    BY <1>s
  <2>2. /\ 1 = 0 + 1 /\ 2 = 1 + 1 /\ 3 = 2 + 1 /\ 4 = 3 + 1 /\ 5 = 4 + 1 /\ 6 = 5 + 1
        /\ 7 = 6 + 1 /\ 8 = 7 + 1 /\ 9 = 8 + 1 /\ 10 = 9 + 1 /\ 11 = 10 + 1
    OBVIOUS
  <2> QED BY <2>1, <2>2
<1>2. Runs(11)
  BY <1>0, <1>1
<1> QED BY <1>2 DEF Runs

LEMMA BpfRunOf ==
    ASSUME NEW port, NEW f
    PROVE  \E g : /\ g = StepsUpTo(Filter(port), f, g, 11)
                  /\ BpfRun(Filter(port), f) = g[11].a
<1> DEFINE prog == Filter(port)
           g == CHOOSE g : g = StepsUpTo(prog, f, g, 11)
<1>1. Len(prog) = 11
  BY DEF Filter
<1> HIDE DEF prog
<1>2. g = StepsUpTo(prog, f, g, 11)
  BY FilterRuns
<1>3. BpfRun(prog, f) = g[11].a
  BY <1>1 DEF BpfRun, StepsUpTo
<1> QED BY <1>2, <1>3 DEF prog

LEMMA FrameFields ==
    ASSUME NEW f \in Frame
    PROVE  /\ f.len \in Nat /\ f.ethertype \in Nat /\ f.ihl \in Nat /\ f.proto \in Nat
           /\ f.frag \in Nat /\ f.dport \in Nat /\ f.udp_len \in Nat /\ f.udp_len < 65536 /\ f.src \in Ip
  BY FrameAssumption

LEMMA HeaderBytes ==
    ASSUME NEW f \in Frame
    PROVE  /\ Half(f, 12) = f.ethertype
           /\ f.ihl >= 5 => Half(f, 20) = f.frag
           /\ f.ihl >= 5 => Half(f, 4 * f.ihl + 16) = f.dport
           /\ Octet(f, 23) = f.proto
<1>2. f.ihl \in Nat
  BY FrameFields
<1>3. 12 # UdpStart(f) + 2 /\ (f.ihl >= 5 => 20 # UdpStart(f) + 2)
  BY <1>2 DEF UdpStart
<1>4. f.ihl >= 5 => /\ 4 * f.ihl + 16 = UdpStart(f) + 2
                    /\ 4 * f.ihl + 16 # 12 /\ 4 * f.ihl + 16 # 20
  BY <1>2 DEF UdpStart
<1>5. Half(f, 12) = f.ethertype
  BY <1>3 DEF Half
<1>6. f.ihl >= 5 => Half(f, 20) = f.frag
  BY <1>3 DEF Half
<1>7. f.ihl >= 5 => Half(f, 4 * f.ihl + 16) = f.dport
  BY <1>4 DEF Half
<1> QED BY <1>5, <1>6, <1>7 DEF Octet

LEMMA FilterSteps ==
    ASSUME NEW port, NEW f \in Frame, HoldsShred(f), NEW a, NEW x \in Nat
    PROVE  /\ Step(Filter(port), f, Machine(1, a, x)) = Machine(2, f.ethertype, x)
           /\ Step(Filter(port), f, Machine(2, EtherIp, x)) = Machine(3, EtherIp, x)
           /\ Step(Filter(port), f, Machine(3, a, x)) = Machine(4, f.proto, x)
           /\ Step(Filter(port), f, Machine(4, Udp, x)) = Machine(5, Udp, x)
           /\ Step(Filter(port), f, Machine(5, a, x)) = Machine(6, f.frag, x)
           /\ Step(Filter(port), f, Machine(6, f.frag, x)) = Machine(7, f.frag, x)
           /\ Step(Filter(port), f, Machine(7, a, x)) = Machine(8, a, 4 * f.ihl)
           /\ Step(Filter(port), f, Machine(8, a, 4 * f.ihl)) = Machine(9, f.dport, 4 * f.ihl)
           /\ Step(Filter(port), f, Machine(9, a, x))
                 = Machine(IF a = port THEN 10 ELSE 11, a, x)
           /\ Step(Filter(port), f, Machine(10, a, x)) = Returned(65535)
           /\ Step(Filter(port), f, Machine(11, a, x)) = Returned(0)
           /\ Step(Filter(port), f, Returned(a)) = Returned(a)
<1> DEFINE prog == Filter(port)
<1>1. /\ prog[1] = Ldh(12)          /\ prog[2] = Jeq(EtherIp, 0, 8)
      /\ prog[3] = Ldb(23)          /\ prog[4] = Jeq(Udp, 0, 6)
      /\ prog[5] = Ldh(20)          /\ prog[6] = Jset(8191, 4, 0)
      /\ prog[7] = LdxIhl(14)       /\ prog[8] = LdhX(16)
      /\ prog[9] = Jeq(port, 0, 1)  /\ prog[10] = Ret(65535)
      /\ prog[11] = Ret(0)
  BY DEF Filter
<1> HIDE DEF prog
<1>2. /\ f.len \in Nat /\ f.ihl \in Nat /\ f.ihl >= 5
      /\ f.len >= 4 * f.ihl + 18 /\ f.len >= 42 /\ f.frag % 8192 = 0
      /\ f.ethertype = EtherIp /\ f.proto = Udp
  BY FrameFields DEF HoldsShred, UdpStart, MIN_SHRED_SIZE
<1>3. Step(prog, f, Machine(1, a, x)) = Machine(2, f.ethertype, x)
  BY <1>1, <1>2, HeaderBytes DEF Step, Machine, Ldh
<1>4. Step(prog, f, Machine(2, EtherIp, x)) = Machine(3, EtherIp, x)
  BY <1>1 DEF Step, Machine, Jeq, Matches
<1>5. Step(prog, f, Machine(3, a, x)) = Machine(4, f.proto, x)
  BY <1>1, <1>2, HeaderBytes DEF Step, Machine, Ldb
<1>6. Step(prog, f, Machine(4, Udp, x)) = Machine(5, Udp, x)
  BY <1>1 DEF Step, Machine, Jeq, Matches
<1>7. Step(prog, f, Machine(5, a, x)) = Machine(6, f.frag, x)
  BY <1>1, <1>2, HeaderBytes DEF Step, Machine, Ldh
<1>8. Step(prog, f, Machine(6, f.frag, x)) = Machine(7, f.frag, x)
  BY <1>1, <1>2 DEF Step, Machine, Jset, Matches
<1>9. Step(prog, f, Machine(7, a, x)) = Machine(8, a, 4 * f.ihl)
  BY <1>1, <1>2 DEF Step, Machine, LdxIhl
<1>10. Step(prog, f, Machine(8, a, 4 * f.ihl)) = Machine(9, f.dport, 4 * f.ihl)
  BY <1>1, <1>2, HeaderBytes DEF Step, Machine, LdhX
<1>11. Step(prog, f, Machine(9, a, x)) = Machine(IF a = port THEN 10 ELSE 11, a, x)
  BY <1>1 DEF Step, Machine, Jeq, Matches
<1>12. Step(prog, f, Machine(10, a, x)) = Returned(65535)
  BY <1>1 DEF Step, Machine, Ret
<1>13. Step(prog, f, Machine(11, a, x)) = Returned(0)
  BY <1>1 DEF Step, Machine, Ret
<1>14. Step(prog, f, Returned(a)) = Returned(a)
  BY DEF Step, Returned, Machine
<1> QED BY <1>3, <1>4, <1>5, <1>6, <1>7, <1>8, <1>9, <1>10, <1>11, <1>12, <1>13, <1>14
        DEF prog

LEMMA FilterDecides ==
    ASSUME NEW port, NEW f \in Frame, HoldsShred(f)
    PROVE  Accepted(port, f) <=> f.dport = port
<1> DEFINE prog == Filter(port)
<1>1. PICK g : g = StepsUpTo(prog, f, g, 11) /\ BpfRun(prog, f) = g[11].a
  BY BpfRunOf
<1> HIDE DEF prog
<1>2. /\ g[0] = Machine(1, 0, 0)
      /\ \A m \in 1..11 : g[m] = Step(prog, f, g[m - 1])
  BY <1>1 DEF StepsUpTo
<1>3. /\ g[1] = Step(prog, f, g[0]) /\ g[2] = Step(prog, f, g[1])
      /\ g[3] = Step(prog, f, g[2]) /\ g[4] = Step(prog, f, g[3])
      /\ g[5] = Step(prog, f, g[4]) /\ g[6] = Step(prog, f, g[5])
      /\ g[7] = Step(prog, f, g[6]) /\ g[8] = Step(prog, f, g[7])
      /\ g[9] = Step(prog, f, g[8]) /\ g[10] = Step(prog, f, g[9])
      /\ g[11] = Step(prog, f, g[10])
  BY <1>2
<1>4. 4 * f.ihl \in Nat /\ f.ethertype = EtherIp /\ f.proto = Udp
  BY FrameFields DEF HoldsShred
<1>5. g[8] = Machine(9, f.dport, 4 * f.ihl)
  <2>1. g[1] = Machine(2, EtherIp, 0)
    BY <1>2, <1>3, <1>4, FilterSteps DEF prog
  <2>2. g[2] = Machine(3, EtherIp, 0)
    BY <2>1, <1>3, FilterSteps DEF prog
  <2>3. g[3] = Machine(4, Udp, 0)
    BY <2>2, <1>3, <1>4, FilterSteps DEF prog
  <2>4. g[4] = Machine(5, Udp, 0)
    BY <2>3, <1>3, FilterSteps DEF prog
  <2>5. g[5] = Machine(6, f.frag, 0)
    BY <2>4, <1>3, FilterSteps DEF prog
  <2>6. g[6] = Machine(7, f.frag, 0)
    BY <2>5, <1>3, FilterSteps DEF prog
  <2>7. g[7] = Machine(8, f.frag, 4 * f.ihl)
    BY <2>6, <1>3, FilterSteps DEF prog
  <2> QED BY <2>7, <1>3, FilterSteps DEF prog
<1>6. CASE f.dport = port
  <2>1. g[9] = Machine(10, f.dport, 4 * f.ihl)
    BY <1>3, <1>4, <1>5, <1>6, FilterSteps DEF prog
  <2>2. g[10] = Returned(65535)
    BY <2>1, <1>3, <1>4, FilterSteps DEF prog
  <2>3. g[11] = Returned(65535)
    BY <2>2, <1>3, FilterSteps DEF prog
  <2> QED BY <2>3, <1>1, <1>6 DEF Accepted, prog, Returned, Machine
<1>7. CASE f.dport # port
  <2>1. g[9] = Machine(11, f.dport, 4 * f.ihl)
    BY <1>3, <1>4, <1>5, <1>7, FilterSteps DEF prog
  <2>2. g[10] = Returned(0)
    BY <2>1, <1>3, <1>4, FilterSteps DEF prog
  <2>3. g[11] = Returned(0)
    BY <2>2, <1>3, FilterSteps DEF prog
  <2> QED BY <2>3, <1>1, <1>7 DEF Accepted, prog, Returned, Machine
<1> QED BY <1>6, <1>7

LEMMA PayloadDecides ==
    ASSUME NEW f \in Frame
    PROVE  IsShred(f, extract_udp_payload(f)) <=> HoldsShred(f)
<1>1. /\ f.len \in Nat /\ f.ihl \in Nat /\ f.udp_len \in Nat /\ f.udp_len < 65536
  BY FrameFields
<1>2. CASE f.udp_len > 8
  BY <1>1, <1>2 DEF IsShred, extract_udp_payload, HoldsShred, UdpStart,
         MIN_SHRED_SIZE, NoPayload
<1>3. CASE ~(f.udp_len > 8)
  BY <1>1, <1>3 DEF IsShred, extract_udp_payload, HoldsShred, UdpStart,
         MIN_SHRED_SIZE, NoPayload
<1> QED BY <1>2, <1>3

-----------------------------------------------------------------------------
(* The inductive invariant of CapturedAsConfigured.  main starts the blocks *)
(* in one order (OrderInv), so that the pcap rows are the last ones of the *)
(* shred-level table and in the order of the blocks (Pos); the ids of the  *)
(* table were handed out before (ShredRowsInv); and the groups hold the    *)
(* route of each pcap block started, under its socket and with the id of   *)
(* its row, once, and nothing else (GroupsInv).                            *)
PcapStarted == Enabled("pcap") \cap started

Pos(p) == Len(active_shred_sources) - Cardinality(PcapStarted) + Idx(p) + 1

OrderInv ==
    /\ config \in Config
    /\ started \subseteq ToStart
    /\ next_id \in Nat
    /\ \A r \in started, q \in ToStart \ started : Before(r, q)
    /\ stage = "running" => started = ToStart

ShredRowsInv ==
    /\ \E S : active_shred_sources \in Seq(S)
    /\ \A i \in DOMAIN active_shred_sources :
          active_shred_sources[i].id \in Nat /\ active_shred_sources[i].id < next_id

IdOf(p) == active_shred_sources[Pos(p)].id

GroupsInv ==
    /\ \A p \in PcapStarted : Pos(p) \in DOMAIN active_shred_sources
    /\ \A key \in DOMAIN groups :
          /\ \E S : groups[key] \in Seq(S)
          /\ \A i \in DOMAIN groups[key] : \E p \in PcapStarted :
                Socket(p) = key /\ groups[key][i] = Route(p, IdOf(p))
    /\ \A p \in PcapStarted :
          /\ Socket(p) \in DOMAIN groups
          /\ \E i \in DOMAIN groups[Socket(p)] :
                groups[Socket(p)][i] = Route(p, IdOf(p))
    /\ \A j, k \in DOMAIN groups : \A m \in DOMAIN groups[j], n \in DOMAIN groups[k] :
          groups[j][m].source_id = groups[k][n].source_id => j = k /\ m = n

CaptureInv == OrderInv /\ ShredRowsInv /\ GroupsInv

LEMMA Appended ==
    ASSUME NEW S, NEW s \in Seq(S), NEW r
    PROVE  /\ s \o <<r>> \in Seq(S \cup {r})
           /\ Len(s \o <<r>>) = Len(s) + 1
           /\ DOMAIN (s \o <<r>>) = 1..Len(s) + 1
           /\ DOMAIN s = 1..Len(s) /\ Len(s) \in Nat
           /\ \A i \in DOMAIN s : (s \o <<r>>)[i] = s[i]
           /\ (s \o <<r>>)[Len(s) + 1] = r
<1>1. s \in Seq(S \cup {r}) /\ <<r>> \in Seq(S \cup {r}) /\ Len(<<r>>) = 1
  OBVIOUS
<1>2. Append(s, r) = s \o <<r>>
  BY <1>1
<1> QED BY <1>1, <1>2

LEMMA EnabledFacts ==
    ASSUME config \in Config
    PROVE  /\ ToStart \subseteq Nat /\ IsFiniteSet(ToStart)
           /\ \A type : Enabled(type) \subseteq ToStart /\ IsFiniteSet(Enabled(type))
           /\ \A p : Idx(p) \in Nat
           /\ \A p \in ToStart : config.sources[p].type \in DOMAIN Turn
<1>1. /\ IsFiniteSet(DOMAIN config.sources) /\ DOMAIN config.sources \subseteq Nat
      /\ \A p \in DOMAIN config.sources : config.sources[p].type \in DOMAIN Turn
  BY ConfigAssumption
<1>2. ToStart \in SUBSET DOMAIN config.sources
  BY DEF ToStart
<1>3. IsFiniteSet(ToStart)
  BY <1>1, <1>2, FS_Subset
<1>4. ASSUME NEW type PROVE Enabled(type) \in SUBSET ToStart /\ IsFiniteSet(Enabled(type))
  <2>1. Enabled(type) \in SUBSET ToStart
    BY DEF Enabled
  <2> QED BY <2>1, <1>3, FS_Subset
<1>5. ASSUME NEW p PROVE Idx(p) \in Nat
  <2> DEFINE E == Enabled(config.sources[p].type)
             T == {q \in E : q < p}
  <2>1. T \in SUBSET E /\ IsFiniteSet(E)
    BY <1>4
  <2>2. IsFiniteSet(T)
    BY <2>1, FS_Subset
  <2>3. Cardinality(T) \in Nat
    BY <2>2, FS_CardinalityType
  <2> QED BY <2>3 DEF Idx
<1> QED BY <1>1, <1>2, <1>3, <1>4, <1>5

(* A block that is not of the last type is started before any that is.     *)
LEMMA NoPcapYet ==
    ASSUME OrderInv, NEW p \in ToStart \ started, config.sources[p].type # "pcap"
    PROVE  PcapStarted = {}
<1> SUFFICES ASSUME NEW r \in PcapStarted PROVE FALSE
  OBVIOUS
<1>1. r \in started /\ config.sources[r].type = "pcap"
  BY DEF PcapStarted, Enabled
<1>2. Before(r, p)
  BY <1>1 DEF OrderInv
<1>3. config.sources[p].type \in DOMAIN Turn
  BY EnabledFacts DEF OrderInv
<1> QED BY <1>1, <1>2, <1>3 DEF Before, Turn

(* The blocks of a type are started in their order.                        *)
LEMMA StartedInOrder ==
    ASSUME OrderInv, NEW type, NEW p \in Enabled(type) \ started,
           \A q \in ToStart \ started : q # p => Before(p, q)
    PROVE  /\ Idx(p) = Cardinality(Enabled(type) \cap started)
           /\ Cardinality(Enabled(type) \cap (started \cup {p}))
                 = Cardinality(Enabled(type) \cap started) + 1
           /\ Cardinality(Enabled(type) \cap started) \in Nat
<1> DEFINE E == Enabled(type)
           T == E \cap started
<1>1. /\ config.sources[p].type = type /\ E \subseteq Nat /\ E \subseteq ToStart
      /\ IsFiniteSet(E) /\ config.sources[p].type \in DOMAIN Turn
  BY EnabledFacts DEF OrderInv, Enabled
<1>2. \A q \in E : config.sources[q].type = type
  BY DEF Enabled
<1>3. Turn[type] \in Nat
  BY <1>1 DEF Turn
<1>4. ASSUME NEW q \in E PROVE q < p <=> q \in started
  <2>1. q \in Nat /\ p \in Nat
    BY <1>1
  <2>2. ASSUME q < p, q \notin started PROVE FALSE
    <3>1. Before(p, q)
      BY <1>1, <2>1, <2>2
    <3> QED BY <1>1, <1>2, <1>3, <2>1, <2>2, <3>1 DEF Before
  <2>3. ASSUME q \in started PROVE q < p
    <3>1. Before(q, p)
      BY <2>3, <1>1 DEF OrderInv
    <3> QED BY <1>1, <1>2, <1>3, <3>1 DEF Before
  <2> QED BY <2>2, <2>3
<1>5. {q \in E : q < p} = T
  BY <1>4
<1>6. Idx(p) = Cardinality(T)
  BY <1>1, <1>5 DEF Idx
<1>7. T \in SUBSET E /\ p \notin T /\ E \cap (started \cup {p}) = T \cup {p}
  OBVIOUS
<1>8. IsFiniteSet(T)
  BY <1>1, <1>7, FS_Subset
<1> HIDE DEF T
<1>9. Cardinality(T \cup {p}) = Cardinality(T) + 1 /\ Cardinality(T) \in Nat
  BY <1>7, <1>8, FS_AddElement, FS_CardinalityType
<1> QED BY <1>6, <1>7, <1>9 DEF T

LEMMA CaptureInvInit == StartInit => CaptureInv
<1> SUFFICES ASSUME StartInit PROVE CaptureInv
  OBVIOUS
<1>1. PcapStarted = {}
  BY DEF PcapStarted, StartInit
<1>2. OrderInv
  BY DEF StartInit, OrderInv
<1>3. ShredRowsInv
  <2>1. active_shred_sources = <<>> /\ <<>> \in Seq({})
    BY DEF StartInit
  <2> QED BY <2>1 DEF ShredRowsInv
<1>4. GroupsInv
  BY <1>1 DEF StartInit, GroupsInv
<1> QED BY <1>2, <1>3, <1>4 DEF CaptureInv

-----------------------------------------------------------------------------
(* What the start of a block does to the ids, the rows and the groups.     *)
Untouched == UNCHANGED <<config, started, next_id, active_shred_sources, groups>>

(* What a start of a block does to the ids and to the shred-level rows.    *)
Began(p) ==
    /\ stage = "starting" /\ UNCHANGED <<config, stage>>
    /\ p \in ToStart \ started
    /\ \A q \in ToStart \ started : q # p => Before(p, q)
    /\ started' = started \cup {p}
    /\ next_id' \in {next_id + 1, next_id + 2}
    /\ \/ UNCHANGED active_shred_sources
       \/ \E name : active_shred_sources' =
                       active_shred_sources \o <<[id |-> next_id, name |-> name]>>

BeganPcap(p) ==
    /\ Began(p)
    /\ config.sources[p].type = "pcap"
    /\ next_id' = next_id + 1
    /\ \E name : active_shred_sources' =
                    active_shred_sources \o <<[id |-> next_id, name |-> name]>>
    /\ groups' = [key \in DOMAIN groups \cup {Socket(p)} |->
                     IF key = Socket(p)
                     THEN Append(IF Socket(p) \in DOMAIN groups THEN groups[Socket(p)] ELSE <<>>,
                                 Route(p, next_id))
                     ELSE groups[key]]

LEMMA BlockBegins ==
    ASSUME ShredRowsInv, NEW p \in ToStart
    PROVE  /\ \A type \in {"raw_udp", "doublezero"} : \A default :
                 StartListener(p, type, default) =>
                    Began(p) /\ config.sources[p].type # "pcap" /\ UNCHANGED groups
           /\ StartJito(p) => Began(p) /\ config.sources[p].type # "pcap" /\ UNCHANGED groups
           /\ StartYellowstone(p) =>
                 Began(p) /\ config.sources[p].type # "pcap" /\ UNCHANGED groups
           /\ AddPcap(p) => BeganPcap(p)
<1>0. \E S : active_shred_sources \in Seq(S)
  BY DEF ShredRowsInv
<1>1. ASSUME NEW S, active_shred_sources \in Seq(S)
      PROVE  active_shred_sources \o <<>> = active_shred_sources
  BY <1>1
<1>2. ASSUME NEW type \in {"raw_udp", "doublezero"}, NEW default,
             StartListener(p, type, default)
      PROVE  Began(p) /\ config.sources[p].type # "pcap" /\ UNCHANGED groups
  <2>1. p \in Enabled(type) /\ Enabled(type) \subseteq ToStart
    BY <1>2 DEF StartListener, Starting, Enabled
  <2> QED BY <1>2, <2>1 DEF StartListener, Starting, Began, Register, mainVars, Enabled
<1>3. ASSUME StartJito(p)
      PROVE  Began(p) /\ config.sources[p].type # "pcap" /\ UNCHANGED groups
  <2>1. p \in Enabled("jito")
    BY <1>3 DEF StartJito, Starting
  <2> DEFINE has_udp == config.sources[p].block_engine \/ config.sources[p].proxy_udp
             name == NameOf(p, config.sources[p].name, "Jito ShredStream")
  <2>2. active_shred_sources' = active_shred_sources
                                   \o If(has_udp, [id |-> next_id, name |-> name])
    BY <1>3 DEF StartJito, Register
  <2>3. \/ UNCHANGED active_shred_sources
        \/ active_shred_sources' = active_shred_sources \o <<[id |-> next_id, name |-> name]>>
    BY <2>2, <1>0, <1>1 DEF If
  <2> HIDE DEF has_udp, name
  <2>4. /\ Starting(p, "jito") /\ next_id' = next_id + 2 /\ UNCHANGED groups
    BY <1>3 DEF StartJito
  <2> QED BY <2>1, <2>3, <2>4 DEF Starting, Began, mainVars, Enabled
<1>4. ASSUME StartYellowstone(p)
      PROVE  Began(p) /\ config.sources[p].type # "pcap" /\ UNCHANGED groups
  <2>1. p \in Enabled("yellowstone")
    BY <1>4 DEF StartYellowstone, Starting
  <2>2. active_shred_sources' = active_shred_sources \o <<>>
    BY <1>4 DEF StartYellowstone, Register
  <2>3. /\ Starting(p, "yellowstone") /\ next_id' \in {next_id + 1, next_id + 2}
        /\ UNCHANGED groups
    BY <1>4 DEF StartYellowstone
  <2>4. UNCHANGED active_shred_sources
    BY <2>2, <1>0, <1>1
  <2> QED BY <2>1, <2>3, <2>4 DEF Starting, Began, mainVars, Enabled
<1>5. ASSUME AddPcap(p) PROVE BeganPcap(p)
  <2>1. p \in Enabled("pcap")
    BY <1>5 DEF AddPcap, Starting
  <2>2. /\ Starting(p, "pcap") /\ next_id' = next_id + 1
        /\ \E name : active_shred_sources' =
                        active_shred_sources \o <<[id |-> next_id, name |-> name]>>
    BY <1>5 DEF AddPcap, Register
  <2>3. Began(p) /\ config.sources[p].type = "pcap"
    BY <2>1, <2>2 DEF Starting, Began, mainVars, Enabled
  <2> QED BY <1>5, <2>2, <2>3 DEF BeganPcap, AddPcap
<1> QED BY <1>2, <1>3, <1>4, <1>5

LEMMA StartsBegin ==
    ASSUME OrderInv, ShredRowsInv, StartNext
    PROVE  \/ Untouched /\ (stage' = stage \/ stage' # "running" \/ started = ToStart)
           \/ \E p \in ToStart : Began(p) /\ config.sources[p].type # "pcap" /\ UNCHANGED groups
           \/ \E p \in ToStart : BeganPcap(p)
<1>6. Validate => Untouched /\ (stage' = stage \/ stage' # "running")
  <2>1. config.leader \in {"none", "no_rpc", "rpc"}
    BY ConfigAssumption DEF OrderInv
  <2> QED BY <2>1 DEF Validate, Untouched, mainVars, idVars
<1>7. Fetch => Untouched /\ stage' # "running"
  BY DEF Fetch, Untouched, mainVars, idVars
<1>8. StartCapture => Untouched /\ (stage' = stage \/ stage' # "running")
  BY DEF StartCapture, Untouched, mainVars, idVars
<1>9. AllStarted => Untouched /\ started = ToStart
  BY DEF AllStarted, Untouched, mainVars, idVars
<1>10. DirectListens => Untouched /\ stage' = stage
  BY DEF DirectListens, Untouched, mainVars, idVars
<1>11. Exit => Untouched /\ stage' # "running"
  BY DEF Exit, Untouched, mainVars, idVars
<1> QED BY BlockBegins, <1>6, <1>7, <1>8, <1>9, <1>10, <1>11 DEF StartNext

(* The blocks of a configuration, and what is derived from it, stay.       *)
LEMMA ConfigStays ==
    ASSUME UNCHANGED config
    PROVE  /\ ToStart' = ToStart
           /\ \A type : Enabled(type)' = Enabled(type)
           /\ \A p : Idx(p)' = Idx(p) /\ Socket(p)' = Socket(p)
           /\ \A p, id : Route(p, id)' = Route(p, id)
           /\ \A p, q : Before(p, q)' = Before(p, q)
<1>1. ToStart' = ToStart
  BY DEF ToStart
<1>2. \A type : Enabled(type)' = Enabled(type)
  BY <1>1 DEF Enabled
<1>3. \A p : Idx(p)' = Idx(p) /\ Socket(p)' = Socket(p)
  BY <1>2 DEF Idx, Socket
<1>4. \A p, id : Route(p, id)' = Route(p, id)
  BY DEF Route
<1>5. \A p, q : Before(p, q)' = Before(p, q)
  BY DEF Before
<1> QED BY <1>1, <1>2, <1>3, <1>4, <1>5

LEMMA OrderInvBegan ==
    ASSUME OrderInv, NEW p, Began(p)
    PROVE  OrderInv'
<1>1. /\ ToStart' = ToStart /\ \A r, q : Before(r, q)' = Before(r, q)
  BY ConfigStays DEF Began
<1>2. ASSUME NEW r \in started', NEW q \in ToStart \ started' PROVE Before(r, q)
  BY <1>2 DEF Began, OrderInv
<1> QED BY <1>1, <1>2 DEF Began, OrderInv

LEMMA ShredRowsInvBegan ==
    ASSUME OrderInv, ShredRowsInv, NEW p, Began(p)
    PROVE  ShredRowsInv'
<1>1. PICK S : active_shred_sources \in Seq(S)
  BY DEF ShredRowsInv
<1>2. next_id \in Nat /\ next_id' \in Nat /\ next_id < next_id'
  BY DEF OrderInv, Began
<1>3. CASE UNCHANGED active_shred_sources
  BY <1>2, <1>3 DEF ShredRowsInv
<1>4. ASSUME NEW name,
             active_shred_sources' = active_shred_sources \o <<[id |-> next_id, name |-> name]>>
      PROVE  ShredRowsInv'
  <2> DEFINE row == [id |-> next_id, name |-> name]
  <2>0. row.id = next_id
    OBVIOUS
  <2> HIDE DEF row
  <2>1. active_shred_sources' = active_shred_sources \o <<row>>
    BY <1>4 DEF row
  <2>2. active_shred_sources' \in Seq(S \cup {row})
    BY <1>1, <2>1, Appended
  <2>3. \A i \in DOMAIN active_shred_sources' :
           active_shred_sources'[i].id \in Nat /\ active_shred_sources'[i].id < next_id'
    <3> SUFFICES ASSUME NEW i \in DOMAIN active_shred_sources'
                 PROVE  active_shred_sources'[i].id \in Nat
                           /\ active_shred_sources'[i].id < next_id'
      OBVIOUS
    <3>1. CASE i \in DOMAIN active_shred_sources
      BY <1>1, <1>2, <2>1, <3>1, Appended DEF ShredRowsInv
    <3>2. CASE i \notin DOMAIN active_shred_sources
      <4>1. i = Len(active_shred_sources) + 1
        BY <1>1, <2>1, <3>2, Appended
      <4> QED BY <1>1, <1>2, <2>0, <2>1, <4>1, Appended
    <3> QED BY <3>1, <3>2
  <2> QED BY <2>2, <2>3 DEF ShredRowsInv
<1> QED BY <1>3, <1>4 DEF Began

LEMMA GroupsInvBegan ==
    ASSUME OrderInv, GroupsInv, NEW p, Began(p), config.sources[p].type # "pcap",
           UNCHANGED groups
    PROVE  GroupsInv'
<1>1. p \in ToStart \ started
  BY DEF Began
<1>2. PcapStarted = {}
  BY <1>1, NoPcapYet
<1>3. PcapStarted' = {}
  <2>1. Enabled("pcap")' = Enabled("pcap") /\ p \notin Enabled("pcap")
    BY ConfigStays DEF Began, Enabled
  <2> QED BY <1>2, <2>1 DEF PcapStarted, Began
<1> QED BY <1>2, <1>3 DEF GroupsInv

(* A new pcap block adds its route to those of its socket.                 *)
LEMMA PcapRoutes ==
    ASSUME GroupsInv, NEW p, BeganPcap(p)
    PROVE  LET key   == Socket(p)
               m     == IF key \in DOMAIN groups THEN Len(groups[key]) ELSE 0
               route == Route(p, next_id)
           IN  /\ DOMAIN groups' = DOMAIN groups \cup {key}
               /\ \A k \in DOMAIN groups' : \E R : groups'[k] \in Seq(R)
               /\ m + 1 \in DOMAIN groups'[key] /\ groups'[key][m + 1] = route
               /\ \A k \in DOMAIN groups' : \A i \in DOMAIN groups'[k] :
                     \/ /\ k \in DOMAIN groups /\ i \in DOMAIN groups[k]
                        /\ groups'[k][i] = groups[k][i]
                     \/ k = key /\ i = m + 1 /\ groups'[k][i] = route
               /\ \A k \in DOMAIN groups : \A i \in DOMAIN groups[k] :
                     /\ k \in DOMAIN groups' /\ i \in DOMAIN groups'[k]
                     /\ groups'[k][i] = groups[k][i]
<1> DEFINE key == Socket(p)
           route == Route(p, next_id)
           prior == IF key \in DOMAIN groups THEN groups[key] ELSE <<>>
           m == IF key \in DOMAIN groups THEN Len(groups[key]) ELSE 0
<1>1. /\ DOMAIN groups' = DOMAIN groups \cup {key}
      /\ groups'[key] = Append(prior, route)
      /\ \A k \in DOMAIN groups : k # key => groups'[k] = groups[k]
  BY DEF BeganPcap
<1>2. \E T : prior \in Seq(T)
  <2>1. <<>> \in Seq({})
    OBVIOUS
  <2> QED BY <2>1 DEF GroupsInv
<1>3. PICK T : prior \in Seq(T)
  BY <1>2
<1>4. m = Len(prior)
  BY DEF prior
<1> HIDE DEF m, prior, route
<1>5. /\ groups'[key] \in Seq(T \cup {route})
      /\ DOMAIN groups'[key] = 1..m + 1 /\ DOMAIN prior = 1..m /\ m \in Nat
      /\ \A i \in 1..m : groups'[key][i] = prior[i]
      /\ groups'[key][m + 1] = route
  BY <1>1, <1>3, <1>4
<1>6. \A i \in 1..m : key \in DOMAIN groups /\ i \in DOMAIN groups[key]
                          /\ prior[i] = groups[key][i]
  BY <1>5 DEF prior
<1> HIDE DEF key
(* A route is an old one, or the one that was added.                       *)
<1>7. \A k \in DOMAIN groups' : \A i \in DOMAIN groups'[k] :
          \/ k \in DOMAIN groups /\ i \in DOMAIN groups[k] /\ groups'[k][i] = groups[k][i]
          \/ k = key /\ i = m + 1 /\ groups'[k][i] = route
  <2> SUFFICES ASSUME NEW k \in DOMAIN groups', NEW i \in DOMAIN groups'[k]
               PROVE
          \/ k \in DOMAIN groups /\ i \in DOMAIN groups[k] /\ groups'[k][i] = groups[k][i]
          \/ k = key /\ i = m + 1 /\ groups'[k][i] = route
    OBVIOUS
  <2>1. CASE k # key
    BY <1>1, <2>1
  <2>2. CASE k = key /\ i = m + 1
    <3>1. groups'[k][i] = groups'[key][m + 1]
      BY <2>2
    <3>2. groups'[key][m + 1] = route
      BY <1>5
    <3> QED BY <2>2, <3>1, <3>2
  <2>3. CASE k = key /\ i # m + 1
    BY <1>5, <1>6, <2>3
  <2> QED BY <2>1, <2>2, <2>3
<1>8. \A k \in DOMAIN groups : \A i \in DOMAIN groups[k] :
          k \in DOMAIN groups' /\ i \in DOMAIN groups'[k] /\ groups'[k][i] = groups[k][i]
  <2> SUFFICES ASSUME NEW k \in DOMAIN groups, NEW i \in DOMAIN groups[k]
               PROVE  k \in DOMAIN groups' /\ i \in DOMAIN groups'[k]
                         /\ groups'[k][i] = groups[k][i]
    OBVIOUS
  <2>1. CASE k # key
    BY <1>1, <2>1
  <2>2. CASE k = key
    <3>1. prior = groups[k]
      BY <2>2 DEF prior
    <3> QED BY <1>1, <1>5, <2>2, <3>1
  <2> QED BY <2>1, <2>2
<1>9. \A k \in DOMAIN groups' : \E R : groups'[k] \in Seq(R)
  BY <1>1, <1>5 DEF GroupsInv
<1>10. m + 1 \in DOMAIN groups'[key]
  BY <1>5
<1> QED BY <1>1, <1>5, <1>7, <1>8, <1>9, <1>10 DEF m, route, key

LEMMA GroupsInvPcap ==
    ASSUME OrderInv, ShredRowsInv, GroupsInv, NEW p, BeganPcap(p)
    PROVE  GroupsInv'
<1>1. PICK name : active_shred_sources' =
                     active_shred_sources \o <<[id |-> next_id, name |-> name]>>
  BY DEF BeganPcap
<1> DEFINE row == [id |-> next_id, name |-> name]
           n == Len(active_shred_sources)
           key == Socket(p)
           route == Route(p, next_id)
           m == IF key \in DOMAIN groups THEN Len(groups[key]) ELSE 0
<1>2. /\ p \in Enabled("pcap") \ started /\ UNCHANGED config /\ started' = started \cup {p}
      /\ \A q \in ToStart \ started : q # p => Before(p, q)
  BY DEF BeganPcap, Began, Enabled
<1>3. /\ \A q : Idx(q)' = Idx(q) /\ Socket(q)' = Socket(q) /\ Idx(q) \in Nat
      /\ \A q, id : Route(q, id)' = Route(q, id)
      /\ Enabled("pcap")' = Enabled("pcap")
  BY <1>2, ConfigStays, EnabledFacts DEF OrderInv
<1>4. PcapStarted' = PcapStarted \cup {p} /\ p \notin PcapStarted
  BY <1>2, <1>3 DEF PcapStarted
<1>5. /\ Idx(p) = Cardinality(PcapStarted) /\ Cardinality(PcapStarted) \in Nat
      /\ Cardinality(PcapStarted') = Cardinality(PcapStarted) + 1
  <2>1. PcapStarted' = Enabled("pcap") \cap (started \cup {p})
    BY <1>2, <1>3 DEF PcapStarted
  <2> QED BY <1>2, <2>1, StartedInOrder DEF PcapStarted
<1>6. PICK S : active_shred_sources \in Seq(S)
  BY DEF ShredRowsInv
<1>7. /\ active_shred_sources' = active_shred_sources \o <<row>> /\ row.id = next_id
  BY <1>1
<1> HIDE DEF row
<1>8. /\ Len(active_shred_sources') = n + 1 /\ n \in Nat
      /\ DOMAIN active_shred_sources' = 1..n + 1 /\ DOMAIN active_shred_sources = 1..n
      /\ \A i \in 1..n : active_shred_sources'[i] = active_shred_sources[i]
      /\ active_shred_sources'[n + 1] = row
  BY <1>6, <1>7, Appended
<1> HIDE DEF n
<1>9. \A q : Pos(q)' = Pos(q)
  BY <1>3, <1>5, <1>8 DEF Pos, n
<1>10. Pos(p) = n + 1
  BY <1>5, <1>8 DEF Pos, n
<1>11. \A q \in PcapStarted : Pos(q) \in 1..n /\ IdOf(q)' = IdOf(q)
  <2> SUFFICES ASSUME NEW q \in PcapStarted
               PROVE  Pos(q) \in 1..n /\ IdOf(q)' = IdOf(q)
    OBVIOUS
  <2>1. Pos(q) \in 1..n
    BY <1>8 DEF GroupsInv
  <2> QED BY <1>8, <1>9, <2>1 DEF IdOf
<1>12. IdOf(p)' = next_id
  BY <1>7, <1>8, <1>9, <1>10 DEF IdOf
<1>13. /\ DOMAIN groups' = DOMAIN groups \cup {key}
       /\ \A k \in DOMAIN groups' : \E R : groups'[k] \in Seq(R)
       /\ m + 1 \in DOMAIN groups'[key] /\ groups'[key][m + 1] = route
       /\ \A k \in DOMAIN groups' : \A i \in DOMAIN groups'[k] :
             \/ k \in DOMAIN groups /\ i \in DOMAIN groups[k] /\ groups'[k][i] = groups[k][i]
             \/ k = key /\ i = m + 1 /\ groups'[k][i] = route
       /\ \A k \in DOMAIN groups : \A i \in DOMAIN groups[k] :
             k \in DOMAIN groups' /\ i \in DOMAIN groups'[k] /\ groups'[k][i] = groups[k][i]
  BY PcapRoutes
<1> HIDE DEF m, key, route
<1>18. route = Route(p, IdOf(p)') /\ key = Socket(p) /\ route.source_id = next_id
  BY <1>12 DEF route, key, Route
<1>19. \A k \in DOMAIN groups : \A i \in DOMAIN groups[k] :
          groups[k][i].source_id \in Nat /\ groups[k][i].source_id < next_id
  <2> SUFFICES ASSUME NEW k \in DOMAIN groups, NEW i \in DOMAIN groups[k]
               PROVE  groups[k][i].source_id \in Nat /\ groups[k][i].source_id < next_id
    OBVIOUS
  <2>1. PICK q \in PcapStarted : groups[k][i] = Route(q, IdOf(q))
    BY DEF GroupsInv
  <2>2. groups[k][i].source_id = active_shred_sources[Pos(q)].id
    BY <2>1 DEF Route, IdOf
  <2>3. Pos(q) \in DOMAIN active_shred_sources
    BY DEF GroupsInv
  <2> QED BY <2>2, <2>3 DEF ShredRowsInv
<1>20. \A q \in PcapStarted' : Pos(q)' \in DOMAIN active_shred_sources'
  BY <1>4, <1>8, <1>9, <1>10, <1>11
<1>24. ASSUME NEW k \in DOMAIN groups', NEW i \in DOMAIN groups'[k]
       PROVE  \E q \in PcapStarted' : Socket(q) = k /\ groups'[k][i] = Route(q, IdOf(q)')
  <2>1. CASE k \in DOMAIN groups /\ i \in DOMAIN groups[k] /\ groups'[k][i] = groups[k][i]
    <3>1. PICK q \in PcapStarted : Socket(q) = k /\ groups[k][i] = Route(q, IdOf(q))
      BY <2>1 DEF GroupsInv
    <3> QED BY <1>4, <1>11, <2>1, <3>1
  <2>2. CASE k = key /\ i = m + 1 /\ groups'[k][i] = route
    BY <1>4, <1>18, <2>2
  <2> QED BY <1>13, <2>1, <2>2
<1>25. ASSUME NEW q \in PcapStarted'
       PROVE  /\ Socket(q) \in DOMAIN groups'
              /\ \E i \in DOMAIN groups'[Socket(q)] :
                    groups'[Socket(q)][i] = Route(q, IdOf(q)')
  <2>1. CASE q = p
    <3>1. m + 1 \in DOMAIN groups'[key]
      BY <1>13
    <3> QED BY <1>13, <1>18, <2>1, <3>1
  <2>2. CASE q \in PcapStarted
    <3>1. PICK i \in DOMAIN groups[Socket(q)] :
             groups[Socket(q)][i] = Route(q, IdOf(q)) /\ Socket(q) \in DOMAIN groups
      BY <2>2 DEF GroupsInv
    <3> QED BY <1>11, <1>13, <2>2, <3>1
  <2> QED BY <1>4, <2>1, <2>2
<1>26. ASSUME NEW j \in DOMAIN groups', NEW k \in DOMAIN groups',
              NEW u \in DOMAIN groups'[j], NEW v \in DOMAIN groups'[k],
              groups'[j][u].source_id = groups'[k][v].source_id
       PROVE  j = k /\ u = v
  <2>1. next_id \in Nat
    BY DEF OrderInv
  <2>2. CASE j \in DOMAIN groups /\ u \in DOMAIN groups[j] /\ groups'[j][u] = groups[j][u]
    <3>1. CASE k \in DOMAIN groups /\ v \in DOMAIN groups[k] /\ groups'[k][v] = groups[k][v]
      BY <1>26, <2>2, <3>1 DEF GroupsInv
    <3>2. CASE k = key /\ v = m + 1 /\ groups'[k][v] = route
      BY <1>18, <1>19, <1>26, <2>1, <2>2, <3>2
    <3> QED BY <1>13, <3>1, <3>2
  <2>3. CASE j = key /\ u = m + 1 /\ groups'[j][u] = route
    <3>1. CASE k \in DOMAIN groups /\ v \in DOMAIN groups[k] /\ groups'[k][v] = groups[k][v]
      BY <1>18, <1>19, <1>26, <2>1, <2>3, <3>1
    <3>2. CASE k = key /\ v = m + 1 /\ groups'[k][v] = route
      BY <2>3, <3>2
    <3> QED BY <1>13, <3>1, <3>2
  <2> QED BY <1>13, <2>2, <2>3
<1>27. /\ \A q : Socket(q)' = Socket(q)
       /\ \A q : Route(q, IdOf(q))' = Route(q, IdOf(q)')
  BY <1>3
<1> QED BY <1>20, <1>13, <1>24, <1>25, <1>26, <1>27 DEF GroupsInv

-----------------------------------------------------------------------------
(* The invariant holds, and what it says of the sockets.                   *)
LEMMA CaptureInvUntouched ==
    ASSUME CaptureInv, Untouched, stage' = stage \/ stage' # "running" \/ started = ToStart
    PROVE  CaptureInv'
<1>1. UNCHANGED <<config, started, next_id, active_shred_sources, groups>>
  BY DEF Untouched
<1>2. /\ ToStart' = ToStart /\ Enabled("pcap")' = Enabled("pcap")
      /\ \A q : Idx(q)' = Idx(q) /\ Socket(q)' = Socket(q)
      /\ \A q, id : Route(q, id)' = Route(q, id)
      /\ \A q, r : Before(q, r)' = Before(q, r)
  BY <1>1, ConfigStays
<1>3. PcapStarted' = PcapStarted
  BY <1>1, <1>2 DEF PcapStarted
<1>4. \A q : Pos(q)' = Pos(q)
  BY <1>1, <1>2, <1>3 DEF Pos
<1>5. \A q : IdOf(q)' = IdOf(q)
  BY <1>1, <1>4 DEF IdOf
<1>6. \A q : Route(q, IdOf(q))' = Route(q, IdOf(q))
  BY <1>2, <1>5
<1>7. OrderInv'
  BY <1>1, <1>2 DEF CaptureInv, OrderInv
<1>8. ShredRowsInv'
  BY <1>1 DEF CaptureInv, ShredRowsInv
<1>9. GroupsInv'
  BY <1>1, <1>2, <1>3, <1>4, <1>6 DEF CaptureInv, GroupsInv
<1> QED BY <1>7, <1>8, <1>9 DEF CaptureInv

LEMMA CaptureInvNext == CaptureInv /\ [StartNext]_startVars => CaptureInv'
<1> SUFFICES ASSUME CaptureInv, [StartNext]_startVars PROVE CaptureInv'
  OBVIOUS
<1>1. CASE UNCHANGED startVars
  <2>1. Untouched /\ stage' = stage
    BY <1>1 DEF startVars, mainVars, idVars, Untouched
  <2> QED BY <2>1, CaptureInvUntouched
<1>2. CASE StartNext
  <2>1. CASE Untouched /\ (stage' = stage \/ stage' # "running" \/ started = ToStart)
    BY <2>1, CaptureInvUntouched
  <2>2. ASSUME NEW p \in ToStart, Began(p), config.sources[p].type # "pcap", UNCHANGED groups
        PROVE  CaptureInv'
    BY <2>2, OrderInvBegan, ShredRowsInvBegan, GroupsInvBegan DEF CaptureInv
  <2>3. ASSUME NEW p \in ToStart, BeganPcap(p) PROVE CaptureInv'
    <3>1. Began(p)
      BY <2>3 DEF BeganPcap
    <3> QED BY <2>3, <3>1, OrderInvBegan, ShredRowsInvBegan, GroupsInvPcap DEF CaptureInv
  <2> QED BY <1>2, <2>1, <2>2, <2>3, StartsBegin DEF CaptureInv
<1> QED BY <1>1, <1>2

(* The event of one route is the event the user asked for.                 *)
LEMMA RouteAsConfigured ==
    ASSUME NEW p, NEW id, NEW routes, NEW i \in DOMAIN routes, routes[i] = Route(p, id),
           NEW f \in Frame,
           config.sources[p].source_ips = {} \/ Parsed(config.sources[p].source_ips) # {}
    PROVE  (Reaches(f, Socket(p)) /\ i \in EventsOf(Socket(p)[1], routes, f))
              <=> /\ HoldsShred(f)
                  /\ OnPort(config.sources[p], f)
                  /\ FromAskedIp(config.sources[p], f)
<1> DEFINE b == config.sources[p]
<1>1. Socket(p)[1] = b.port /\ Socket(p)[2] = b.interface
  BY DEF Socket
<1>2. f.src \in Ip
  BY FrameFields
<1>3. route_matches(routes[i], f.src) <=> FromAskedIp(b, f)
  <2>1. /\ routes[i].include_ips = Parsed(b.source_ips)
        /\ routes[i].exclude_ips = Parsed(b.exclude_ips)
    BY DEF Route
  <2>2. f.src \in Parsed(b.source_ips) <=> f.src \in b.source_ips
    BY <1>2 DEF Parsed
  <2>3. f.src \in Parsed(b.exclude_ips) <=> f.src \in b.exclude_ips
    BY <1>2 DEF Parsed
  <2>4. b.source_ips = {} => Parsed(b.source_ips) = {}
    BY DEF Parsed
  <2> HIDE DEF b
  <2>5. (Parsed(b.source_ips) # {} => f.src \in Parsed(b.source_ips))
           <=> (b.source_ips # {} => f.src \in b.source_ips)
    BY <2>2, <2>4 DEF b
  <2>6. (Parsed(b.exclude_ips) # {} => f.src \notin Parsed(b.exclude_ips))
           <=> f.src \notin b.exclude_ips
    BY <2>3
  <2> QED BY <2>1, <2>5, <2>6 DEF route_matches, FromAskedIp
<1>4. Reaches(f, Socket(p)) <=> b.interface \in {"", f.iface}
  BY <1>1 DEF Reaches
<1> HIDE DEF b
<1>5. i \in EventsOf(b.port, routes, f)
         <=> Accepted(b.port, f) /\ HoldsShred(f) /\ FromAskedIp(b, f)
  BY <1>3, PayloadDecides DEF EventsOf
<1>6. HoldsShred(f) => (Accepted(b.port, f) <=> f.dport = b.port)
  BY FilterDecides
<1> QED BY <1>1, <1>4, <1>5, <1>6 DEF OnPort, b

LEMMA CaptureInvImpliesCaptured == CaptureInv => CapturedAsConfigured
<1> SUFFICES ASSUME CaptureInv, stage = "running",
                    NEW p \in Enabled("pcap"), NEW f \in Frame,
                    config.sources[p].source_ips = {}
                       \/ Parsed(config.sources[p].source_ips) # {}
             PROVE  Cardinality(EventsFor(PcapId(p), f)) =
                       IF /\ HoldsShred(f)
                          /\ OnPort(config.sources[p], f)
                          /\ FromAskedIp(config.sources[p], f)
                       THEN 1 ELSE 0
  BY DEF CapturedAsConfigured
<1> DEFINE Asked == /\ HoldsShred(f)
                    /\ OnPort(config.sources[p], f)
                    /\ FromAskedIp(config.sources[p], f)
           key == Socket(p)
           id == PcapId(p)
<1>1. Enabled("pcap") \subseteq ToStart /\ started = ToStart
  BY DEF CaptureInv, OrderInv, Enabled
<1>2. PcapStarted = Enabled("pcap")
  BY <1>1 DEF PcapStarted
<1>3. id = IdOf(p)
  BY <1>2 DEF PcapId, IdOf, Pos
<1>4. PICK i \in DOMAIN groups[key] : key \in DOMAIN groups /\ groups[key][i] = Route(p, id)
  BY <1>2, <1>3 DEF CaptureInv, GroupsInv
<1>5. (Reaches(f, key) /\ i \in EventsOf(key[1], groups[key], f)) <=> Asked
  BY <1>4, RouteAsConfigured
<1>6. groups[key][i].source_id = id
  BY <1>4 DEF Route
<1> HIDE DEF key, id, Asked
<1>7. \A e : e \in EventsFor(id, f) <=>
           \E k \in DOMAIN groups : Reaches(f, k) /\
              \E j \in EventsOf(k[1], groups[k], f) :
                  e = <<k, j>> /\ groups[k][j].source_id = id
  BY DEF EventsFor
<1>8. \A e \in EventsFor(id, f) : e = <<key, i>> /\ Asked
  <2> SUFFICES ASSUME NEW e \in EventsFor(id, f) PROVE e = <<key, i>> /\ Asked
    OBVIOUS
  <2>1. PICK k \in DOMAIN groups : Reaches(f, k) /\
              \E j \in EventsOf(k[1], groups[k], f) :
                  e = <<k, j>> /\ groups[k][j].source_id = id
    BY <1>7
  <2>2. PICK j \in EventsOf(k[1], groups[k], f) :
                  e = <<k, j>> /\ groups[k][j].source_id = id
    BY <2>1
  <2>3. j \in DOMAIN groups[k]
    BY DEF EventsOf
  <2>4. k = key /\ j = i
    BY <1>4, <1>6, <2>2, <2>3 DEF CaptureInv, GroupsInv
  <2> QED BY <1>5, <2>1, <2>2, <2>4
<1>9. Asked => <<key, i>> \in EventsFor(id, f)
  BY <1>4, <1>5, <1>6, <1>7
<1>10. CASE Asked
  <2>1. EventsFor(id, f) = {<<key, i>>}
    BY <1>8, <1>9, <1>10
  <2> QED BY <1>10, <2>1, FS_Singleton DEF Asked, id
<1>11. CASE ~Asked
  <2>1. EventsFor(id, f) = {}
    BY <1>8, <1>11
  <2> QED BY <1>11, <2>1, FS_EmptySet DEF Asked, id
<1> QED BY <1>10, <1>11

(* A pcap source gets one event for a frame exactly when the frame holds a *)
(* shred it asks for, whatever the blocks, their sockets and addresses.    *)
THEOREM StartCapturedAsConfigured == StartSpec => []CapturedAsConfigured
BY CaptureInvInit, CaptureInvNext, CaptureInvImpliesCaptured, PTL DEF StartSpec

-----------------------------------------------------------------------------
(* Names: the user's, or the default of one block.                         *)
AllRows == ToSet(active_shred_sources) \cup ToSet(active_entry_sources)
Given(name) == Plain(name) \in GivenNames

Bases == [raw_udp |-> {"Raw UDP"}, jito |-> {"Jito ShredStream", "Jito Entries"},
          doublezero |-> {"DoubleZero"}, yellowstone |-> {"Yellowstone"},
          pcap |-> {"Raw Capture"}]

Number(p) ==
    IF Cardinality(Enabled(config.sources[p].type)) <= 1 THEN 0 ELSE Idx(p) + 1

DefaultOf(p, name) ==
    name.base \in Bases[config.sources[p].type] /\ name.nr = Number(p)

DistinctIds(s) == \A i, j \in DOMAIN s : s[i].id = s[j].id => i = j

TwoRows(rows) == \A r, s \in rows : r # s /\ r.name = s.name => Given(r.name)

LEMMA IdxMonotone ==
    ASSUME config \in Config, NEW type, NEW p \in Enabled(type), NEW q \in Enabled(type), p < q
    PROVE  /\ Idx(p) \in Nat /\ Idx(q) \in Nat /\ Idx(p) + 1 <= Idx(q)
           /\ Cardinality(Enabled(type)) \in Nat /\ Cardinality(Enabled(type)) >= 2
<1> DEFINE E == Enabled(type)
           P == {r \in E : r < p}
           Q == {r \in E : r < q}
<1>1. /\ IsFiniteSet(E) /\ E \subseteq Nat
      /\ config.sources[p].type = type /\ config.sources[q].type = type
  BY EnabledFacts DEF Enabled
<1>2. Idx(p) = Cardinality(P) /\ Idx(q) = Cardinality(Q)
  BY <1>1 DEF Idx
<1>3. P \in SUBSET E /\ Q \in SUBSET E /\ P \cup {p} \in SUBSET Q /\ Q \cup {q} \in SUBSET E
      /\ p \notin P /\ q \notin Q
  BY <1>1
<1>4. p \in E /\ q \in E
  OBVIOUS
<1> HIDE DEF E, P, Q
<1>5. IsFiniteSet(P) /\ IsFiniteSet(Q)
  BY <1>1, <1>3, FS_Subset
<1>6. /\ Cardinality(P \cup {p}) = Cardinality(P) + 1 /\ Cardinality(P \cup {p}) <= Cardinality(Q)
  BY <1>3, <1>5, FS_Subset, FS_AddElement
<1>7. /\ Cardinality(Q \cup {q}) = Cardinality(Q) + 1 /\ Cardinality(Q \cup {q}) <= Cardinality(E)
  BY <1>1, <1>3, <1>5, FS_Subset, FS_AddElement
<1>8. Cardinality(P) \in Nat /\ Cardinality(Q) \in Nat /\ Cardinality(E) \in Nat
  BY <1>1, <1>5, FS_CardinalityType
<1>9. Cardinality(E) >= 2
  BY <1>6, <1>7, <1>8
<1> QED BY <1>2, <1>6, <1>8, <1>9 DEF E

LEMMA DefaultsDiffer ==
    ASSUME config \in Config, NEW p \in ToStart, NEW q \in ToStart, p # q,
           NEW x, DefaultOf(p, x), NEW y, DefaultOf(q, y)
    PROVE  x # y
<1> DEFINE s == config.sources[p].type
           t == config.sources[q].type
<1>1. p \in Nat /\ q \in Nat /\ s \in DOMAIN Turn /\ t \in DOMAIN Turn
  BY EnabledFacts
<1>2. /\ x.base \in Bases[s] /\ y.base \in Bases[t]
      /\ x.nr = Number(p) /\ y.nr = Number(q)
  BY DEF DefaultOf
<1>3. CASE s # t
  <2>1. \A c \in DOMAIN Turn, d \in DOMAIN Turn : c # d => Bases[c] \cap Bases[d] = {}
    <3>1. DOMAIN Turn = {"raw_udp", "jito", "doublezero", "yellowstone", "pcap"}
      BY DEF Turn
    <3>2. /\ Bases["raw_udp"] = {"Raw UDP"} /\ Bases["doublezero"] = {"DoubleZero"}
          /\ Bases["jito"] = {"Jito ShredStream", "Jito Entries"}
          /\ Bases["yellowstone"] = {"Yellowstone"} /\ Bases["pcap"] = {"Raw Capture"}
      BY DEF Bases
    <3>3. /\ Bases["raw_udp"] \cap Bases["jito"] = {}
          /\ Bases["raw_udp"] \cap Bases["doublezero"] = {}
          /\ Bases["raw_udp"] \cap Bases["yellowstone"] = {}
          /\ Bases["raw_udp"] \cap Bases["pcap"] = {}
      BY <3>2
    <3>4. /\ Bases["jito"] \cap Bases["doublezero"] = {}
          /\ Bases["jito"] \cap Bases["yellowstone"] = {}
          /\ Bases["jito"] \cap Bases["pcap"] = {}
      BY <3>2
    <3>5. /\ Bases["doublezero"] \cap Bases["yellowstone"] = {}
          /\ Bases["doublezero"] \cap Bases["pcap"] = {}
          /\ Bases["yellowstone"] \cap Bases["pcap"] = {}
      BY <3>2
    <3> QED BY <3>1, <3>3, <3>4, <3>5
  <2> HIDE DEF s, t
  <2> QED BY <1>1, <1>2, <1>3, <2>1
<1>4. CASE s = t
  <2>1. p \in Enabled(s) /\ q \in Enabled(s)
    BY <1>4 DEF Enabled
  <2>2. Number(p) # Number(q)
    <3>1. CASE p < q
      <4>1. /\ Idx(p) \in Nat /\ Idx(q) \in Nat /\ Idx(p) + 1 <= Idx(q)
            /\ Cardinality(Enabled(s)) \in Nat /\ Cardinality(Enabled(s)) >= 2
        BY <2>1, <3>1, IdxMonotone
      <4> QED BY <1>4, <4>1 DEF Number
    <3>2. CASE q < p
      <4>1. /\ Idx(p) \in Nat /\ Idx(q) \in Nat /\ Idx(q) + 1 <= Idx(p)
            /\ Cardinality(Enabled(s)) \in Nat /\ Cardinality(Enabled(s)) >= 2
        BY <2>1, <3>2, IdxMonotone
      <4> QED BY <1>4, <4>1 DEF Number
    <3> QED BY <1>1, <3>1, <3>2
  <2> QED BY <1>2, <2>2
<1> QED BY <1>3, <1>4

LEMMA SuffixedFields ==
    ASSUME NEW base, NEW nr, NEW suffix, NEW end
    PROVE  LET name == Suffixed([base |-> base, nr |-> nr, suffix |-> suffix], end)
           IN  name.base = base /\ name.nr = nr /\ name.suffix = end
  BY DEF Suffixed

(* What a name is: the user's, or a default of its block.                  *)
LEMMA NamesFit ==
    ASSUME config \in Config, NEW p \in ToStart, NEW type, config.sources[p].type = type,
           NEW default \in Bases[type]
    PROVE  /\ \A name : NameOf(p, name, default) =
                 IF name # NoName THEN name ELSE Name(default, Number(p))
           /\ DefaultOf(p, Name(default, Number(p)))
           /\ DefaultOf(p, Suffixed(Name(default, Number(p)), "account"))
           /\ Suffixed(Name(default, Number(p)), "account") # Name(default, Number(p))
<1> DEFINE name == Name(default, Number(p))
           acct == Suffixed(name, "account")
<1>1. name.base = default /\ name.nr = Number(p) /\ name.suffix = ""
  BY DEF Name
<1>2. acct.base = default /\ acct.nr = Number(p) /\ acct.suffix = "account"
  <2> DEFINE nr == Number(p)
             plain == ""
             end == "account"
  <2>1. name = [base |-> default, nr |-> nr, suffix |-> plain]
    BY DEF Name
  <2> HIDE DEF nr, plain, end, name
  <2>2. LET acc == Suffixed([base |-> default, nr |-> nr, suffix |-> plain], end)
        IN  acc.base = default /\ acc.nr = nr /\ acc.suffix = end
    BY SuffixedFields
  <2> QED BY <2>1, <2>2 DEF nr, end
<1> HIDE DEF name, acct
<1>4. DefaultOf(p, name) /\ DefaultOf(p, acct) /\ acct # name
  BY <1>1, <1>2 DEF DefaultOf
<1>3. ASSUME NEW given
      PROVE  NameOf(p, given, default) =
                IF given # NoName THEN given ELSE Name(default, Number(p))
  <2>1. NameOf(p, given, default) =
           IF given # NoName THEN given
           ELSE Name(default, IF Cardinality(Enabled(config.sources[p].type)) <= 1
                              THEN 0 ELSE Idx(p) + 1)
    BY DEF NameOf, source_name
  <2> QED BY <2>1 DEF Number
<1> QED BY <1>3, <1>4 DEF name, acct

LEMMA GivenFacts ==
    ASSUME config \in Config, NEW p \in ToStart, NEW name, name # NoName,
           \/ name = config.sources[p].name
           \/ p \in Enabled("yellowstone") /\ name = config.sources[p].account_name
    PROVE  Given(name) /\ \A end : Given(Suffixed(name, end))
<1>1. p \in DOMAIN config.sources
  BY DEF ToStart
<1>2. name \in Unsuffixed
  BY <1>1, ConfigAssumption DEF Enabled
<1>3. Plain(name) = name
  BY <1>2 DEF Plain, Unsuffixed
<1>4. \A end : Plain(Suffixed(name, end)) = name
  BY <1>2 DEF Plain, Suffixed, Unsuffixed
<1>5. name \in GivenNames
  BY DEF GivenNames
<1> QED BY <1>3, <1>4, <1>5 DEF Given

-----------------------------------------------------------------------------
(* The inductive invariant of RowsFitTheTasks: the ids of the rows are     *)
(* distinct, taken before next_id and in the log's map (TableInv); a name  *)
(* is given or the default of a started block (NameInv); a stamp has a row *)
(* and two tasks share one within a Jito block only (TaskInv); the routes  *)
(* of a socket that is not open yet are stamped by nobody (SocketInv); and *)
(* every row is stamped, or idle, or will be by the socket of its route    *)
(* (ServedInv).                                                            *)
JitoModes == {"jito_direct", "jito_listener", "jito_proxy"}

Disjoint(some, others) == \A r \in ToSet(some), s \in ToSet(others) : r.id # s.id

TableInv ==
    /\ \E S : active_shred_sources \in Seq(S)
    /\ \E S : active_entry_sources \in Seq(S)
    /\ DistinctIds(active_shred_sources) /\ DistinctIds(active_entry_sources)
    /\ Disjoint(active_shred_sources, active_entry_sources)
    /\ \A r \in AllRows :
          /\ r.id \in Nat /\ r.id < next_id
          /\ r.id \in DOMAIN source_names /\ source_names[r.id] = r.name

NameInv ==
    /\ \A r \in AllRows : Given(r.name) \/ \E p \in started : DefaultOf(p, r.name)
    /\ TwoRows(AllRows)

Share(s, t) == s # t /\ s.stamps \cap t.stamps # {}

OnlyJitoShares(set) ==
    \A s, t \in set : Share(s, t) => {s.mode, t.mode} \subseteq JitoModes

TaskInv ==
    /\ \A t \in tasks : \A tag \in t.stamps : \E r \in ToSet(Table(tag[2])) : r.id = tag[1]
    /\ OnlyJitoShares(tasks)

SocketInv ==
    /\ started # ToStart => Captured = {}
    /\ stage = "running" => DOMAIN groups = Captured
    /\ \A key \in DOMAIN groups \ Captured : \A i \in DOMAIN groups[key], t \in tasks :
          <<groups[key][i].source_id, "shred">> \notin t.stamps

Stamped(id, set) == \E t \in set, chan \in {"shred", "slot"} : <<id, chan>> \in t.stamps
Idle == \E p \in Enabled("jito") : config.sources[p].block_engine /\ ~config.sources[p].udp_bind
Routed(id) ==
    \E key \in DOMAIN groups \ Captured : \E i \in DOMAIN groups[key] :
        groups[key][i].source_id = id

ServedInv == \A r \in AllRows : Stamped(r.id, tasks) \/ Idle \/ Routed(r.id)

(* What the start of a block adds to the tables and the tasks.             *)
Adds(p, A, B, T) ==
    /\ Began(p)
    /\ \E S : A \in Seq(S) /\ B \in Seq(S)
    /\ Register(A, B)
    /\ tasks' = tasks \cup T
    /\ DistinctIds(A) /\ DistinctIds(B) /\ Disjoint(A, B)
    /\ \A r \in ToSet(A) \cup ToSet(B) :
          /\ r.id \in Nat /\ next_id <= r.id /\ r.id < next_id'
          /\ Given(r.name) \/ DefaultOf(p, r.name)
    /\ TwoRows(ToSet(A) \cup ToSet(B))
    /\ \A t \in T :
          /\ t.mode # "pcap"
          /\ \A tag \in t.stamps :
                \E r \in ToSet(IF tag[2] = "shred" THEN A ELSE B) : r.id = tag[1]
    /\ OnlyJitoShares(T)
    /\ \/ /\ UNCHANGED groups
          /\ \A r \in ToSet(A) \cup ToSet(B) : Stamped(r.id, T) \/ Idle
       \/ /\ BeganPcap(p)
          /\ T = {} /\ \A r \in ToSet(A) \cup ToSet(B) : r.id = next_id

LEMMA ConcatFacts ==
    ASSUME NEW S, NEW s \in Seq(S), NEW U, NEW a \in Seq(U)
    PROVE  /\ s \o a \in Seq(S \cup U)
           /\ ToSet(s \o a) = ToSet(s) \cup ToSet(a)
<1>1. s \in Seq(S \cup U) /\ a \in Seq(S \cup U)
  OBVIOUS
<1>2. /\ s \o a \in Seq(S \cup U)
      /\ Len(s) \in Nat /\ Len(a) \in Nat /\ DOMAIN s = 1..Len(s) /\ DOMAIN a = 1..Len(a)
      /\ DOMAIN (s \o a) = 1..Len(s) + Len(a)
      /\ \A i \in 1..Len(s) : (s \o a)[i] = s[i]
      /\ \A i \in 1..Len(a) : (s \o a)[Len(s) + i] = a[i]
  BY <1>1
<1>3. ASSUME NEW i \in DOMAIN (s \o a) PROVE (s \o a)[i] \in ToSet(s) \cup ToSet(a)
  <2>1. CASE i \in 1..Len(s)
    BY <1>2, <2>1 DEF ToSet
  <2>2. CASE i \notin 1..Len(s)
    <3>1. i - Len(s) \in 1..Len(a) /\ i = Len(s) + (i - Len(s))
      BY <1>2, <2>2
    <3>2. (s \o a)[i] = a[i - Len(s)]
      BY <1>2, <3>1
    <3> QED BY <1>2, <3>1, <3>2 DEF ToSet
  <2> QED BY <2>1, <2>2
<1>4. \A i \in DOMAIN s : s[i] \in ToSet(s \o a)
  <2> SUFFICES ASSUME NEW i \in DOMAIN s PROVE s[i] \in ToSet(s \o a)
    OBVIOUS
  <2>1. i \in DOMAIN (s \o a) /\ (s \o a)[i] = s[i]
    BY <1>2
  <2> QED BY <2>1 DEF ToSet
<1>5. \A i \in DOMAIN a : a[i] \in ToSet(s \o a)
  <2> SUFFICES ASSUME NEW i \in DOMAIN a PROVE a[i] \in ToSet(s \o a)
    OBVIOUS
  <2>1. Len(s) + i \in DOMAIN (s \o a) /\ (s \o a)[Len(s) + i] = a[i]
    BY <1>2
  <2> QED BY <2>1 DEF ToSet
<1>6. ToSet(s \o a) = ToSet(s) \cup ToSet(a)
  BY <1>3, <1>4, <1>5 DEF ToSet
<1> QED BY <1>2, <1>6

LEMMA DistinctConcat ==
    ASSUME NEW S, NEW s \in Seq(S), NEW U, NEW a \in Seq(U),
           DistinctIds(s), DistinctIds(a), Disjoint(s, a)
    PROVE  DistinctIds(s \o a)
<1>1. s \in Seq(S \cup U) /\ a \in Seq(S \cup U)
  OBVIOUS
<1>2. /\ Len(s) \in Nat /\ Len(a) \in Nat /\ DOMAIN s = 1..Len(s) /\ DOMAIN a = 1..Len(a)
      /\ DOMAIN (s \o a) = 1..Len(s) + Len(a)
      /\ \A i \in 1..Len(s) : (s \o a)[i] = s[i]
      /\ \A i \in 1..Len(a) : (s \o a)[Len(s) + i] = a[i]
  BY <1>1
<1>3. ASSUME NEW i \in DOMAIN (s \o a), i \notin DOMAIN s
      PROVE  /\ i - Len(s) \in DOMAIN a /\ i = Len(s) + (i - Len(s))
             /\ (s \o a)[i] = a[i - Len(s)]
  <2>1. i - Len(s) \in 1..Len(a) /\ i = Len(s) + (i - Len(s))
    BY <1>2, <1>3
  <2> QED BY <1>2, <2>1
<1>4. \A i \in DOMAIN s, j \in DOMAIN a : s[i].id # a[j].id
  BY DEF Disjoint, ToSet
<1> SUFFICES ASSUME NEW i \in DOMAIN (s \o a), NEW j \in DOMAIN (s \o a),
                    (s \o a)[i].id = (s \o a)[j].id
             PROVE  i = j
  BY DEF DistinctIds
<1>5. CASE i \in DOMAIN s /\ j \in DOMAIN s
  BY <1>2, <1>5 DEF DistinctIds
<1>6. CASE i \in DOMAIN s /\ j \notin DOMAIN s
  BY <1>2, <1>3, <1>4, <1>6
<1>7. CASE i \notin DOMAIN s /\ j \in DOMAIN s
  BY <1>2, <1>3, <1>4, <1>7
<1>8. CASE i \notin DOMAIN s /\ j \notin DOMAIN s
  <2>1. i - Len(s) = j - Len(s)
    BY <1>3, <1>8 DEF DistinctIds
  <2> QED BY <1>3, <1>8, <2>1
<1> QED BY <1>5, <1>6, <1>7, <1>8

(* The tables after a block was started.                                   *)
LEMMA RowsAfter ==
    ASSUME TableInv, NEW p, NEW A, NEW B, NEW T, Adds(p, A, B, T)
    PROVE  /\ \E S : active_shred_sources' \in Seq(S)
           /\ \E S : active_entry_sources' \in Seq(S)
           /\ ToSet(active_shred_sources)' = ToSet(active_shred_sources) \cup ToSet(A)
           /\ ToSet(active_entry_sources)' = ToSet(active_entry_sources) \cup ToSet(B)
           /\ AllRows' = AllRows \cup (ToSet(A) \cup ToSet(B))
<1>1. PICK S1 : active_shred_sources \in Seq(S1)
  BY DEF TableInv
<1>2. PICK S2 : active_entry_sources \in Seq(S2)
  BY DEF TableInv
<1>3. PICK U : A \in Seq(U) /\ B \in Seq(U)
  BY DEF Adds
<1>4. /\ active_shred_sources' = active_shred_sources \o A
      /\ active_entry_sources' = active_entry_sources \o B
  BY DEF Adds, Register
<1>5. active_shred_sources \o A \in Seq(S1 \cup U) /\ active_entry_sources \o B \in Seq(S2 \cup U)
  BY <1>1, <1>2, <1>3
<1>6. /\ ToSet(active_shred_sources \o A) = ToSet(active_shred_sources) \cup ToSet(A)
      /\ ToSet(active_entry_sources \o B) = ToSet(active_entry_sources) \cup ToSet(B)
  <2>1. A \in Seq(U) /\ B \in Seq(U)
    BY <1>3
  <2>2. ToSet(active_shred_sources \o A) = ToSet(active_shred_sources) \cup ToSet(A)
    BY <1>1, <2>1, ConcatFacts, ZenonT(30)
  <2>3. ToSet(active_entry_sources \o B) = ToSet(active_entry_sources) \cup ToSet(B)
    BY <1>2, <2>1, ConcatFacts, ZenonT(30)
  <2> QED BY <2>2, <2>3
<1>7. /\ ToSet(active_shred_sources)' = ToSet(active_shred_sources) \cup ToSet(A)
      /\ ToSet(active_entry_sources)' = ToSet(active_entry_sources) \cup ToSet(B)
  BY <1>4, <1>6
<1>8. AllRows' = AllRows \cup (ToSet(A) \cup ToSet(B))
  BY <1>7 DEF AllRows
<1> QED BY <1>4, <1>5, <1>7, <1>8

LEMMA TableInvAdds ==
    ASSUME OrderInv, TableInv, NEW p, NEW A, NEW B, NEW T, Adds(p, A, B, T)
    PROVE  TableInv'
<1> DEFINE new == ToSet(A) \cup ToSet(B)
<1>1. next_id \in Nat /\ next_id' \in Nat /\ next_id < next_id'
  BY DEF OrderInv, Adds, Began
<1>2. \A r \in AllRows : r.id \in Nat /\ r.id < next_id
  BY DEF TableInv
<1>3. \A r \in new : r.id \in Nat /\ next_id <= r.id /\ r.id < next_id'
  BY DEF Adds
<1>4. \A r \in AllRows, s \in new : r.id # s.id
  BY <1>1, <1>2, <1>3
<1>5. \A r, s \in new : r.id = s.id => r = s
  <2> SUFFICES ASSUME NEW r \in new, NEW s \in new, r.id = s.id PROVE r = s
    OBVIOUS
  <2>1. CASE r \in ToSet(A) /\ s \in ToSet(A)
    BY <2>1 DEF Adds, DistinctIds, ToSet
  <2>2. CASE r \in ToSet(B) /\ s \in ToSet(B)
    BY <2>2 DEF Adds, DistinctIds, ToSet
  <2>3. CASE r \in ToSet(A) /\ s \in ToSet(B)
    BY <2>3 DEF Adds, Disjoint
  <2>4. CASE r \in ToSet(B) /\ s \in ToSet(A)
    BY <2>4 DEF Adds, Disjoint
  <2> QED BY <2>1, <2>2, <2>3, <2>4
<1>6. /\ DistinctIds(active_shred_sources)' /\ DistinctIds(active_entry_sources)'
  <2>1. PICK S1 : active_shred_sources \in Seq(S1)
    BY DEF TableInv
  <2>2. PICK S2 : active_entry_sources \in Seq(S2)
    BY DEF TableInv
  <2>3. PICK U : A \in Seq(U) /\ B \in Seq(U)
    BY DEF Adds
  <2>4. /\ active_shred_sources' = active_shred_sources \o A
        /\ active_entry_sources' = active_entry_sources \o B
    BY DEF Adds, Register
  <2>5. Disjoint(active_shred_sources, A) /\ Disjoint(active_entry_sources, B)
    BY <1>4 DEF Disjoint, AllRows
  <2>6. /\ DistinctIds(active_shred_sources) /\ DistinctIds(active_entry_sources)
        /\ DistinctIds(A) /\ DistinctIds(B)
    BY DEF TableInv, Adds
  <2>7. DistinctIds(active_shred_sources \o A)
    BY <2>1, <2>3, <2>5, <2>6, DistinctConcat
  <2>8. DistinctIds(active_entry_sources \o B)
    BY <2>2, <2>3, <2>5, <2>6, DistinctConcat
  <2> QED BY <2>4, <2>7, <2>8 DEF DistinctIds
<1>7. Disjoint(active_shred_sources, active_entry_sources)'
  <2>1. /\ ToSet(active_shred_sources)' = ToSet(active_shred_sources) \cup ToSet(A)
        /\ ToSet(active_entry_sources)' = ToSet(active_entry_sources) \cup ToSet(B)
    BY RowsAfter
  <2>2. \A r \in ToSet(active_shred_sources), s \in ToSet(active_entry_sources) : r.id # s.id
    BY DEF TableInv, Disjoint
  <2>3. \A r \in ToSet(A), s \in ToSet(B) : r.id # s.id
    BY DEF Adds, Disjoint
  <2>4. \A r \in ToSet(active_shred_sources), s \in ToSet(B) : r.id # s.id
    BY <1>4 DEF AllRows
  <2>5. \A r \in ToSet(A), s \in ToSet(active_entry_sources) : r.id # s.id
    BY <1>4 DEF AllRows
  <2> QED BY <2>1, <2>2, <2>3, <2>4, <2>5 DEF Disjoint
<1>8. \A r \in AllRows' :
          /\ r.id \in Nat /\ r.id < next_id'
          /\ r.id \in DOMAIN source_names' /\ source_names'[r.id] = r.name
  <2> SUFFICES ASSUME NEW r \in AllRows'
               PROVE  /\ r.id \in Nat /\ r.id < next_id'
                      /\ r.id \in DOMAIN source_names' /\ source_names'[r.id] = r.name
    OBVIOUS
  <2>0. source_names' = Named(new)
    BY DEF Adds, Register
  <2>1. CASE r \in AllRows
    <3>1. r.id \in DOMAIN source_names /\ source_names[r.id] = r.name
      BY <2>1 DEF TableInv
    <3>2. ~\E s \in new : s.id = r.id
      BY <1>4, <2>1
    <3> HIDE DEF new
    <3> QED BY <1>1, <1>2, <2>0, <2>1, <3>1, <3>2 DEF Named
  <2>2. CASE r \in new
    <3>1. \A s \in new : s.id = r.id => s = r
      BY <1>5, <2>2
    <3> HIDE DEF new
    <3>2. (CHOOSE s \in new : s.id = r.id) = r
      BY <2>2, <3>1
    <3> QED BY <1>3, <2>0, <2>2, <3>2 DEF Named
  <2> QED BY <2>1, <2>2, RowsAfter
<1>9. /\ \E S : active_shred_sources' \in Seq(S)
      /\ \E S : active_entry_sources' \in Seq(S)
  BY RowsAfter
<1> QED BY <1>6, <1>7, <1>8, <1>9 DEF TableInv

-----------------------------------------------------------------------------
(* Starting a block keeps the invariant, whatever it adds.                 *)
LEMMA NamesStay ==
    ASSUME UNCHANGED config
    PROVE  /\ \A name : Given(name)' = Given(name)
           /\ \A p, name : DefaultOf(p, name)' = DefaultOf(p, name)
           /\ Idle' = Idle
<1>1. ToStart' = ToStart /\ \A type : Enabled(type)' = Enabled(type)
  BY ConfigStays
<1>2. GivenNames' = GivenNames
  BY <1>1 DEF GivenNames
<1>3. \A name : Given(name)' = Given(name)
  BY <1>2 DEF Given, Plain
<1>4. \A p : Number(p)' = Number(p)
  BY <1>1, ConfigStays DEF Number
<1>5. \A p, name : DefaultOf(p, name)' = DefaultOf(p, name)
  BY <1>4 DEF DefaultOf, Bases
<1>6. Idle' = Idle
  BY <1>1 DEF Idle
<1> QED BY <1>3, <1>5, <1>6

LEMMA NameInvAdds ==
    ASSUME OrderInv, TableInv, NameInv, NEW p, NEW A, NEW B, NEW T, Adds(p, A, B, T)
    PROVE  NameInv'
<1> DEFINE new == ToSet(A) \cup ToSet(B)
<1>1. /\ UNCHANGED config /\ started' = started \cup {p} /\ p \in ToStart \ started
      /\ started \subseteq ToStart /\ config \in Config
  BY DEF Adds, Began, OrderInv
<1>2. /\ \A name : Given(name)' = Given(name)
      /\ \A q, name : DefaultOf(q, name)' = DefaultOf(q, name)
  BY <1>1, NamesStay
<1>3. AllRows' = AllRows \cup new
  BY RowsAfter
<1>4. \A r \in new : Given(r.name) \/ DefaultOf(p, r.name)
  BY DEF Adds
<1>5. TwoRows(new) /\ TwoRows(AllRows)
  BY DEF Adds, NameInv
<1> HIDE DEF new
<1>6. \A r \in AllRows' : Given(r.name) \/ \E q \in started' : DefaultOf(q, r.name)
  BY <1>1, <1>3, <1>4 DEF NameInv
<1>7. \A r \in AllRows, s \in new : r.name = s.name => Given(r.name)
  <2> SUFFICES ASSUME NEW r \in AllRows, NEW s \in new, r.name = s.name, ~Given(r.name)
               PROVE  FALSE
    OBVIOUS
  <2>1. PICK q \in started : DefaultOf(q, r.name)
    BY DEF NameInv
  <2>2. DefaultOf(p, s.name)
    BY <1>4
  <2>3. q # p /\ q \in ToStart
    BY <1>1
  <2> QED BY <1>1, <2>1, <2>2, <2>3, DefaultsDiffer
<1>8. \A r, s \in AllRows' : r # s /\ r.name = s.name => Given(r.name)
  BY <1>3, <1>5, <1>7 DEF TwoRows
<1> QED BY <1>2, <1>6, <1>8 DEF NameInv, TwoRows

LEMMA OldTags ==
    ASSUME TableInv, TaskInv, NEW t \in tasks, NEW tag \in t.stamps
    PROVE  tag[1] \in Nat /\ tag[1] < next_id
<1>1. PICK r \in ToSet(Table(tag[2])) : r.id = tag[1]
  BY DEF TaskInv
<1>2. r \in AllRows
  BY DEF Table, AllRows
<1> QED BY <1>1, <1>2 DEF TableInv

LEMMA NewTags ==
    ASSUME NEW p, NEW A, NEW B, NEW T, Adds(p, A, B, T), NEW t \in T, NEW tag \in t.stamps
    PROVE  /\ tag[1] \in Nat /\ next_id <= tag[1]
           /\ \E r \in ToSet(IF tag[2] = "shred" THEN A ELSE B) : r.id = tag[1]
<1>1. PICK r \in ToSet(IF tag[2] = "shred" THEN A ELSE B) : r.id = tag[1]
  BY DEF Adds
<1>2. r \in ToSet(A) \cup ToSet(B)
  BY <1>1
<1> QED BY <1>1, <1>2 DEF Adds

LEMMA TaskInvAdds ==
    ASSUME OrderInv, TableInv, TaskInv, NEW p, NEW A, NEW B, NEW T, Adds(p, A, B, T)
    PROVE  TaskInv'
<1>1. tasks' = tasks \cup T /\ OnlyJitoShares(T) /\ OnlyJitoShares(tasks)
  BY DEF Adds, TaskInv
<1>2. /\ ToSet(active_shred_sources)' = ToSet(active_shred_sources) \cup ToSet(A)
      /\ ToSet(active_entry_sources)' = ToSet(active_entry_sources) \cup ToSet(B)
  BY RowsAfter
<1>3. \A chan : ToSet(Table(chan))' =
                   ToSet(Table(chan)) \cup ToSet(IF chan = "shred" THEN A ELSE B)
  BY <1>2 DEF Table
<1>4. \A t \in tasks' : \A tag \in t.stamps : \E r \in ToSet(Table(tag[2]))' : r.id = tag[1]
  <2> SUFFICES ASSUME NEW t \in tasks', NEW tag \in t.stamps
               PROVE  \E r \in ToSet(Table(tag[2]))' : r.id = tag[1]
    OBVIOUS
  <2>1. CASE t \in tasks
    BY <1>3, <2>1 DEF TaskInv
  <2>2. CASE t \in T
    BY <1>3, <2>2, NewTags
  <2> QED BY <1>1, <2>1, <2>2
<1>5. next_id \in Nat
  BY DEF OrderInv
<1>6. \A s \in tasks, t \in T : s.stamps \cap t.stamps = {}
  <2> SUFFICES ASSUME NEW s \in tasks, NEW t \in T, NEW tag \in s.stamps, tag \in t.stamps
               PROVE  FALSE
    OBVIOUS
  <2>1. tag[1] \in Nat /\ tag[1] < next_id
    BY OldTags
  <2>2. next_id <= tag[1]
    BY NewTags
  <2> QED BY <1>5, <2>1, <2>2
<1>7. OnlyJitoShares(tasks \cup T)
  BY <1>1, <1>6 DEF OnlyJitoShares, Share
<1> QED BY <1>1, <1>4, <1>7 DEF TaskInv

(* The ids of the routes are those of pcap rows.                           *)
LEMMA RouteRows ==
    ASSUME CaptureInv, NEW key \in DOMAIN groups, NEW i \in DOMAIN groups[key]
    PROVE  /\ \E r \in ToSet(active_shred_sources) : r.id = groups[key][i].source_id
           /\ groups[key][i].source_id \in Nat /\ groups[key][i].source_id < next_id
<1>1. PICK q \in PcapStarted : groups[key][i] = Route(q, IdOf(q))
  BY DEF CaptureInv, GroupsInv
<1>2. Pos(q) \in DOMAIN active_shred_sources
  BY DEF CaptureInv, GroupsInv
<1>3. groups[key][i].source_id = active_shred_sources[Pos(q)].id
  BY <1>1 DEF Route, IdOf
<1>4. active_shred_sources[Pos(q)] \in ToSet(active_shred_sources)
  BY <1>2 DEF ToSet
<1> QED BY <1>2, <1>3, <1>4 DEF CaptureInv, ShredRowsInv

LEMMA CapturedStays ==
    ASSUME NEW p, NEW A, NEW B, NEW T, Adds(p, A, B, T)
    PROVE  Captured' = Captured
<1>1. tasks' = tasks \cup T /\ \A t \in T : t.mode # "pcap"
  BY DEF Adds
<1> QED BY <1>1 DEF Captured

LEMMA SocketInvAdds ==
    ASSUME CaptureInv, TableInv, TaskInv, SocketInv, NEW p, NEW A, NEW B, NEW T,
           Adds(p, A, B, T)
    PROVE  SocketInv'
<1>1. Captured' = Captured /\ tasks' = tasks \cup T /\ next_id \in Nat
  BY CapturedStays DEF Adds, CaptureInv, OrderInv
<1>2. started # ToStart /\ stage' = "starting"
  BY DEF Adds, Began
<1>3. Captured = {}
  BY <1>2 DEF SocketInv
<1>4. \A t \in tasks' : \A key \in DOMAIN groups : \A i \in DOMAIN groups[key] :
         <<groups[key][i].source_id, "shred">> \notin t.stamps
  <2> SUFFICES ASSUME NEW t \in tasks', NEW key \in DOMAIN groups, NEW i \in DOMAIN groups[key],
                      <<groups[key][i].source_id, "shred">> \in t.stamps
               PROVE  FALSE
    OBVIOUS
  <2>1. t \notin tasks
    BY <1>3 DEF SocketInv
  <2>2. t \in T
    BY <1>1, <2>1
  <2>3. next_id <= groups[key][i].source_id
    BY <2>2, NewTags
  <2> QED BY <1>1, <2>3, RouteRows
<1>5. \A t \in tasks' : \A key \in DOMAIN groups' : \A i \in DOMAIN groups'[key] :
         <<groups'[key][i].source_id, "shred">> \notin t.stamps
  <2>1. CASE UNCHANGED groups
    BY <1>4, <2>1
  <2>2. CASE BeganPcap(p) /\ T = {}
    <3> SUFFICES ASSUME NEW t \in tasks', NEW key \in DOMAIN groups',
                        NEW i \in DOMAIN groups'[key],
                        <<groups'[key][i].source_id, "shred">> \in t.stamps
                 PROVE  FALSE
      OBVIOUS
    <3>1. CASE key \in DOMAIN groups /\ i \in DOMAIN groups[key]
                  /\ groups'[key][i] = groups[key][i]
      BY <1>4, <3>1
    <3>2. CASE groups'[key][i] = Route(p, next_id)
      <4>1. groups'[key][i].source_id = next_id
        BY <3>2 DEF Route
      <4>2. t \in tasks
        BY <1>1, <2>2
      <4> QED BY <1>1, <4>1, <4>2, OldTags
    <3> QED BY <2>2, <3>1, <3>2, PcapRoutes DEF CaptureInv
  <2> QED BY <2>1, <2>2 DEF Adds
<1> QED BY <1>1, <1>2, <1>3, <1>5 DEF SocketInv

LEMMA ServedInvAdds ==
    ASSUME CaptureInv, TableInv, SocketInv, ServedInv, NEW p, NEW A, NEW B, NEW T,
           Adds(p, A, B, T)
    PROVE  ServedInv'
<1>1. /\ Captured' = Captured /\ tasks' = tasks \cup T /\ Idle' = Idle
      /\ AllRows' = AllRows \cup (ToSet(A) \cup ToSet(B))
  BY CapturedStays, NamesStay, RowsAfter DEF Adds, Began
<1>2. \A id : Stamped(id, tasks) \/ Stamped(id, T) => Stamped(id, tasks')
  BY <1>1 DEF Stamped
<1>3. Captured = {}
  BY DEF Adds, Began, SocketInv
<1>4. \A id : Routed(id) => Routed(id)'
  <2>1. CASE UNCHANGED groups
    BY <1>1, <2>1 DEF Routed
  <2>2. CASE BeganPcap(p)
    <3>1. \A k \in DOMAIN groups : \A i \in DOMAIN groups[k] :
             k \in DOMAIN groups' /\ i \in DOMAIN groups'[k] /\ groups'[k][i] = groups[k][i]
      BY <2>2, PcapRoutes DEF CaptureInv
    <3> QED BY <1>1, <3>1 DEF Routed
  <2> QED BY <2>1, <2>2 DEF Adds
<1>5. \A r \in ToSet(A) \cup ToSet(B) : Stamped(r.id, T) \/ Idle \/ Routed(r.id)'
  <2>1. CASE BeganPcap(p) /\ \A r \in ToSet(A) \cup ToSet(B) : r.id = next_id
    <3> DEFINE key == Socket(p)
               m == IF key \in DOMAIN groups THEN Len(groups[key]) ELSE 0
               n == m + 1
    <3>1. key \in DOMAIN groups' /\ n \in DOMAIN groups'[key]
             /\ groups'[key][n] = Route(p, next_id)
      BY <2>1, PcapRoutes DEF CaptureInv
    <3> HIDE DEF n, m
    <3>2. groups'[key][n].source_id = next_id
      BY <3>1 DEF Route
    <3> SUFFICES ASSUME NEW r \in ToSet(A) \cup ToSet(B) PROVE Routed(r.id)'
      OBVIOUS
    <3> QED BY <1>1, <1>3, <2>1, <3>1, <3>2 DEF Routed
  <2> QED BY <2>1 DEF Adds
<1> QED BY <1>1, <1>2, <1>4, <1>5 DEF ServedInv

-----------------------------------------------------------------------------
(* What each kind of block adds: listeners and pcap blocks one row.        *)
LEMMA ShortTables ==
    /\ ToSet(<<>>) = {} /\ DistinctIds(<<>>) /\ <<>> \in Seq({})
    /\ \A r : ToSet(<<r>>) = {r} /\ DistinctIds(<<r>>) /\ <<r>> \in Seq({r})
    /\ \A r, s : /\ ToSet(<<r, s>>) = {r, s} /\ <<r, s>> \in Seq({r, s})
                 /\ r.id # s.id => DistinctIds(<<r, s>>)
<1>1. ToSet(<<>>) = {} /\ DistinctIds(<<>>) /\ <<>> \in Seq({})
  BY DEF ToSet, DistinctIds
<1>2. ASSUME NEW r PROVE ToSet(<<r>>) = {r} /\ DistinctIds(<<r>>) /\ <<r>> \in Seq({r})
  BY DEF ToSet, DistinctIds
<1>3. ASSUME NEW r, NEW s
      PROVE  /\ ToSet(<<r, s>>) = {r, s} /\ <<r, s>> \in Seq({r, s})
             /\ r.id # s.id => DistinctIds(<<r, s>>)
  <2> DEFINE both == <<r, s>>
  <2>1. DOMAIN both = {1, 2} /\ both[1] = r /\ both[2] = s /\ both \in Seq({r, s})
    OBVIOUS
  <2> HIDE DEF both
  <2>2. ToSet(both) = {r, s}
    BY <2>1 DEF ToSet
  <2>3. r.id # s.id => DistinctIds(both)
    BY <2>1 DEF DistinctIds
  <2> QED BY <2>1, <2>2, <2>3 DEF both
<1> QED BY <1>1, <1>2, <1>3

LEMMA IfTable ==
    ASSUME NEW set, NEW r
    PROVE  ToSet(If(set, r)) = When(set, r) /\ DistinctIds(If(set, r)) /\ If(set, r) \in Seq({r})
<1>1. CASE set
  BY <1>1, ShortTables DEF If, When
<1>2. CASE ~set
  BY <1>2, ShortTables DEF If, When
<1> QED BY <1>1, <1>2

LEMMA BlockNames ==
    ASSUME config \in Config, NEW p \in ToStart, NEW type, config.sources[p].type = type,
           NEW default \in Bases[type]
    PROVE  LET name == NameOf(p, config.sources[p].name, default)
           IN  Given(name) \/ (DefaultOf(p, name) /\ name = Name(default, Number(p)))
<1>1. config.sources[p].name \in Unsuffixed
  BY ConfigAssumption DEF ToStart
<1>2. CASE config.sources[p].name = NoName
  BY <1>1, <1>2, NamesFit
<1>3. CASE config.sources[p].name # NoName
  BY <1>1, <1>3, NamesFit, GivenFacts
<1> QED BY <1>2, <1>3

LEMMA OneRow ==
    ASSUME OrderInv, NEW p, Began(p), NEW name, Given(name) \/ DefaultOf(p, name),
           next_id' = next_id + 1
    PROVE  LET row == [id |-> next_id, name |-> name]
           IN  /\ \A r \in ToSet(<<row>>) \cup ToSet(<<>>) :
                     /\ r.id \in Nat /\ next_id <= r.id /\ r.id < next_id'
                     /\ Given(r.name) \/ DefaultOf(p, r.name)
               /\ \E S : <<row>> \in Seq(S) /\ <<>> \in Seq(S)
               /\ DistinctIds(<<row>>) /\ DistinctIds(<<>>) /\ Disjoint(<<row>>, <<>>)
               /\ TwoRows(ToSet(<<row>>) \cup ToSet(<<>>))
               /\ \A r \in ToSet(<<row>>) \cup ToSet(<<>>) : r.id = next_id
               /\ \E r \in ToSet(<<row>>) : r.id = next_id
<1> DEFINE row == [id |-> next_id, name |-> name]
<1>1. row.id = next_id /\ row.name = name
  OBVIOUS
<1> HIDE DEF row
<1>2. /\ ToSet(<<row>>) = {row} /\ ToSet(<<>>) = {} /\ DistinctIds(<<row>>) /\ DistinctIds(<<>>)
  BY ShortTables
<1>3. <<row>> \in Seq({row}) /\ <<>> \in Seq({row})
  OBVIOUS
<1>4. next_id \in Nat
  BY DEF OrderInv
<1>5. TwoRows({row} \cup {}) /\ Disjoint(<<row>>, <<>>)
  BY <1>2 DEF TwoRows, Disjoint
<1>6. \A r \in ToSet(<<row>>) \cup ToSet(<<>>) :
         /\ r.id \in Nat /\ next_id <= r.id /\ r.id < next_id'
         /\ Given(r.name) \/ DefaultOf(p, r.name)
  BY <1>1, <1>2, <1>4
<1>7. /\ \E S : <<row>> \in Seq(S) /\ <<>> \in Seq(S)
      /\ \A r \in ToSet(<<row>>) \cup ToSet(<<>>) : r.id = next_id
      /\ \E r \in ToSet(<<row>>) : r.id = next_id
  BY <1>1, <1>2, <1>3
<1>8. TwoRows(ToSet(<<row>>) \cup ToSet(<<>>))
  BY <1>2, <1>5
<1> QED BY <1>2, <1>5, <1>6, <1>7, <1>8 DEF row

LEMMA ListenerAdds ==
    ASSUME CaptureInv, NEW p \in ToStart, NEW type \in {"raw_udp", "doublezero"},
           NEW default \in Bases[type], StartListener(p, type, default)
    PROVE  \E A, B, T : Adds(p, A, B, T)
<1> DEFINE name == NameOf(p, config.sources[p].name, default)
           row == [id |-> next_id, name |-> name]
           task == Task(type, TRUE, {<<next_id, "shred">>})
<1>1. /\ Began(p) /\ UNCHANGED groups /\ next_id' = next_id + 1
      /\ Register(<<row>>, <<>>) /\ tasks' = tasks \cup {task}
  BY BlockBegins DEF StartListener, CaptureInv
<1>2. config.sources[p].type = type
  BY DEF StartListener, Starting, Enabled
<1>3. Given(name) \/ DefaultOf(p, name)
  BY <1>2, BlockNames DEF CaptureInv, OrderInv
<1>4. task.mode = type /\ task.stamps = {<<next_id, "shred">>}
  BY DEF Task
<1> HIDE DEF name, task
<1>5. /\ \A r \in ToSet(<<row>>) \cup ToSet(<<>>) :
            /\ r.id \in Nat /\ next_id <= r.id /\ r.id < next_id'
            /\ Given(r.name) \/ DefaultOf(p, r.name)
      /\ \E S : <<row>> \in Seq(S) /\ <<>> \in Seq(S)
      /\ DistinctIds(<<row>>) /\ DistinctIds(<<>>) /\ Disjoint(<<row>>, <<>>)
      /\ TwoRows(ToSet(<<row>>) \cup ToSet(<<>>))
      /\ \A r \in ToSet(<<row>>) \cup ToSet(<<>>) : r.id = next_id
      /\ \E r \in ToSet(<<row>>) : r.id = next_id
  BY <1>1, <1>3, OneRow DEF CaptureInv
<1> HIDE DEF row
<1>6. OnlyJitoShares({task})
  BY DEF OnlyJitoShares, Share
<1>7. Stamped(next_id, {task})
  BY <1>4 DEF Stamped
<1>8. \A t \in {task} : /\ t.mode # "pcap"
                        /\ \A tag \in t.stamps :
                              \E r \in ToSet(IF tag[2] = "shred" THEN <<row>> ELSE <<>>) :
                                  r.id = tag[1]
  BY <1>4, <1>5
<1>9. Adds(p, <<row>>, <<>>, {task})
  BY <1>1, <1>5, <1>6, <1>7, <1>8 DEF Adds
<1> QED BY <1>9

LEMMA PcapAdds ==
    ASSUME CaptureInv, NEW p \in ToStart, AddPcap(p)
    PROVE  \E A, B, T : Adds(p, A, B, T)
<1> DEFINE name == NameOf(p, config.sources[p].name, "Raw Capture")
           row == [id |-> next_id, name |-> name]
<1>1. BeganPcap(p) /\ Began(p) /\ next_id' = next_id + 1
  BY BlockBegins DEF CaptureInv, BeganPcap
<1>2. Register(<<row>>, <<>>) /\ tasks' = tasks \cup {}
  BY DEF AddPcap
<1>3. Given(name) \/ DefaultOf(p, name)
  <2>1. "Raw Capture" \in Bases["pcap"] /\ config.sources[p].type = "pcap"
    BY <1>1 DEF Bases, BeganPcap
  <2> QED BY <2>1, BlockNames DEF CaptureInv, OrderInv
<1> HIDE DEF name
<1>5. /\ \A r \in ToSet(<<row>>) \cup ToSet(<<>>) :
            /\ r.id \in Nat /\ next_id <= r.id /\ r.id < next_id'
            /\ Given(r.name) \/ DefaultOf(p, r.name)
      /\ \E S : <<row>> \in Seq(S) /\ <<>> \in Seq(S)
      /\ DistinctIds(<<row>>) /\ DistinctIds(<<>>) /\ Disjoint(<<row>>, <<>>)
      /\ TwoRows(ToSet(<<row>>) \cup ToSet(<<>>))
      /\ \A r \in ToSet(<<row>>) \cup ToSet(<<>>) : r.id = next_id
  BY <1>1, <1>3, OneRow DEF CaptureInv
<1> HIDE DEF row
<1>6. OnlyJitoShares({})
  BY DEF OnlyJitoShares
<1>7. Adds(p, <<row>>, <<>>, {})
  BY <1>1, <1>2, <1>5, <1>6 DEF Adds
<1> QED BY <1>7

-----------------------------------------------------------------------------
(* Jito and Yellowstone blocks: up to two rows, and names for them.        *)
LEMMA NamesDiffer ==
    ASSUME NEW b, NEW c, b # c, NEW nr
    PROVE  Name(b, nr) # Name(c, nr)
<1>1. Name(b, nr).base = b /\ Name(c, nr).base = c
  BY DEF Name
<1> QED BY <1>1

LEMMA TwoTogether == \A r, s : <<r>> \o <<s>> = <<r, s>>
<1> SUFFICES ASSUME NEW r, NEW s PROVE <<r>> \o <<s>> = <<r, s>>
  OBVIOUS
<1> DEFINE u == <<r>>
           w == <<r, s>>
<1>1. /\ u \in Seq({r, s}) /\ Len(u) = 1 /\ u[1] = r
      /\ w \in Seq({r, s}) /\ Len(w) = 2 /\ w[1] = r /\ w[2] = s
  OBVIOUS
<1> HIDE DEF u, w
<1>2. /\ u \o <<s>> \in Seq({r, s}) /\ Len(u \o <<s>>) = 2
      /\ (u \o <<s>>)[1] = r /\ (u \o <<s>>)[2] = s
  <2>1. DOMAIN u = 1..1
    BY <1>1
  <2> QED BY <1>1, <2>1, Appended
<1>3. u \o <<s>> = w
  BY <1>1, <1>2
<1> QED BY <1>3 DEF u, w

LEMMA JitoAdds ==
    ASSUME CaptureInv, NEW p \in ToStart, StartJito(p)
    PROVE  \E A, B, T : Adds(p, A, B, T)
<1> DEFINE block == config.sources[p]
           has_udp == block.block_engine \/ block.proxy_udp
           shred_name == NameOf(p, block.name, "Jito ShredStream")
           entry_name == IF block.name = NoName THEN NameOf(p, NoName, "Jito Entries")
                         ELSE Suffixed(block.name, "entries")
           r == [id |-> next_id, name |-> shred_name]
           s == [id |-> next_id + 1, name |-> entry_name]
           A == If(has_udp, r)
           B == If(block.proxy_grpc, s)
           shred == <<next_id, "shred">>
           entry == <<next_id + 1, "slot">>
           direct == Task("jito_direct", FALSE, When(block.udp_bind, shred))
           proxy == Task("jito_proxy", TRUE, {shred})
           entries == Task("jito_entries", FALSE, {entry})
           T == When(block.block_engine, direct) \cup When(block.proxy_udp, proxy)
                   \cup When(block.proxy_grpc, entries)
<1>1. Began(p) /\ UNCHANGED groups /\ p \in Enabled("jito") /\ block.type = "jito"
  BY BlockBegins DEF CaptureInv, StartJito, Starting, Enabled
<1>2. /\ next_id' = next_id + 2 /\ Register(A, B) /\ tasks' = tasks \cup T
  BY DEF StartJito
<1>3. next_id \in Nat /\ config \in Config
  BY DEF CaptureInv, OrderInv
<1>5. /\ "Jito ShredStream" \in Bases["jito"] /\ "Jito Entries" \in Bases["jito"]
      /\ "Jito ShredStream" # "Jito Entries"
  BY DEF Bases
<1>6. /\ Given(shred_name) \/ DefaultOf(p, shred_name)
      /\ Given(entry_name) \/ DefaultOf(p, entry_name)
      /\ shred_name = entry_name => Given(shred_name)
  <2>2. CASE block.name = NoName
    <3>1. /\ shred_name = Name("Jito ShredStream", Number(p))
          /\ entry_name = Name("Jito Entries", Number(p))
      BY <1>1, <1>3, <1>5, <2>2, NamesFit
    <3>2. DefaultOf(p, shred_name) /\ DefaultOf(p, entry_name)
      BY <1>1, <1>3, <1>5, <3>1, NamesFit
    <3>3. shred_name # entry_name
      <4> DEFINE b == "Jito ShredStream"
                 c == "Jito Entries"
                 nr == Number(p)
      <4>1. b # c /\ shred_name = Name(b, nr) /\ entry_name = Name(c, nr)
        BY <3>1
      <4> HIDE DEF b, c, nr, shred_name, entry_name
      <4> QED BY <4>1, NamesDiffer
    <3> QED BY <3>2, <3>3
  <2>3. CASE block.name # NoName
    <3>1. shred_name = block.name
      <4> DEFINE default == "Jito ShredStream"
                 name == block.name
      <4>1. default \in Bases["jito"]
        BY <1>5
      <4> HIDE DEF default, name
      <4>2. NameOf(p, name, default) = IF name # NoName THEN name ELSE Name(default, Number(p))
        BY <1>1, <1>3, <4>1, NamesFit
      <4> QED BY <2>3, <4>2 DEF default, name
    <3>2. entry_name = Suffixed(block.name, "entries")
      BY <2>3
    <3>3. Given(block.name) /\ \A end : Given(Suffixed(block.name, end))
      BY <1>3, <2>3, GivenFacts
    <3> QED BY <3>1, <3>2, <3>3
  <2> QED BY <2>2, <2>3
<1>7. /\ r.id = next_id /\ r.name = shred_name /\ s.id = next_id + 1 /\ s.name = entry_name
      /\ r.id # s.id
  BY <1>3
<1>8. /\ direct.mode = "jito_direct" /\ direct.stamps = When(block.udp_bind, shred)
      /\ proxy.mode = "jito_proxy" /\ proxy.stamps = {shred}
      /\ entries.mode = "jito_entries" /\ entries.stamps = {entry}
  BY DEF Task
<1>9. /\ shred[1] = r.id /\ shred[2] = "shred" /\ entry[1] = s.id /\ entry[2] = "slot"
      /\ shred = <<r.id, "shred">> /\ entry = <<s.id, "slot">> /\ shred # entry
  BY <1>7
<1> HIDE DEF shred_name, entry_name, r, s, shred, entry, direct, proxy, entries
<1>10. /\ ToSet(A) = When(has_udp, r) /\ DistinctIds(A) /\ A \in Seq({r})
       /\ ToSet(B) = When(block.proxy_grpc, s) /\ DistinctIds(B) /\ B \in Seq({s})
  BY IfTable
<1>11. \E S : A \in Seq(S) /\ B \in Seq(S)
  <2>1. A \in Seq({r, s}) /\ B \in Seq({r, s})
    BY <1>10
  <2> QED BY <2>1
<1> HIDE DEF A, B
<1>12. ToSet(A) \subseteq {r} /\ ToSet(B) \subseteq {s}
  BY <1>10 DEF When
<1>13. Disjoint(A, B) /\ TwoRows(ToSet(A) \cup ToSet(B))
  BY <1>6, <1>7, <1>12 DEF Disjoint, TwoRows
<1>14. \A row \in ToSet(A) \cup ToSet(B) :
          /\ row.id \in Nat /\ next_id <= row.id /\ row.id < next_id'
          /\ Given(row.name) \/ DefaultOf(p, row.name)
  BY <1>2, <1>3, <1>6, <1>7, <1>12
<1>15. /\ direct \in T <=> block.block_engine
       /\ proxy \in T <=> block.proxy_udp
       /\ entries \in T <=> block.proxy_grpc
       /\ T \subseteq {direct, proxy, entries}
  BY <1>8 DEF When
<1> HIDE DEF T
<1>16. \A t \in T : /\ t.mode # "pcap"
                    /\ \A tag \in t.stamps :
                          \E row \in ToSet(IF tag[2] = "shred" THEN A ELSE B) : row.id = tag[1]
  <2>1. has_udp => r \in ToSet(A)
    BY <1>10 DEF When
  <2>2. block.proxy_grpc => s \in ToSet(B)
    BY <1>10 DEF When
  <2>3. direct.stamps \subseteq {shred}
    BY <1>8 DEF When
  <2>4. \A t \in T : t.mode # "pcap"
    BY <1>8, <1>15
  <2>5. ASSUME NEW t \in T, NEW tag \in t.stamps
        PROVE  \E row \in ToSet(IF tag[2] = "shred" THEN A ELSE B) : row.id = tag[1]
    <3>1. CASE t = direct \/ t = proxy
      <4>1. has_udp /\ tag = shred
        BY <1>8, <1>15, <2>3, <2>5, <3>1
      <4> QED BY <1>9, <2>1, <4>1
    <3>2. CASE t = entries
      <4>1. block.proxy_grpc /\ tag = entry
        BY <1>8, <1>15, <2>5, <3>2
      <4> QED BY <1>9, <2>2, <4>1
    <3> QED BY <1>15, <3>1, <3>2
  <2> QED BY <2>4, <2>5
<1>17. OnlyJitoShares(T)
  <2>1. direct.stamps \subseteq {shred}
    BY <1>8 DEF When
  <2>2. entries.stamps \cap direct.stamps = {} /\ entries.stamps \cap proxy.stamps = {}
    BY <1>8, <1>9, <2>1
  <2>3. direct.mode \in JitoModes /\ proxy.mode \in JitoModes
    BY <1>8 DEF JitoModes
  <2> SUFFICES ASSUME NEW t \in T, NEW u \in T, Share(t, u) PROVE {t.mode, u.mode} \subseteq JitoModes
    BY DEF OnlyJitoShares
  <2>4. t # u /\ t.stamps \cap u.stamps # {}
    BY DEF Share
  <2> QED BY <1>15, <2>2, <2>3, <2>4
<1>18. \A row \in ToSet(A) \cup ToSet(B) : Stamped(row.id, T) \/ Idle
  <2>1. ASSUME has_udp PROVE Stamped(r.id, T) \/ Idle
    <3>1. CASE block.proxy_udp
      <4>1. proxy \in T /\ <<r.id, "shred">> \in proxy.stamps
        BY <1>8, <1>9, <1>15, <3>1
      <4> QED BY <4>1 DEF Stamped
    <3>2. CASE block.block_engine /\ block.udp_bind
      <4>1. direct \in T /\ <<r.id, "shred">> \in direct.stamps
        BY <1>8, <1>9, <1>15, <3>2 DEF When
      <4> QED BY <4>1 DEF Stamped
    <3>3. CASE block.block_engine /\ ~block.udp_bind
      BY <1>1, <3>3 DEF Idle
    <3> QED BY <2>1, <3>1, <3>2, <3>3
  <2>2. ASSUME block.proxy_grpc PROVE Stamped(s.id, T)
    <3>1. entries \in T /\ <<s.id, "slot">> \in entries.stamps
      BY <1>8, <1>9, <1>15, <2>2
    <3> QED BY <3>1 DEF Stamped
  <2>3. (\A row \in ToSet(A) : row = r /\ has_udp)
           /\ (\A row \in ToSet(B) : row = s /\ block.proxy_grpc)
    BY <1>10 DEF When
  <2> QED BY <2>1, <2>2, <2>3
<1>19. Adds(p, A, B, T)
  BY <1>1, <1>2, <1>10, <1>11, <1>13, <1>14, <1>16, <1>17, <1>18 DEF Adds
<1> QED BY <1>19

LEMMA YellowstoneAdds ==
    ASSUME CaptureInv, NEW p \in ToStart, StartYellowstone(p)
    PROVE  \E A, B, T : Adds(p, A, B, T)
<1> DEFINE block == config.sources[p]
           name == NameOf(p, block.name, "Yellowstone")
           acct_name == IF block.account_name = NoName THEN Suffixed(name, "account")
                        ELSE block.account_name
           r == [id |-> next_id + 1, name |-> acct_name]
           s == [id |-> next_id, name |-> name]
           B == If(block.account, r) \o <<s>>
           slot == <<next_id, "slot">>
           acct == <<next_id + 1, "slot">>
           grpc == <<next_id + 1, "grpc">>
           task == Task("yellowstone", FALSE,
                        {slot} \cup When(block.account, acct) \cup When(block.account, grpc))
<1>1. Began(p) /\ UNCHANGED groups /\ p \in Enabled("yellowstone") /\ block.type = "yellowstone"
  BY BlockBegins DEF CaptureInv, StartYellowstone, Starting, Enabled
<1>2. /\ next_id' = IF block.account THEN next_id + 2 ELSE next_id + 1
      /\ Register(<<>>, B) /\ tasks' = tasks \cup {task}
  BY DEF StartYellowstone
<1>3. next_id \in Nat /\ config \in Config
  BY DEF CaptureInv, OrderInv
<1>4. "Yellowstone" \in Bases["yellowstone"]
  BY DEF Bases
<1>5. Given(name) \/ (DefaultOf(p, name) /\ name = Name("Yellowstone", Number(p)))
  BY <1>1, <1>3, <1>4, BlockNames
<1>6. /\ Given(acct_name) \/ DefaultOf(p, acct_name)
      /\ acct_name = name => Given(name)
  <2>1. CASE block.account_name # NoName
    <3>1. Given(block.account_name)
      BY <1>1, <1>3, <2>1, GivenFacts
    <3> QED BY <2>1, <3>1
  <2>2. CASE block.account_name = NoName
    <3>1. acct_name = Suffixed(name, "account")
      BY <2>2
    <3>2. CASE block.name # NoName
      <4>2. name = block.name
        BY <1>1, <1>3, <1>4, <3>2, NamesFit
      <4>3. Given(block.name) /\ \A end : Given(Suffixed(block.name, end))
        BY <1>3, <3>2, GivenFacts
      <4> QED BY <3>1, <4>2, <4>3
    <3>3. CASE block.name = NoName
      <4>2. name = Name("Yellowstone", Number(p))
        BY <1>1, <1>3, <1>4, <3>3, NamesFit
      <4>3. /\ DefaultOf(p, Suffixed(Name("Yellowstone", Number(p)), "account"))
            /\ Suffixed(Name("Yellowstone", Number(p)), "account")
                  # Name("Yellowstone", Number(p))
        BY <1>1, <1>3, <1>4, NamesFit
      <4> QED BY <3>1, <4>2, <4>3
    <3> QED BY <3>2, <3>3
  <2> QED BY <2>1, <2>2
<1>7. /\ r.id = next_id + 1 /\ r.name = acct_name /\ s.id = next_id /\ s.name = name
      /\ r.id # s.id
  BY <1>3
<1>8. /\ task.mode = "yellowstone"
      /\ task.stamps = {slot} \cup When(block.account, acct) \cup When(block.account, grpc)
  BY DEF Task
<1>9. /\ slot[1] = s.id /\ slot[2] = "slot" /\ slot = <<s.id, "slot">>
      /\ acct[1] = r.id /\ acct[2] = "slot" /\ acct = <<r.id, "slot">>
      /\ grpc[1] = r.id /\ grpc[2] = "grpc"
  BY <1>7
<1> HIDE DEF name, acct_name, r, s, slot, acct, grpc, task
<1>10. /\ ToSet(B) = {s} \cup When(block.account, r) /\ DistinctIds(B)
       /\ \E S : <<>> \in Seq(S) /\ B \in Seq(S)
  <2>1. CASE block.account
    <3>1. B = <<r, s>>
      <4>1. B = <<r>> \o <<s>>
        BY <2>1 DEF If
      <4> QED BY <4>1, TwoTogether
    <3>2. <<>> \in Seq({r, s}) /\ <<r, s>> \in Seq({r, s})
      OBVIOUS
    <3>3. ToSet(<<r, s>>) = {r, s} /\ DistinctIds(<<r, s>>)
      BY <1>7, ShortTables
    <3> QED BY <2>1, <3>1, <3>2, <3>3 DEF When
  <2>2. CASE ~block.account
    <3>1. B = <<s>>
      BY <2>2 DEF If
    <3>2. <<>> \in Seq({s}) /\ <<s>> \in Seq({s})
      OBVIOUS
    <3>3. ToSet(<<s>>) = {s} /\ DistinctIds(<<s>>)
      BY ShortTables
    <3> QED BY <2>2, <3>1, <3>2, <3>3 DEF When
  <2> QED BY <2>1, <2>2
<1> HIDE DEF B
<1>11. ToSet(<<>>) = {} /\ DistinctIds(<<>>)
  BY ShortTables
<1>12. ToSet(B) \subseteq {r, s} /\ s \in ToSet(B) /\ (r \in ToSet(B) => block.account \/ r = s)
       /\ (block.account => r \in ToSet(B))
  BY <1>10 DEF When
<1>13. Disjoint(<<>>, B) /\ TwoRows(ToSet(<<>>) \cup ToSet(B))
  BY <1>6, <1>7, <1>11, <1>12 DEF Disjoint, TwoRows
<1>14. \A row \in ToSet(<<>>) \cup ToSet(B) :
          /\ row.id \in Nat /\ next_id <= row.id /\ row.id < next_id'
          /\ Given(row.name) \/ DefaultOf(p, row.name)
  <2>1. s.id \in Nat /\ next_id <= s.id /\ s.id < next_id'
    BY <1>2, <1>3, <1>7
  <2>2. block.account => r.id \in Nat /\ next_id <= r.id /\ r.id < next_id'
    BY <1>2, <1>3, <1>7
  <2> QED BY <1>5, <1>6, <1>7, <1>11, <1>12, <2>1, <2>2
<1>15. \A t \in {task} : /\ t.mode # "pcap"
                         /\ \A tag \in t.stamps :
                               \E row \in ToSet(IF tag[2] = "shred" THEN <<>> ELSE B) :
                                   row.id = tag[1]
  <2>1. \A tag \in task.stamps : tag = slot \/ (block.account /\ tag \in {acct, grpc})
    <3>1. CASE block.account
      BY <1>8, <3>1 DEF When
    <3>2. CASE ~block.account
      BY <1>8, <3>2 DEF When
    <3> QED BY <3>1, <3>2
  <2> SUFFICES ASSUME NEW tag \in task.stamps
               PROVE  \E row \in ToSet(IF tag[2] = "shred" THEN <<>> ELSE B) : row.id = tag[1]
    BY <1>8
  <2>2. CASE tag = slot
    BY <1>9, <1>12, <2>2
  <2>3. CASE block.account /\ tag \in {acct, grpc}
    <3>1. tag[1] = r.id /\ tag[2] # "shred" /\ r \in ToSet(B)
      BY <1>9, <1>12, <2>3
    <3> QED BY <3>1
  <2> QED BY <2>1, <2>2, <2>3
<1>16. OnlyJitoShares({task})
  BY DEF OnlyJitoShares, Share
<1>17. \A row \in ToSet(<<>>) \cup ToSet(B) : Stamped(row.id, {task}) \/ Idle
  <2>1. Stamped(s.id, {task})
    BY <1>8, <1>9 DEF Stamped
  <2>2. block.account => Stamped(r.id, {task})
    BY <1>8, <1>9 DEF Stamped, When
  <2> QED BY <1>11, <1>12, <2>1, <2>2
<1>18. Adds(p, <<>>, B, {task})
  BY <1>1, <1>2, <1>10, <1>11, <1>13, <1>14, <1>15, <1>16, <1>17 DEF Adds
<1> QED BY <1>18

-----------------------------------------------------------------------------
(* The invariant holds, and what it says of the report.                    *)
RowsInv == CaptureInv /\ TableInv /\ NameInv /\ TaskInv /\ SocketInv /\ ServedInv

LEMMA RowsInvInit == StartInit => RowsInv
<1> SUFFICES ASSUME StartInit PROVE RowsInv
  OBVIOUS
<1>1. /\ active_shred_sources = <<>> /\ active_entry_sources = <<>> /\ tasks = {}
      /\ started = {} /\ groups = [key \in {} |-> <<>>] /\ stage = "validating"
  BY DEF StartInit
<1>2. ToSet(<<>>) = {} /\ DistinctIds(<<>>) /\ <<>> \in Seq({})
  BY ShortTables
<1>3. AllRows = {}
  BY <1>1, <1>2 DEF AllRows
<1>4. TableInv
  BY <1>1, <1>2, <1>3 DEF TableInv, Disjoint
<1>5. NameInv /\ ServedInv
  BY <1>3 DEF NameInv, TwoRows, ServedInv
<1>6. TaskInv
  BY <1>1 DEF TaskInv, OnlyJitoShares
<1>7. Captured = {}
  BY <1>1 DEF Captured
<1>8. SocketInv
  BY <1>1, <1>7 DEF SocketInv
<1> QED BY <1>4, <1>5, <1>6, <1>8, CaptureInvInit DEF RowsInv

LEMMA RowsInvStarts ==
    ASSUME RowsInv, NEW p \in ToStart,
           \/ StartListener(p, "raw_udp", "Raw UDP")
           \/ StartJito(p)
           \/ StartListener(p, "doublezero", "DoubleZero")
           \/ StartYellowstone(p)
           \/ AddPcap(p),
           CaptureInv'
    PROVE  RowsInv'
<1>1. \E A, B, T : Adds(p, A, B, T)
  <2>1. "Raw UDP" \in Bases["raw_udp"] /\ "DoubleZero" \in Bases["doublezero"]
    BY DEF Bases
  <2> QED BY <2>1, ListenerAdds, JitoAdds, YellowstoneAdds, PcapAdds DEF RowsInv
<1>2. PICK A, B, T : Adds(p, A, B, T)
  BY <1>1
<1>3. OrderInv
  BY DEF RowsInv, CaptureInv
<1>4. TableInv'
  BY <1>2, <1>3, TableInvAdds DEF RowsInv
<1>5. NameInv'
  BY <1>2, <1>3, NameInvAdds DEF RowsInv
<1>6. TaskInv'
  BY <1>2, <1>3, TaskInvAdds DEF RowsInv
<1>7. SocketInv'
  BY <1>2, SocketInvAdds DEF RowsInv
<1>8. ServedInv'
  BY <1>2, ServedInvAdds DEF RowsInv
<1> QED BY <1>4, <1>5, <1>6, <1>7, <1>8 DEF RowsInv

(* The steps that start no block leave the tables as they are.             *)
LEMMA TablesKept ==
    ASSUME RowsInv, UNCHANGED <<mainVars, started, idVars, groups>>
    PROVE  /\ TableInv' /\ NameInv' /\ AllRows' = AllRows /\ Idle' = Idle
           /\ ToStart' = ToStart
           /\ \A chan : Table(chan)' = Table(chan)
<1>1. UNCHANGED <<config, started, next_id, active_shred_sources, active_entry_sources,
                  source_names, groups>>
  BY DEF mainVars, idVars
<1>2. AllRows' = AllRows /\ \A chan : Table(chan)' = Table(chan)
  BY <1>1 DEF AllRows, Table
<1>3. /\ \A name : Given(name)' = Given(name)
      /\ \A p, name : DefaultOf(p, name)' = DefaultOf(p, name)
      /\ Idle' = Idle /\ ToStart' = ToStart
  BY <1>1, NamesStay, ConfigStays
<1>4. TableInv'
  BY <1>1, <1>2 DEF RowsInv, TableInv, DistinctIds, Disjoint
<1>5. NameInv'
  BY <1>1, <1>2, <1>3 DEF RowsInv, NameInv, TwoRows
<1> QED BY <1>2, <1>3, <1>4, <1>5

LEMMA RowsInvQuiet ==
    ASSUME RowsInv, CaptureInv', UNCHANGED <<mainVars, started, idVars, groups, tasks>>,
           stage' = stage \/ stage' # "running" \/ DOMAIN groups = Captured
    PROVE  RowsInv'
<1>1. /\ TableInv' /\ NameInv' /\ AllRows' = AllRows /\ Idle' = Idle /\ ToStart' = ToStart
      /\ \A chan : Table(chan)' = Table(chan)
  BY TablesKept
<1>2. Captured' = Captured
  BY DEF Captured
<1>3. TaskInv'
  BY <1>1 DEF RowsInv, TaskInv
<1>4. SocketInv'
  BY <1>1, <1>2 DEF RowsInv, SocketInv
<1>5. \A id : Routed(id)' = Routed(id)
  BY <1>2 DEF Routed
<1>6. ServedInv'
  BY <1>1, <1>5 DEF RowsInv, ServedInv
<1> QED BY <1>1, <1>3, <1>4, <1>6 DEF RowsInv

LEMMA RowsInvListens ==
    ASSUME RowsInv, CaptureInv', DirectListens
    PROVE  RowsInv'
<1>1. PICK t \in tasks : /\ t.mode = "jito_direct"
                         /\ tasks' = tasks \cup {Task("jito_listener", TRUE, t.stamps)}
  BY DEF DirectListens
<1> DEFINE n == Task("jito_listener", TRUE, t.stamps)
<1>2. n.mode = "jito_listener" /\ n.stamps = t.stamps
  BY DEF Task
<1>3. tasks' = tasks \cup {n} /\ UNCHANGED <<mainVars, stage, started, idVars, groups>>
  BY <1>1 DEF DirectListens
<1> HIDE DEF n
<1>4. /\ TableInv' /\ NameInv' /\ AllRows' = AllRows /\ Idle' = Idle /\ ToStart' = ToStart
      /\ \A chan : Table(chan)' = Table(chan)
  BY <1>3, TablesKept
<1>5. Captured' = Captured
  BY <1>2, <1>3 DEF Captured
<1>6. TaskInv'
  <2>1. OnlyJitoShares(tasks')
    <3>1. \A s \in tasks : s.stamps \cap n.stamps # {} => s.mode \in JitoModes
      BY <1>1, <1>2 DEF RowsInv, TaskInv, OnlyJitoShares, Share, JitoModes
    <3>2. n.mode \in JitoModes
      BY <1>2 DEF JitoModes
    <3>3. OnlyJitoShares(tasks)
      BY DEF RowsInv, TaskInv
    <3> SUFFICES ASSUME NEW s \in tasks', NEW u \in tasks', Share(s, u)
                 PROVE  {s.mode, u.mode} \subseteq JitoModes
      BY DEF OnlyJitoShares
    <3>4. CASE s \in tasks /\ u \in tasks
      BY <3>3, <3>4 DEF OnlyJitoShares
    <3>5. CASE s = n \/ u = n
      <4>1. s.stamps \cap u.stamps # {} /\ u.stamps \cap s.stamps # {} /\ s # u
        BY DEF Share
      <4> QED BY <1>3, <3>1, <3>2, <3>5, <4>1
    <3> QED BY <1>3, <3>4, <3>5
  <2>2. \A u \in tasks' : \A tag \in u.stamps : \E r \in ToSet(Table(tag[2])) : r.id = tag[1]
    BY <1>1, <1>2, <1>3 DEF RowsInv, TaskInv
  <2> QED BY <1>4, <2>1, <2>2 DEF TaskInv
<1>7. SocketInv'
  BY <1>1, <1>2, <1>3, <1>4, <1>5, ZenonT(30) DEF RowsInv, SocketInv
<1>8. /\ \A id : Routed(id)' = Routed(id)
      /\ \A id : Stamped(id, tasks) => Stamped(id, tasks')
  BY <1>3, <1>5 DEF Routed, Stamped
<1>9. ServedInv'
  BY <1>4, <1>8 DEF RowsInv, ServedInv
<1> QED BY <1>4, <1>6, <1>7, <1>9 DEF RowsInv

LEMMA RowsInvCaptures ==
    ASSUME RowsInv, CaptureInv', StartCapture
    PROVE  RowsInv'
<1>1. PICK key \in DOMAIN groups \ Captured :
         IF platform = "linux"
         THEN tasks' = tasks \cup {CaptureTask(key)} /\ UNCHANGED stage
         ELSE stage' = "failed" /\ UNCHANGED tasks
  BY DEF StartCapture
<1>2. UNCHANGED <<mainVars, started, idVars, groups>> /\ started = ToStart /\ stage = "starting"
  BY DEF StartCapture
<1>3. CASE platform # "linux"
  BY <1>1, <1>2, <1>3, RowsInvQuiet
<1>4. CASE platform = "linux"
  <2> DEFINE n == CaptureTask(key)
  <2>1. /\ n.mode = "pcap" /\ n.key = key
        /\ n.stamps = {<<r.source_id, "shred">> : r \in ToSet(groups[key])}
    BY DEF CaptureTask
  <2>2. tasks' = tasks \cup {n} /\ UNCHANGED stage
    BY <1>1, <1>4
  <2> HIDE DEF n
  <2>3. /\ TableInv' /\ NameInv' /\ AllRows' = AllRows /\ Idle' = Idle /\ ToStart' = ToStart
        /\ \A chan : Table(chan)' = Table(chan)
    BY <1>2, TablesKept
  <2>4. Captured' = Captured \cup {key}
    BY <2>1, <2>2 DEF Captured
  <2>5. \A tag : tag \in n.stamps <=>
           \E i \in DOMAIN groups[key] : tag = <<groups[key][i].source_id, "shred">>
    BY <2>1 DEF ToSet
  <2>6. \A s \in tasks : s.stamps \cap n.stamps = {}
    BY <1>1, <2>5 DEF RowsInv, SocketInv
  <2>7. TaskInv'
    <3>1. OnlyJitoShares(tasks')
      BY <2>2, <2>6 DEF RowsInv, TaskInv, OnlyJitoShares, Share
    <3>2. \A tag \in n.stamps : \E r \in ToSet(Table(tag[2])) : r.id = tag[1]
      <4> SUFFICES ASSUME NEW tag \in n.stamps
                   PROVE  \E r \in ToSet(Table(tag[2])) : r.id = tag[1]
        OBVIOUS
      <4>1. PICK i \in DOMAIN groups[key] : tag = <<groups[key][i].source_id, "shred">>
        BY <2>5
      <4>2. \E r \in ToSet(active_shred_sources) : r.id = groups[key][i].source_id
        BY <1>1, RouteRows DEF RowsInv
      <4> QED BY <4>1, <4>2 DEF Table
    <3>3. \A u \in tasks' : \A tag \in u.stamps : \E r \in ToSet(Table(tag[2])) : r.id = tag[1]
      BY <2>2, <3>2 DEF RowsInv, TaskInv
    <3> QED BY <2>3, <3>1, <3>3 DEF TaskInv
  <2>8. SocketInv'
    <3>1. ASSUME NEW k \in DOMAIN groups \ Captured', NEW i \in DOMAIN groups[k], NEW t \in tasks'
          PROVE  <<groups[k][i].source_id, "shred">> \notin t.stamps
      <4>1. k # key /\ k \in DOMAIN groups \ Captured
        BY <2>4, <3>1
      <4>2. CASE t \in tasks
        BY <4>1, <4>2 DEF RowsInv, SocketInv
      <4>3. CASE t = n
        <5> SUFFICES ASSUME NEW j \in DOMAIN groups[key],
                            <<groups[k][i].source_id, "shred">>
                               = <<groups[key][j].source_id, "shred">>
                     PROVE  FALSE
          BY <2>5, <4>3
        <5>1. groups[k][i].source_id = groups[key][j].source_id
          OBVIOUS
        <5> QED BY <1>1, <4>1, <5>1 DEF RowsInv, CaptureInv, GroupsInv
      <4> QED BY <2>2, <4>2, <4>3
    <3> QED BY <1>2, <2>2, <2>3, <3>1 DEF SocketInv
  <2>9. ServedInv'
    <3> SUFFICES ASSUME NEW r \in AllRows
                 PROVE  Stamped(r.id, tasks)' \/ Idle \/ Routed(r.id)'
      BY <2>3 DEF ServedInv
    <3>1. CASE Stamped(r.id, tasks)
      BY <2>2, <3>1 DEF Stamped
    <3>2. CASE Routed(r.id)
      <4>1. PICK k \in DOMAIN groups \ Captured : \E i \in DOMAIN groups[k] :
               groups[k][i].source_id = r.id
        BY <3>2 DEF Routed
      <4>2. CASE k = key
        <5>1. <<r.id, "shred">> \in n.stamps
          BY <2>5, <4>1, <4>2
        <5> QED BY <2>2, <5>1 DEF Stamped
      <4>3. CASE k # key
        BY <1>2, <2>4, <4>1, <4>3 DEF Routed
      <4> QED BY <4>2, <4>3
    <3> QED BY <3>1, <3>2 DEF RowsInv, ServedInv
  <2> QED BY <2>3, <2>7, <2>8, <2>9 DEF RowsInv
<1> QED BY <1>3, <1>4

LEMMA RowsInvNext == RowsInv /\ [StartNext]_startVars => RowsInv'
<1> SUFFICES ASSUME RowsInv, [StartNext]_startVars PROVE RowsInv'
  OBVIOUS
<1>1. CaptureInv'
  BY CaptureInvNext DEF RowsInv
<1>2. CASE UNCHANGED startVars
  BY <1>1, <1>2, RowsInvQuiet DEF startVars
<1>3. CASE \E p \in ToStart :
              \/ StartListener(p, "raw_udp", "Raw UDP")
              \/ StartJito(p)
              \/ StartListener(p, "doublezero", "DoubleZero")
              \/ StartYellowstone(p)
              \/ AddPcap(p)
  BY <1>1, <1>3, RowsInvStarts
<1>4. CASE Validate
  <2>1. config.leader \in {"none", "no_rpc", "rpc"}
    BY ConfigAssumption DEF RowsInv, CaptureInv, OrderInv
  <2>2. UNCHANGED <<mainVars, started, idVars, groups, tasks>> /\ stage' # "running"
    BY <1>4, <2>1 DEF Validate
  <2> QED BY <1>1, <2>2, RowsInvQuiet
<1>5. CASE Fetch
  <2>1. UNCHANGED <<mainVars, started, idVars, groups, tasks>> /\ stage' # "running"
    BY <1>5 DEF Fetch
  <2> QED BY <1>1, <2>1, RowsInvQuiet
<1>6. CASE StartCapture
  BY <1>1, <1>6, RowsInvCaptures
<1>7. CASE AllStarted
  BY <1>1, <1>7, RowsInvQuiet DEF AllStarted
<1>8. CASE DirectListens
  BY <1>1, <1>8, RowsInvListens
<1>9. CASE Exit
  <2>1. UNCHANGED <<mainVars, started, idVars, groups, tasks>> /\ stage' # "running"
    BY <1>9 DEF Exit
  <2> QED BY <1>1, <2>1, RowsInvQuiet
<1> QED BY <1>2, <1>3, <1>4, <1>5, <1>6, <1>7, <1>8, <1>9 DEF StartNext

LEMMA RowsInvFits == RowsInv => RowsFitTheTasks
<1> SUFFICES ASSUME RowsInv PROVE RowsFitTheTasks
  OBVIOUS
<1>1. ASSUME NEW tag \in UNION {t.stamps : t \in tasks}
      PROVE  \E n \in RowsOf(tag) : /\ RowsOf(tag) = {n}
                                    /\ tag[1] \in DOMAIN source_names
                                    /\ Table(tag[2])[n].name = source_names[tag[1]]
  <2> DEFINE table == Table(tag[2])
  <2>1. \E r \in ToSet(table) : r.id = tag[1]
    BY <1>1 DEF RowsInv, TaskInv
  <2>2. DistinctIds(table) /\ ToSet(table) \subseteq AllRows
    BY DEF Table, RowsInv, TableInv, AllRows
  <2> HIDE DEF table
  <2>3. PICK n \in DOMAIN table : table[n].id = tag[1] /\ table[n] \in ToSet(table)
    BY <2>1 DEF ToSet
  <2>4. RowsOf(tag) = {n}
    BY <2>2, <2>3 DEF RowsOf, table, DistinctIds
  <2>5. table[n] \in AllRows
    BY <2>2, <2>3
  <2>6. tag[1] \in DOMAIN source_names /\ table[n].name = source_names[tag[1]]
    BY <2>3, <2>5 DEF RowsInv, TableInv
  <2> QED BY <2>4, <2>6 DEF table
<1>2. ASSUME NEW tag \in UNION {t.stamps : t \in tasks}, Cardinality(Stamps(tag)) > 1
      PROVE  {t.mode : t \in Stamps(tag)} \subseteq JitoModes
  <2> SUFFICES ASSUME NEW t \in Stamps(tag) PROVE t.mode \in JitoModes
    OBVIOUS
  <2>1. Stamps(tag) # {t}
    <3> SUFFICES ASSUME Stamps(tag) = {t} PROVE FALSE
      OBVIOUS
    <3>1. Cardinality({t}) = 1
      BY FS_Singleton
    <3> HIDE DEF Stamps
    <3> QED BY <1>2, <3>1
  <2>2. PICK s \in Stamps(tag) : s # t
    BY <2>1
  <2>3. s \in tasks /\ t \in tasks /\ tag \in s.stamps /\ tag \in t.stamps
    BY DEF Stamps
  <2> QED BY <2>2, <2>3 DEF RowsInv, TaskInv, OnlyJitoShares, Share
<1>3. ToSet(Rows) = AllRows /\ DistinctIds(Rows)
  <2>1. PICK S : active_shred_sources \in Seq(S)
    BY DEF RowsInv, TableInv
  <2>2. PICK U : active_entry_sources \in Seq(U)
    BY DEF RowsInv, TableInv
  <2>3. ToSet(Rows) = AllRows
    BY <2>1, <2>2, ConcatFacts, ZenonT(30) DEF Rows, AllRows
  <2>4. DistinctIds(Rows)
    BY <2>1, <2>2, DistinctConcat DEF Rows, RowsInv, TableInv
  <2> QED BY <2>3, <2>4
<1>4. ASSUME stage = "running", NEW row \in ToSet(Rows)
      PROVE  \/ \E t \in tasks, chan \in {"shred", "slot"} : <<row.id, chan>> \in t.stamps
             \/ \E p \in Enabled("jito") :
                   config.sources[p].block_engine /\ ~config.sources[p].udp_bind
  <2>1. ~Routed(row.id)
    BY <1>4 DEF Routed, RowsInv, SocketInv
  <2> QED BY <1>3, <1>4, <2>1 DEF RowsInv, ServedInv, Stamped, Idle
<1>5. ASSUME NEW i \in DOMAIN Rows, NEW j \in DOMAIN Rows, i # j, Rows[i].name = Rows[j].name
      PROVE  Plain(Rows[i].name) \in GivenNames
  <2>1. Rows[i] \in AllRows /\ Rows[j] \in AllRows
    BY <1>3 DEF ToSet
  <2>2. Rows[i] # Rows[j]
    BY <1>3, <1>5 DEF DistinctIds
  <2> QED BY <1>5, <2>1, <2>2 DEF RowsInv, NameInv, TwoRows, Given
<1> QED BY <1>1, <1>2, <1>4, <1>5 DEF RowsFitTheTasks, JitoModes

(* Ids, rows, log names and tasks fit together, for every configuration.   *)
THEOREM StartRowsFitTheTasks == StartSpec => []RowsFitTheTasks
BY RowsInvInit, RowsInvNext, RowsInvFits, PTL DEF StartSpec
=============================================================================
