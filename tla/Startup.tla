------------------------------- MODULE Startup -------------------------------
(***************************************************************************)
(* From the configuration to running sources: main of src/src/main.rs up   *)
(* to the last listener, the tasks each sources::*::run spawns, and what   *)
(* the AF_PACKET sockets then make of a frame (Capture).                   *)
(*                                                                         *)
(* config.sources holds the source blocks of all types in one sequence,    *)
(* each with the fields of its type (config.rs); an optional string is a   *)
(* BOOLEAN unless its value matters.  config.leader says whether           *)
(* leader_pubkey and rpc_url are set: "none", "no_rpc" or "rpc".           *)
(***************************************************************************)
EXTENDS LeaderSchedule, Capture, SequencesExt

CONSTANTS
    Config,     \* the configurations that may be read, each a record of
                \* sources and leader
    Ip,         \* the strings that parse as IPv4 addresses
    Frame       \* the frames the network may deliver (see Capture)

VARIABLES
    config,
    platform,               \* the build: "linux" or "other"
    stage,                  \* where main is
    started,                \* the source blocks started, by their positions
    next_id,
    active_shred_sources,   \* sequences of [id, name]
    active_entry_sources,
    source_names,           \* id -> name, for the log file
    groups,                 \* <<port, interface>> -> routes
    tasks                   \* what was spawned, see Task

mainVars  == <<config, platform>>
idVars    == <<next_id, active_shred_sources, active_entry_sources, source_names>>
startVars == <<mainVars, stage, started, idVars, groups, tasks, schedVars>>

\* A task, whether it occupies a blocking thread, and the (id, channel)
\* pairs of the events it may send.
Task(mode, blocking, stamps) ==
    [mode |-> mode, blocking |-> blocking, stamps |-> stamps]

-----------------------------------------------------------------------------
(* Names, as base, number and suffix.                                      *)
Name(base, nr)      == [base |-> base, nr |-> nr, suffix |-> ""]
NoName              == Name("", 0)
Suffixed(name, end) == [name EXCEPT !.suffix = end]
Unsuffixed          == [base : STRING, nr : Nat, suffix : {""}]

source_name(configured, type_default, idx, total_enabled) ==
    IF configured # NoName THEN configured
    ELSE Name(type_default, IF total_enabled <= 1 THEN 0 ELSE idx + 1)

-----------------------------------------------------------------------------
(* The blocks, by their positions in config.sources, and the order in      *)
(* which main starts them: type by type.                                   *)
Turn == [raw_udp |-> 1, jito |-> 2, doublezero |-> 3, yellowstone |-> 4, pcap |-> 5]

ASSUME ConfigAssumption ==
    \A c \in Config :
        /\ c.leader \in {"none", "no_rpc", "rpc"}
        /\ IsFiniteSet(DOMAIN c.sources) /\ DOMAIN c.sources \subseteq Nat
        /\ \A p \in DOMAIN c.sources :
              /\ c.sources[p].type \in DOMAIN Turn
              /\ c.sources[p].name \in Unsuffixed
              /\ c.sources[p].type = "yellowstone" =>
                    c.sources[p].account_name \in Unsuffixed

ASSUME FrameAssumption ==
    \A f \in Frame :
        /\ f.len \in Nat /\ f.ethertype \in Nat /\ f.ihl \in Nat
        /\ f.proto \in Nat /\ f.frag \in Nat /\ f.dport \in Nat
        /\ f.udp_len \in Nat /\ f.udp_len < 65536
        /\ f.src \in Ip

ToStart == {p \in DOMAIN config.sources : config.sources[p].enabled}

Enabled(type) == {p \in ToStart : config.sources[p].type = type}

Before(p, q) ==
    LET s == config.sources[p].type
        t == config.sources[q].type
    IN  Turn[s] < Turn[t] \/ (s = t /\ p < q)

Idx(p) == Cardinality({q \in Enabled(config.sources[p].type) : q < p})

NameOf(p, configured, type_default) ==
    source_name(configured, type_default, Idx(p),
                Cardinality(Enabled(config.sources[p].type)))

Starting(p, type) ==
    /\ stage = "starting"
    /\ p \in Enabled(type) \ started
    /\ \A q \in ToStart \ started : q # p => Before(p, q)
    /\ started' = started \cup {p}
    /\ UNCHANGED <<mainVars, stage, schedVars>>

If(set, item)   == IF set THEN <<item>> ELSE <<>>
When(set, item) == IF set THEN {item} ELSE {}

\* Every name of rows is inserted under its id.
Named(rows) ==
    [id \in DOMAIN source_names \cup {r.id : r \in rows} |->
        IF \E r \in rows : r.id = id THEN (CHOOSE r \in rows : r.id = id).name
        ELSE source_names[id]]

\* Mutant: a name is kept for the shred-level sources only.
Register_ShredNames(shred, entry) ==
    /\ active_shred_sources' = active_shred_sources \o shred
    /\ active_entry_sources' = active_entry_sources \o entry
    /\ source_names' = Named(ToSet(shred))

Register(shred, entry) ==
    /\ active_shred_sources' = active_shred_sources \o shred
    /\ active_entry_sources' = active_entry_sources \o entry
    /\ source_names' = Named(ToSet(shred) \cup ToSet(entry))

-----------------------------------------------------------------------------
StartInit ==
    /\ SchedInit
    /\ config \in Config
    /\ config.leader # "rpc" => led = {} /\ cluster_slot = 0   \* not asked
    /\ platform \in {"linux", "other"}
    /\ stage = "validating"
    /\ started = {}
    /\ next_id = 0
    /\ active_shred_sources = <<>>
    /\ active_entry_sources = <<>>
    /\ source_names = [id \in {} |-> NoName]
    /\ groups = [key \in {} |-> <<>>]
    /\ tasks = {}

Validate ==
    /\ stage = "validating"
    /\ stage' = IF ToStart = {} THEN "failed"
                ELSE CASE config.leader = "none"   -> "starting"
                       [] config.leader = "no_rpc" -> "failed"
                       [] config.leader = "rpc"    -> "fetching"
    /\ UNCHANGED <<mainVars, started, idVars, groups, tasks, schedVars>>

\* fetch_leader_slots(..).await?, before anything is spawned.
Fetch ==
    /\ stage = "fetching"
    /\ SchedNext
    /\ stage' = CASE pc' = "loaded" -> "starting"
                  [] pc' = "failed" -> "failed"
                  [] OTHER          -> "fetching"
    /\ UNCHANGED <<mainVars, started, idVars, groups, tasks>>

\* Raw UDP and DoubleZero: one id, one thread.
StartListener(p, type, type_default) ==
    /\ Starting(p, type)
    /\ next_id' = next_id + 1
    /\ Register(<<[id   |-> next_id,
                   name |-> NameOf(p, config.sources[p].name, type_default)]>>, <<>>)
    /\ tasks' = tasks \cup {Task(type, TRUE, {<<next_id, "shred">>})}
    /\ UNCHANGED groups

\* Always two ids, in use or not.
StartJito(p) ==
    LET block      == config.sources[p]
        shred_id   == next_id
        entry_id   == next_id + 1
        has_udp    == block.block_engine \/ block.proxy_udp
        shred_name == NameOf(p, block.name, "Jito ShredStream")
        entry_name == IF block.name = NoName THEN NameOf(p, NoName, "Jito Entries")
                      ELSE Suffixed(block.name, "entries")
    IN  /\ Starting(p, "jito")
        /\ next_id' = next_id + 2
        /\ Register(If(has_udp, [id |-> shred_id, name |-> shred_name]),
                    If(block.proxy_grpc, [id |-> entry_id, name |-> entry_name]))
        /\ tasks' = tasks
              \cup When(block.block_engine,
                        Task("jito_direct", FALSE,
                             When(block.udp_bind, <<shred_id, "shred">>)))
              \cup When(block.proxy_udp,
                        Task("jito_proxy", TRUE, {<<shred_id, "shred">>}))
              \cup When(block.proxy_grpc,
                        Task("jito_entries", FALSE, {<<entry_id, "slot">>}))
        /\ UNCHANGED groups

\* The account measurement takes the second id and the first row.
StartYellowstone(p) ==
    LET block     == config.sources[p]
        id        == next_id
        acct_id   == next_id + 1
        name      == NameOf(p, block.name, "Yellowstone")
        acct_name == IF block.account_name = NoName THEN Suffixed(name, "account")
                     ELSE block.account_name
    IN  /\ Starting(p, "yellowstone")
        /\ next_id' = IF block.account THEN next_id + 2 ELSE next_id + 1
        /\ Register(<<>>, If(block.account, [id |-> acct_id, name |-> acct_name])
                             \o <<[id |-> id, name |-> name]>>)
        /\ tasks' = tasks \cup
              {Task("yellowstone", FALSE,
                    {<<id, "slot">>} \cup When(block.account, <<acct_id, "slot">>)
                                    \cup When(block.account, <<acct_id, "grpc">>))}
        /\ UNCHANGED groups

\* filter_map(|s| s.parse().ok()): what does not parse is dropped.
Parsed(strings) == strings \cap Ip

Socket(p) == <<config.sources[p].port, config.sources[p].interface>>

Route(p, id) == [source_id   |-> id,
                 include_ips |-> Parsed(config.sources[p].source_ips),
                 exclude_ips |-> Parsed(config.sources[p].exclude_ips)]

AddPcap(p) ==
    LET prior == IF Socket(p) \in DOMAIN groups THEN groups[Socket(p)] ELSE <<>>
    IN  /\ Starting(p, "pcap")
        /\ next_id' = next_id + 1
        /\ Register(<<[id   |-> next_id,
                       name |-> NameOf(p, config.sources[p].name, "Raw Capture")]>>, <<>>)
        /\ groups' = [key \in DOMAIN groups \cup {Socket(p)} |->
                         IF key = Socket(p) THEN Append(prior, Route(p, next_id))
                         ELSE groups[key]]
        /\ UNCHANGED tasks

Captured == {t.key : t \in {u \in tasks : u.mode = "pcap"}}

CaptureTask(key) ==
    [mode |-> "pcap", blocking |-> TRUE, key |-> key,
     stamps |-> {<<r.source_id, "shred">> : r \in ToSet(groups[key])}]

\* One socket per group; an error on any system but Linux.
StartCapture ==
    /\ stage = "starting"
    /\ started = ToStart
    /\ \E key \in DOMAIN groups \ Captured :
          IF platform = "linux"
          THEN tasks' = tasks \cup {CaptureTask(key)} /\ UNCHANGED stage
          ELSE stage' = "failed" /\ UNCHANGED tasks
    /\ UNCHANGED <<mainVars, started, idVars, groups, schedVars>>

\* main reaches the silence monitor.
AllStarted ==
    /\ stage = "starting"
    /\ started = ToStart
    /\ DOMAIN groups = Captured
    /\ stage' = "running"
    /\ UNCHANGED <<mainVars, started, idVars, groups, tasks, schedVars>>

\* Direct mode, running beside main, has authenticated and binds its socket.
DirectListens ==
    /\ stage # "exited"
    /\ \E t \in tasks :
          /\ t.mode = "jito_direct"
          /\ t.stamps # {}         \* udp_bind_addr is set
          /\ tasks' = tasks \cup {Task("jito_listener", TRUE, t.stamps)}
    /\ UNCHANGED <<mainVars, stage, started, idVars, groups, schedVars>>

Holding == {t \in tasks : t.blocking}

\* Mutant: the runtime waits for every task.
MayExit_AllTasks == tasks = {}

\* main has returned an error: the runtime drops the async tasks and waits
\* for the blocking threads, which only a cancelled token would end.
MayExit == Holding = {}

Exit ==
    /\ stage = "failed"
    /\ MayExit
    /\ stage' = "exited"
    /\ UNCHANGED <<mainVars, started, idVars, groups, tasks, schedVars>>

StartNext ==
    \/ Validate
    \/ Fetch
    \/ \E p \in ToStart :
          \/ StartListener(p, "raw_udp", "Raw UDP")
          \/ StartJito(p)
          \/ StartListener(p, "doublezero", "DoubleZero")
          \/ StartYellowstone(p)
          \/ AddPcap(p)
    \/ StartCapture
    \/ AllStarted
    \/ DirectListens
    \/ Exit

StartSpec == StartInit /\ [][StartNext]_startVars /\ WF_startVars(Exit)

-----------------------------------------------------------------------------
(* What the sockets of all groups send for source id when frame f arrives. *)
Reaches(f, key) == key[2] = "" \/ key[2] = f.iface

EventsFor(id, f) ==
    {e \in UNION {{key} \X EventsOf(key[1], groups[key], f) :
                     key \in {k \in DOMAIN groups : Reaches(f, k)}} :
        groups[e[1]][e[2]].source_id = id}

PcapId(p) ==    \* the pcap rows are the last ones of the table
    active_shred_sources[Len(active_shred_sources)
                            - Cardinality(Enabled("pcap")) + Idx(p) + 1].id

\* A whole IPv4 datagram that holds a shred.
HoldsShred(f) ==
    /\ f.ethertype = EtherIp /\ f.ihl >= 5 /\ f.proto = Udp
    /\ f.frag % 8192 = 0
    /\ f.udp_len >= 8 + MIN_SHRED_SIZE
    /\ UdpStart(f) + f.udp_len <= f.len
    /\ f.slot # 0

OnPort(b, f) == f.dport = b.port /\ b.interface \in {"", f.iface}

FromAskedIp(b, f) ==
    /\ b.source_ips # {} => f.src \in b.source_ips
    /\ f.src \notin b.exclude_ips

(* Each pcap source gets one event, and no more, for a frame exactly when  *)
(* the frame holds a shred for its port on its interface from an address   *)
(* it asks for: through the grouping of the blocks on sockets, the kernel  *)
(* filter's jumps and offsets, the payload bounds and the routes.  It is   *)
(* so as long as one of its source_ips, if it has any, is an address.      *)
CapturedAsConfigured ==
    stage = "running" =>
        \A p \in Enabled("pcap"), f \in Frame :
            LET b == config.sources[p] IN
            b.source_ips = {} \/ Parsed(b.source_ips) # {} =>
                Cardinality(EventsFor(PcapId(p), f)) =
                    IF HoldsShred(f) /\ OnPort(b, f) /\ FromAskedIp(b, f)
                    THEN 1 ELSE 0

Table(chan) == IF chan = "shred" THEN active_shred_sources ELSE active_entry_sources

RowsOf(tag) == {n \in DOMAIN Table(tag[2]) : Table(tag[2])[n].id = tag[1]}

Stamps(tag) == {t \in tasks : tag \in t.stamps}

Rows == active_shred_sources \o active_entry_sources

Plain(name) == [name EXCEPT !.suffix = ""]
GivenNames ==
    ({config.sources[p].name : p \in ToStart}
        \cup {config.sources[p].account_name : p \in Enabled("yellowstone")}) \ {NoName}

(* The ids handed to the tasks and the rows of the report fit together,    *)
(* although main allocates ids it never lists and lists them in another    *)
(* order: an id that some task may stamp has one row, in the table of its  *)
(* channel, and the log calls it by the name of that row.  Two threads     *)
(* share an id only within a Jito block with both UDP modes, and of the    *)
(* rows only that of a direct mode without udp_bind_addr has no task.  Two *)
(* rows have one name only if the user chose one of the two.               *)
RowsFitTheTasks ==
    /\ \A tag \in UNION {t.stamps : t \in tasks} :
          /\ \E n \in RowsOf(tag) :
                /\ RowsOf(tag) = {n}
                /\ tag[1] \in DOMAIN source_names
                /\ Table(tag[2])[n].name = source_names[tag[1]]
          /\ Cardinality(Stamps(tag)) > 1 =>
                {t.mode : t \in Stamps(tag)}
                    \subseteq {"jito_direct", "jito_listener", "jito_proxy"}
    /\ stage = "running" =>
          \A row \in ToSet(Rows) :
              \/ \E t \in tasks, chan \in {"shred", "slot"} : <<row.id, chan>> \in t.stamps
              \/ \E p \in Enabled("jito") :
                    config.sources[p].block_engine /\ ~config.sources[p].udp_bind
    /\ \A i, j \in DOMAIN Rows :
          i # j /\ Rows[i].name = Rows[j].name => Plain(Rows[i].name) \in GivenNames

(* A start that fails ends the process, unless it is the AF_PACKET error   *)
(* of another system and a listener was spawned before: that one is never  *)
(* cancelled, and the process waits for it (main.rs returns without        *)
(* cancel.cancel()).                                                       *)
FailedStartExits ==
    stage = "failed" ~>
        \/ stage = "exited"
        \/ platform # "linux" /\ Enabled("pcap") # {} /\ Holding # {}
=============================================================================
