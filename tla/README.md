# A verification development for shredwatch

shredwatch connects to several sources of Solana shreds at once, stamps every
arrival, and reports which source is fastest and most complete. Its numbers are
only as good as the path from a socket to the table: threads that race, three
channels, a gate that drops what is out of range, a store of arrivals, a shutdown
that has to let stragglers in and yet end, a report that may be made while the
last events are recorded. This directory models that path in
TLA+, checks it with TLC on small instances and proves the core of it with TLAPS.

Line numbers refer to the sources under `src/` of the repository
(`src/src/main.rs` is abbreviated `main.rs`, and so on).

## 1. The system

| Component | State | Operations | Talks to |
|---|---|---|---|
| Listener threads: `raw_udp.rs`, `jito.rs` (`udp_listener`), `doublezero.rs`, `pcap.rs` | a socket with a 100 ms read timeout; for AF_PACKET a list of routes | test the token; read; stamp; send one `ShredEvent` per matching route | shred channel, token |
| Stream tasks: `yellowstone.rs`, `jito.rs` (`run_grpc_entries`) | a connection; for Yellowstone the window of entry times `entry_map`, `max_slot_seen` | connect and subscribe; deliver an update; fail, wait 2 s, reconnect; end | slot and grpc channels, token |
| Jito direct task: `jito.rs` | tokens and their expiry | authenticate, start a listener, heartbeat, renew the access token | block engine, token; holds a shred sender |
| Aggregator task: `main.rs:324-427` | `range_end_triggered`, `start_slot_checked` | take an event from any channel, filter it, record it; leave when a channel is closed | registry, token, `activity`, grace task |
| Registry: `registry.rs` | three DashMaps | `record_shred`, `record_slot_event`, `record_grpc_latency` | written by the aggregator, read by the report |
| Silence monitor: `main.rs:295-322` | `silent_secs` | wake every second, swap `activity`, count, cancel | token, `activity` |
| Grace task: `main.rs:372-377` | none | sleep 2 s, cancel | token |
| Main: `main.rs:429-475` | none | wait for duration, token or Ctrl-C; cancel; drain 200 ms; drop the senders; join for 2 s; report; return | all |
| Report: `stats.rs`, `output/logfile.rs`, `output/table.rs` | none | one pass over each map, then the tables; another pass for the log | registry, which a detached aggregator may still write |
| Leader filter: `leader.rs` | none | `getLeaderSchedule`, then `getEpochInfo` | RPC server |
| Start-up: `main.rs:58-293`, `config.rs` | source ids and names, groups of capture sources | read and validate the configuration, spawn everything | all |

What is hard in it:

- *Interleaving.* A stamp is taken before the event is sent. Two threads may
  stamp in one order and send in the other, and the three channels are drained in
  an order `select!` chooses at random.
- *Shutdown.* The aggregator ends only when some channel has lost its last
  sender. Senders are held by main, by blocking threads that look at the token
  ten times a second, and by tasks that may hang in a gRPC call that does not
  look at it at all.
- *Timers.* Duration, silence, grace period, Ctrl-C and the missed-start check
  all race to stop a run; the join has a timeout of its own.
- *Reconnection.* Streams fail and are retried; their local state goes with them.
- *Expiry.* Direct mode races with the expiry of an access token, a refresh token
  and a registration, through calls that do not look at the token.
- *Stale answers.* The leader filter combines the answers of two RPCs.
- *Numbers written by hand.* The jumps and offsets of the BPF program, the ids
  of five kinds of sources, the index of a percentile.

The hazards are listed one by one, with their lines, in `PROJECT.json`.

## 2. Modules

| Module | Models | Built on |
|---|---|---|
| `Registry` | `registry.rs` | |
| `Stats` | `compute_stats`, the content of `write_log` | `Registry` |
| `Tables` | `compute_percentiles` and the rows of `print_results` | |
| `Report` | the end of `main`: the report's passes beside the aggregator | `Registry`, `Stats` (twice), `Tables` |
| `SlotGate` | the decisions of both filtering arms of the aggregator, and the flags they share | |
| `Pipeline` | listeners, streams, channels, aggregator; its records are those of `Registry`, its decisions those of `SlotGate` | `Stats`, `SlotGate` |
| `RunPhases` | abstract: what one run promises | |
| `BenchmarkRun` | the life of a run: who stops it, how it winds down | `SlotGate`, `RunPhases` |
| `JitoDirect` | Jito direct mode against a block engine whose grants expire | |
| `LeaderSchedule` | `leader.rs` against a cluster that moves on | |
| `Capture` | what `pcap.rs` and `shred.rs` make of a frame | |
| `Startup` | `main` up to the last listener: ids, names, rows, sockets, error exits | `LeaderSchedule`, `Capture` |
| `Yellowstone` | one subscription: connection, entry window, overhead samples | |
| `RegistryProofs`, `BenchmarkRunProofs`, `JitoDirectProofs`, `YellowstoneProofs` | theorems | the module of the name |
| `StatsProofs`, `PipelineProofs` | theorems | `Stats`, `Pipeline`, and each the theorems of the module before |
| `ReportProofs` | theorems | `Report`, `RegistryProofs` |
| `StartupProofs` | theorems about the start-up, the leader filter and the capture | `Startup` |
| `MCRegistry`, `MCPipeline`, `MCBenchmarkRun`, `MCStartup`, `MCReport` | instances for TLC | the module of the name |
| `MCStragglers` | an instance that remembers the shreds queued when the grace period ends | `BenchmarkRun` |

An operator whose name is that of another with a suffix (`WinsOf_FirstSource`)
is a plausible bug of the code; no specification uses it. Each property of a
passing run is violated when the operator is replaced by one such variant
("mutants" in `PROJECT.json`).

### Registry and Stats

A DashMap is a function on the keys present, and `Upsert` is
`entry().and_modify().or_insert_with()`. `arrivals` is a sequence because its
order is read (the first element is the summary); `entry_arrivals`, a vector
that is only ever searched by source, is a function. Each `record_*` method is
one action: the aggregator calls them one at a time. `record_shred` is in truth
two map updates, `ShredsWith` and `SlotsWith`; `Report` makes them two steps, and
`ReportProofs` shows that with the second one added in thought these are one step of `RegSpec`. `RegSpec` allows every event at every step,
with any stamp: it is the registry against *any* caller, and what holds of it
holds of every order in which the channels may be drained.

The figures of `stats.rs` are operators on the registry, `SourceStats(src)` for
the per-shred loop and `EntrySourceStats(src)` for the per-slot one. Vectors of
deltas are sorted before use and so become functions on shreds or slots, which
`Tables` sorts and takes percentiles of. Rows are sorted by rank: a row's place is
the number of rows that come before it, by key and then, as `sort_by` is stable, by
position. The index of a percentile is computed in integers there. The program
uses floating point; for 50, 90, 95 and 99 the two agree at every length up to
three million, for 99.9 the program is one too high at a few lengths, 41 000 being
the first. Win rates and coverage are rounded to the nearest tenth of a percent, as
`{:.1}` does (`table.rs:23`, `211`); the percents of the type table are integer
divisions in the program too.
`duration_since` is Rust's: it saturates at zero. Time is in clock readings,
nanoseconds nowhere matter.

### SlotGate and Pipeline

The two arms of the aggregator have checks of their own, and so has the model:
`ShredArm(slot)` and `SlotArm(slot)` are what each makes of a slot ("early",
"missed", "beyond", "other" leader, "record"). `GateShred(slot)` and
`GateSlotEvent(slot)` give the flags after such an event; the aggregator's actions
`AggShred`, `AggSlot` take the head of a channel, pass it through the gate and
record it in the same step if its arm says so, as the code does. `Wanted(slot)` is
not used by either: it is what `config.rs:11-21` says of `start_slot`, `end_slot` and
`leader_pubkey`, the reference the arms are compared with. An unset option is `None`.

The start check runs once: the first shred at or after `start_slot` that is not of
that slot cancels the run, is dropped, and disarms the check (`main.rs:357`). Until
the aggregator ends, later shreds of the range are recorded as if nothing had
happened, and reported. A run that is fed by streams only is never checked.

A listener is `check -> recv -> send -> ... -> check`; `ListenerRecv` stamps and
puts in `outbox` one event for each route that matches, `Send` sends them one by
one. A plain UDP socket is a listener with one route. The IP filters of `pcap.rs`
are abstracted to "any subset of the socket's routes". A stream's account update
produces a slot event and perhaps a gRPC sample, in this order and in two
channels. The channels are unbounded and FIFO.

`stamped` and `late` are history variables: what was stamped per source, and how
many packets a thread stamped after the token was set. `Cancel` stands for
every reason to stop that is not in the gate; `BenchmarkRun` details them.

### BenchmarkRun and RunPhases

Events are reduced to their slots. `Tick` is one second; the counters
`duration_left`, `grace_left`, `join_left` run down, and a timer whose time is up
fires at *some* later step, since the runtime promises no more than that. The
200 ms drain is a step of its own that may take any time. `SenderAlive(c)` says
who still holds a sender of `c`; `AggBreak` may leave by any channel that is
closed and empty while the others still hold events, as `select!` may. Streams
may hang in `connecting` for ever. `Exit` waits for the listeners, as the tokio
runtime waits for blocking threads, and for nothing else.

`RunPhases` is what a user may rely on: a run goes from running to stopping,
reports once, and reports only when its writer has finished or was given up on;
a run that was stopped does report. `BenchmarkRun` refines it by the mapping
`Phases`.

A Jito direct task is a stream that holds a shred sender, is never "ended by the
server", and starts its listener when it is authenticated (`DirectStarts`), which
may be during the shutdown: until then the listener is `unborn`. The calls and
pauses `JitoDirect` details are `streaming` and `backoff` here.

### Report

After the join, main reads: the number of shreds, each shred record, the number
of slots, each slot record, the samples, and for the log each shred record again.
A DashMap iteration locks one shard after the other, so each visit of an entry is a step
and a detached aggregator may step in between; an entry inserted meanwhile may
or may not be met. `JoinAggregator` either finds the task ended or times out, with
the aggregator possibly between the two updates of a shred. `Stats` is instantiated
on what the passes have read, for the tables and for the log, and `Tables` on
that. `ReportImplementsRegistry`, a theorem, justifies all of `Registry`: with the
pending update added to `slots` (`SettledSlots`), every behaviour is one of `RegSpec`.

### JitoDirect

One phase per call. Each token has the time left until it expires; a response
without `expires_at_utc` gives a token the program takes to have expired in 1970
(`Seen`). The block engine accepts a heartbeat with a live token and lets a
registration lapse when the TTL of the last accepted heartbeat is over; the answer
may be lost. `Tick` may come at any point, so calls may be late and tasks woken
late: `disturbed` records it.

### Startup and Capture

`config` is any configuration of a set. A block is known by its position in
`config.sources`; the blocks start in the order of main's five loops (`Turn`,
`Before`), each an action that allocates ids, adds rows and names, and spawns
tasks with the (id, channel) pairs they may stamp. A name is a base, a number and a
suffix, because the code makes names of these. `Capture` has the BPF program as the
code has it, instruction by instruction; a machine that runs it, one instruction
a `Step`; and `extract_udp_payload`, `parse_shred_key`, `route_matches` as
operators. `Startup` puts the groups of routes in front. A failed start is
`stage = "failed"`, and `Exit` waits for blocking threads like the runtime does.

### LeaderSchedule, Yellowstone

`LeaderSchedule` starts from any set of led slots and any current slot, and lets
the cluster advance between, before and after the two calls, each of which may
fail; `Startup` runs it where `main` does (`Fetch`). `Yellowstone` delivers
entries of any slot in any order, reconnects at any time, and delivers account updates caused by any earlier entry, including one
delivered before the connection was lost. `Window` is the code's 300. Entries
of one slot with equal times are one element of a set: the sample only depends
on their times.

## 3. What the runs show

Bounds are constants of the configurations. "States" are distinct states.

| Run | Question | Bounds | States |
|---|---|---|---|
| `registry` | Do the records stay consistent under events in any order, and does the report add up? | 2 + 2 sources, 2 slots, data and code, 3 clock readings, 4 events; sources symmetric | 62 k |
| `pipeline_order` | Is what is stamped what is recorded? | 2 sockets, one shared by 2 sources; 2 shreds of a slot; 2 readings, 3 packets | 495 k |
| `pipeline_gate` | Does the gate let through exactly what it should? | slots 1-4, range 2-3, leader of 1, 3 and 4; two sockets of one source and a stream with an account; one clock reading, 3 packets, 1 update; sockets symmetric | 1.2 M |
| `run_exit` | Does a timed run stop, report and exit, whatever hangs? | duration 2 s, any traffic; a direct task with its listener, a Yellowstone stream, queues of 1, silence 1 s | 79 k |
| `run_silence` | Are the silence monitor and the grace period exact? | a listener, a Jito stream, slots 1-3 around the range {2}, silence 2 s | 637 k |
| `startup` | Do ids, rows, sockets and filters fit the configuration, and does a failed start end? | all pairs of 18 blocks, all triples of 5 capture blocks, both platforms; 3 epochs of 2 slots, all sets of led slots; every frame that differs from a shred's in two fields and the captured length | 14 k |
| `yellowstone` | Are window and samples sound? | slots 1-4, window 1, 3 entries, 4 readings | 612 k |
| `jito_direct` | Is the registration kept, and does it come back? | lifetimes 1 and 3, TTL 0 and 8, margin 2, pause and call 1, in ticks | 15 k |
| `report` | Does a report hold together beside a detached aggregator? | 2 + 1 sources, 2 slots, data and code, 2 readings, 3 events of which at most 1 late; sources symmetric | 278 k |

Why these bounds are enough for the cases to happen. Four events on one shred
give a first arrival, an out-of-order one, a duplicate and one of the other
source, or a slot opened by an entry source and lowered twice. Two racing
threads and two readings give every inversion of stamp order and channel order;
the third packet gives a duplicate behind an inversion. Slots 1 to 4 around the
range 2-3 with a leader that misses slot 2 reach every branch of both arms; what
the gate decides depends on no stamp, so one clock reading will do there. One
queued event per channel is enough for a channel to be full, to be drained
late, and to be abandoned. A silence timeout of two seconds is the smallest at
which "one too early" and "not reset" differ from the code. A window of one
over four slots allows old, new and in-window entries in every order. For a
registration a tick is the least pause and the limit of a call: lifetimes of 1
and 3 around a margin of 2 give tokens that are expiring when granted and tokens
that expire between heartbeats; a TTL of 8 is the least that leaves room for half
of it and four calls, a TTL of 0 forces the minimum pause. Two blocks of any kind
number, name and offset each other's ids; three capture blocks share, or do not
share, a socket. One late event is one update between any two visits, and the
aggregator's pending half-update is there besides.

Properties worth reading first:

- `WinnersBeatLosers`, `EveryShredHasAWinner` (Stats): `first_seen` is the first
  arrival *processed* and need not be the earliest, yet no source that lost a
  shred was earlier than one that won it, and no shred is without a winner. What
  goes wrong is a spurious tie, never a wrong order.
- `LogAgreesWithTable`: two pieces of code compute the same deltas.
- `NothingLostOrReordered`, `FirstSeenIsEarliestOfSocket` (Pipeline): the path
  itself is exact; inversions come from the race of threads alone.
- `RecordedAsAsked`: each copy of the range checks and of the leader filter lets
  through only what the configuration wants, and a run goes on with shreds on
  record only if its start slot was seen: no mixture of early shreds, slot events
  and shreds out of the leader's slots disarms the check. (Of a run already
  cancelled nothing is claimed about the start, see `SlotGate` above.)
- `OnlyStartCheckDrops`: however many threads feed a source, each stamp of a wanted
  shred is found once, on record or on its way; the start check drops one at
  most, and cancels the run with it.
- `MonitorKeepsCount`, `SilenceNotPremature`, `SilentRunStops` (BenchmarkRun).
- `AggOutlivesRun`: "`None => break`" on *any* channel is safe during the run
  because main keeps a sender of each, whether or not it is used.
- `ReportAddsUp`, `TablesTellOneStory` (Report): beside a detached aggregator the
  total may lag behind the rows and one arrival may be ahead of its slot; received
  and missed of every source still add up to the shreds read, the log has the
  winners of the table, a percentile is zero exactly when that share of the
  shreds received was won, and the win rate, being rounded, may meet the share
  but is never on the other side of it.
- `CapturedAsConfigured`, `RowsFitTheTasks` (Startup): from a block of the
  configuration to one event per matching frame, and from an event's id to one row.
- `RegistrationKept`, `RegistrationRecovers` (JitoDirect): renewing tokens never
  costs the registration; whatever fails, it comes back until the task is stopped,
  provided that each call ends some time: `jito.rs` sets no timeout, and a call that
  hangs silences the source for good.
- `SampleNotOverstated`: with the latest entry of the slot as its baseline, a
  gRPC overhead sample may be too small, never too large, unless the entry
  that caused the update was delivered before the connection was (re)made.

### Disagreements between code and documents

| Run | Document | Code |
|---|---|---|
| `first_seen` | README.md:5: "measured against the earliest arrival across all running sources" | measured from the first arrival processed (`registry.rs:77-84`); the table's "Won First" (README.md:85) may be credited twice |
| `stragglers` | main.rs:329-331: in the grace period, stragglers "still make it into the registry" | a straggler that is still queued when the grace period ends may be dropped: with no gRPC source configured the aggregator may leave by a closed empty channel (`main.rs:341, 391, 422`) |
| `fastest_first` | table.rs:179: "sorted by p50 ascending (fastest first)" | a source that received nothing has a p50 of 0 (`stats.rs:45-46`) and is listed before sources with a positive median (`table.rs:199`) |

Further ones seen while modelling, without a run of their own: registry.rs:41
calls `first_shred_at` the "Earliest arrival across all shred-level sources", and
an entry-level event that opens the slot sets it too (`registry.rs:116-119`;
`SlotFirstAccountedFor` says what is true); main.rs:118-119 announces a duration of
at least one second, and with `duration_secs = 0` and no range the run has none
(`main.rs:432`); config.rs:63-64 promises that with `source_ips` only these
addresses are recorded, and a list in which nothing parses is no filter
(`main.rs:264-266`; the hypothesis of `CapturedAsConfigured`); a start that fails at
AF_PACKET on another system than Linux leaves its listeners uncancelled and hangs
(`main.rs:291`; the exception in `FailedStartExits`); the silence
monitor (main.rs:296 "Fires if no shred/slot event arrives") also fires while
events beyond the end slot arrive, since these do not set `activity`
(`main.rs:369-380`); the message "first shred received is for slot" (main.rs:358)
is about the first shred not before the range; `leader.rs:12-13` promises the
leader's slots, and the set is another one when the epoch turns between the two
calls (`FilterIsExactWithinEpoch` names the condition); README.md:75 measures the
overhead from the entry that contains the transaction, the code from the latest
entry of its slot (`yellowstone.rs:194-198`).

## 4. Fairness

Safety runs assume none. `RunFairness` in `BenchmarkRun` assumes, weakly: time
passes; the monitor and grace tasks run once due; main takes the step it can
take; the aggregator keeps working (taking events from *some* channel, not from
each); and a blocking read returns, by packet or after 100 ms, which is only
required once the token is set, because before that a timed-out read changes
nothing and requiring more would make packets arrive. Nothing is assumed of
the network, the gRPC servers, the streams (they may hang in any call) or the
user. The code justifies this: every wait of main, the monitor and the grace
task is a tokio timer or the token; every read has a timeout (`raw_udp.rs:36`,
`jito.rs:169`, `doublezero.rs:73`, `pcap.rs:200-209`).

`DirectFairness` assumes more, because `RegistrationRecovers` is a promise about
two parties: time passes, a pause ends and no call stays open for ever; and, of
the block engine, that an authentication or a heartbeat which can succeed
again and again does so some time (strong fairness of `NextCall`, `Reauthenticated`,
`HeartbeatServed`). A refresh never has to succeed. The code itself sets no
limit to a call: a block engine that never answers silences the task for good.
`StartSpec` assumes `WF(Exit)`: a runtime that can shut down does.

## 5. What is proved

Every theorem holds for every value of the constants that satisfies the named
assumptions: any sets of sources, slots, clock readings and tasks, any routes,
range, duration, timeout and lifetime, any configuration and any frame.

### The registry: `RegistryProofs`

From `RegistryAssumption`: clock readings, slots and latencies are naturals (an
`Instant`, two `u64`), and no source is of both kinds.

| Theorem | States |
|---|---|
| `RegistryTypes` | the maps keep their shape |
| `RegistryFirstIsHead` | a shred's summary fields are those of its first arrival |
| `RegistrySlotLowerBound` | a slot's `first_shred_at` is at or before every arrival of its shreds |
| `RegistrySlotFirstAccountedFor` | `first_shred_at` is a shred's time, or the slot was opened by an entry source no later |
| `RegistryRecordsOnlyGrow` | no step loses or rewrites an arrival, or raises a minimum |

Three lemmas say once what each `record_*` method leaves in each map
(`RecordShredEffect` and its like, the only place that opens `ShredsWith` and
`SlotsWith`); all else cites them. `RegTypeOK` is
inductive. `FirstIsHead` is inductive with it, since appending never touches the
head of a list that is not empty. `SlotLowerBound` relates two maps: it needs
that no event raises a slot's time (`SlotFirstOnlyLowers`: an entry-level event
on a known slot leaves it, a shred lowers it or leaves it) and that an event adds
one arrival, to its own shred (`ArrivalsAfter`). `SlotFirstAccountedFor` needs
the converses: an arrival on record stays (`ArrivalStays`), and a source's
earliest arrival is only lowered (`EntryArrivalsOnlyLower`), so whichever of the
two accounts for a slot goes on doing so while its time stands.

### The figures: `StatsProofs`

From the same assumption; `StatsAccountingBalances` also from finitely many shred
sources, which is what a configuration has.

| Theorem | States |
|---|---|
| `StatsEveryShredHasAWinner` | the source the log names as first has the win in the table |
| `StatsWinnersBeatLosers` | a source that lost a shred was later than each that won it |
| `StatsEntryLag` | the slot/entry latency never understates the lag behind a shred of the slot |
| `StatsLogAgreesWithTable` | log and tables agree on who delivered a shred, on each delta and on who won |
| `StatsAccountingBalances` | of each source, received and missed make up the total and data and code make up received; over all sources, received and duplicates make up all that arrived |

`ZeroDelta` is the key to the first two: a saturating delta is
zero exactly if the source was no later than `first_seen`; `FirstIsHead` then gives
the first and `SlotLowerBound` the third. `Min` is total on clock readings because
`<` is well-founded on the naturals (`MinFacts`).

The last two are about loops. The log finds a source's earliest arrival with a
fold over the arrivals, the table with a minimum over a set: `BySourceFacts` says
what the fold has after every prefix, and its last prefix is `LogMatchesTable`.
The balance is a double count: by source, and by shred. `SumsAdd` and
`SumOverPart` are the two facts on sums it takes, `RowsCountAllArrivals` has the
argument. An induction over data is stated here as "take the least counterexample"
(`FirstOfRun` for naturals, `LeastSubset` for finite sets).

### The way into the registry: `PipelineProofs`

From `PipelineAssumption`: finitely many listeners, which are not streams; a
listener's routes have distinct source ids, as `alloc_id` hands each out once.

| Theorem | States |
|---|---|
| `PipelineImplementsRegistry` | threads, channels and aggregator implement `RegSpec` |
| `PipelineNothingLost` | a source's stamps of a wanted shred are those recorded, then those queued, then those its listener has not sent |
| `PipelineFirstSeenOfSocket` | what came by one socket has its earliest arrival as `first_seen` |
| `PipelineRecordedAsAsked` | only wanted slots are recorded, by either arm; and if a start is set, a shred is on record in a run that was not cancelled only if the start was seen |
| `PipelineAtMostOneLatePacket` | a listener stamps one packet after the cancellation, at most |

By the first, every theorem about `RegSpec` above holds of a run's registry.
The other properties are not inductive as they stand:

- `SocketOrder`, for the second but one: what one listener stamps stays in order in the
  outbox, from there to the channel, and from the channel to the registry,
  each stage being at or before all that is still under way. It speaks
  of sources that one listener alone feeds; the inversions come from the others.
- `AskedInv`: all that is under way was stamped, and a checked start was seen in
  some stamp, or the run is cancelled. Shreds on record imply a checked start.
  `ArmsRecordWanted` compares each arm with the configuration.
- `LateIsPastTheRead`: a listener with a late packet is past its read.
- `NothingLost` is inductive with types, but its three stages are subsequences of
  sequences of events. `Kept` is a recursive function; `KeptOfConcat` and its
  neighbours say how it behaves on a concatenation, a head and a single
  element, and the steps (`ConservedWhenStamped`, `ConservedWhenSent`,
  `ConservedWhenTaken`) move one element from a stage to the next.

### The report beside the aggregator: `ReportProofs`

From `RegistryAssumption`; `ReportTablesTellOneStory` also from finitely many sources
of either kind.

| Theorem | States |
|---|---|
| `ReportImplementsRegistry` | with the pending update added to the slots, a detached aggregator's two updates per shred are one step of `RegSpec`, and the passes disturb nothing |
| `ReportFiguresAddUp` | received and missed of a source add up to at least the total read, and to it when the aggregator was joined; one arrival at most is ahead of its slot (none when joined); the log agrees with the tables |
| `ReportTablesTellOneStory` | the sorted tables agree about each source, the rounded win rate included, and no gRPC latency is shown that was not measured |

`PassesInv` says what a pass knows of a registry that has gone on: what was read
is an earlier state of what is there (`ReadsArePast`), the header's total counted
shreds that are visited (`TotalIsVisited`), only the arrival between the two
maps is ahead of its slot (`OnlyPendingIsAhead`), and of what was counted at most
one is (`AtMostOneAhead`). `FigureTypeOK` adds what the tables need of the types.

The third is about data. Ranks differ and are below the number of rows, so each is
taken once (`RanksDiffer`, `EachRankIsTaken`), and the sorted rows are the rows
given, all of them and no others (`SortedRows`): a source's row is found in every
table (`RowsOfSource`). The n-th value of an ascending list is zero exactly if n
values are (`AscendingFacts`), the index of a percentile has that share of the list
up to it (`PercentileRank`): so the median is zero when, and only when, half of
what a source received was won. A rate rounded to the nearest tenth is at a whole
threshold or on the side of it where the share is (`RateFacts`). A coverage above the whole needs more shreds visited
than counted, which only a detached aggregator can cause (`TotalIsVisited`).

### A run: `BenchmarkRunProofs`

From `BenchmarkRunAssumption`, `SlotGateAssumption`.

| Theorem | States |
|---|---|
| `RunTypes` | type correctness; a direct task is in its heartbeats only with its listener started |
| `RunAggOutlives` | the aggregator is in its loop as long as main waits or drains |
| `RunMonitorKeepsCount` | the monitor's count never runs ahead of the time without activity |
| `RunSilenceNotPremature` | the monitor stops a run only after the configured time without activity |
| `RunImplementsPhases` | the safety part of the refinement to `RunPhases` |

`SilenceNotPremature` speaks of the moment the monitor stops and is not
inductive: nothing in it says how the count got there. `MonitorKeepsCount` is
the strengthening: a second is counted only after a full sleep that began at the
previous count, and only if the flag is clear, that is, if nothing was noted since
the last swap; so the ghost clock `quiet` is at least the count, plus one if
another sleep is over. `AggOutlivesRun` rests on `AggBreak` needing
a channel without senders, and on main holding one of each until it has drained.
`RunImplementsPhases` maps every step to a step of `RunPhases` or a stutter, from
`AggOutlivesRun`, `ReportReadsFrozenRegistry` (the join is over once main reports) and
`StopIsSet` (main leaves its wait with the token set, and gives up on the
aggregator only after that).

### Streams and direct mode: `YellowstoneProofs`, `JitoDirectProofs`

From `YellowstoneAssumption` and `JitoDirectAssumption`.

| Theorem | States |
|---|---|
| `YellowWindowBounded` | the window of entry times is bounded |
| `YellowWindowComplete` | every slot the window should still hold is in it |
| `YellowSampleWithinConnection` | a sample never pairs an entry and an account update of two connections |
| `YellowSampleNotOverstated` | a sample never overstates the overhead |
| `DirectTypes` | type correctness; the listener is there exactly when the set-up went through |
| `DirectAtMostOneLateBeat` | one heartbeat, at most, begins after the cancellation |
| `DirectBearerOutlivesCall` | the token a heartbeat carries outlives its call |
| `DirectRegistrationKept` | the registration does not lapse while the task works on time |

`YellowInv` adds to the window's two properties that the times in the map are of
this connection and not in the future. `BearerOutlivesCall` is inductive with
types: a heartbeat is only begun with a token good for the margin, which is longer
than a call. `RegistrationKept` speaks of a lapse, and `OnTime` is what
forbids it: `MostSpent` bounds, phase by phase, the time since the last accepted
heartbeat (the rest of its call, the pause, a refused renewal and a new
authentication, the next heartbeat), and `RoomIsEnough` has the arithmetic that
half a TTL and four calls fit into the TTL.

### Start-up: `StartupProofs`

From `ConfigAssumption` (finitely many blocks of the five types, with names as the
user may write them), `FrameAssumption` (header fields are naturals, a UDP length
has 16 bits, a source address is an address) and `LeaderScheduleAssumption`.

| Theorem | States |
|---|---|
| `LeaderFilterIsExact`, `StartFilterIsExact` | the filter is the leader's slots of the epoch, unless it turned between the calls; of `leader.rs`, and of the whole start-up |
| `StartCapturedAsConfigured` | a capture block gets exactly one event for a frame it asks for, and none for another |
| `StartRowsFitTheTasks` | ids, rows, names and tasks fit together |

`SchedInv` has the indices of the first answer as indices of the epoch it was
served in, and `SlotOfEpoch` the arithmetic that turns them back into slots.

For the second, `FilterSteps` and `FilterDecides` run the BPF program on any
frame, an instruction at a time, with each bounds check and jump; `PayloadDecides`
does the same for the payload; `RouteAsConfigured` joins the two with the IP
filters. `CaptureInv` is the rest: blocks start in one order, so the capture rows
are the last of their table, and every started block has its route, once, in
the group of its socket.

For the third, `Adds` describes what the start of a block of any kind adds:
fresh ids, rows with given or default names, tasks that stamp those ids.
`ListenerAdds`, `JitoAdds`, `YellowstoneAdds` and `PcapAdds` show that each does,
and `RowsInv` is preserved by whatever does: `TableInv` (ids, rows and the
log's map), `NameInv` (a name is given, or the default of one started block),
`TaskInv`, `SocketInv` (the routes of a socket not open yet have no task) and
`ServedInv` (each row has a task, or will have one, or is of a direct mode without
a socket). That default names differ is `DefaultsDiffer`: by their base between
kinds, by their number within one.

## 6. What is only model-checked, and what is not modelled

Only checked by TLC:

- *Liveness*: `RangeEndStopsRun`, `SilentRunStops`, `TimedRunStops`,
  `CancelledRunExits`, `FailedStartExits`, `RegistrationRecovers` and the leads-to of
  `RunPhases` (the liveness part of `ImplementsRunPhases`). They need fairness and
  `ENABLED`, which the prover does not treat.
- *`OnlyStartCheckDrops`*, a sum over sources, shreds and queues.

Not modelled, and why:

- *Reading the configuration, writing the log file*: TOML, the command line and
  file I/O.
- *Failure of a socket's set-up*: such a listener thread ends at once, and is one
  that receives nothing; the process goes on without it.
- *The bytes of a shred's key and variant, Ed25519, base58, HTTP and JSON*: conversions
  whose results the properties do not tell apart.
- *The header line and the formatting of the tables*: the least and greatest slot are
  read in a pass of their own. Of a rate the rounding is modelled; a tie is rounded
  up, where the program follows the digits of the quotient.
- *plot.py, generated gRPC code*: not part of the program's logic.

Abstractions worth knowing: the monotonic clock is shared by all threads (as
`Instant` is); a listener whose `bind` fails is a listener that never runs; send
errors are ignored by the code and cannot occur while the aggregator lives; the
aggregator in `Pipeline` does not end (what it has recorded at any point is a
reachable registry), its end is in `BenchmarkRun`; after main has returned tasks
may still step until the process exits, where the runtime would cut them off.

## 7. Plan

The model is complete but for what section 6 lists, and every safety property a
passing run checks is proved, except `OnlyStartCheckDrops`. What is left:

1. `OnlyStartCheckDrops`, along the stages of `NothingLost`, with counts in the place
   of sequences.
2. `ReportAddsUp` of a joined aggregator on top of `PipelineImplementsRegistry`: one
   theorem from the socket to the table.
3. The leads-to properties, if a prover for fairness becomes available.
