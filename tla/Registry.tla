------------------------------ MODULE Registry ------------------------------
(***************************************************************************)
(* The arrival store of src/src/registry.rs: which source delivered which  *)
(* shred and when (shreds), what is known of each slot (slots), and the    *)
(* gRPC overhead samples per source (grpc_latencies).                      *)
(*                                                                         *)
(* The three record_* methods are the only writers.  They are called by    *)
(* the aggregator task, one event at a time, in the order in which events  *)
(* leave the channels; received_at was stamped earlier, by the thread that *)
(* read the socket, so the times of successive calls need not increase.    *)
(* RegSpec therefore allows every event at every step.                     *)
(***************************************************************************)
EXTENDS Naturals, Sequences

CONSTANTS
    ShredSource,    \* SourceIds in active_shred_sources (main.rs)
    EntrySource,    \* SourceIds in active_entry_sources
    Slot,
    Index,          \* shred index within its slot
    Time,           \* readings of the monotonic clock (Instant)
    Latency         \* gRPC overhead samples, in nanoseconds

ASSUME RegistryAssumption ==
    /\ Time \subseteq Nat
    /\ Slot \subseteq Nat
    /\ Latency \subseteq Nat
    /\ ShredSource \cap EntrySource = {}    \* every id is allocated once

VARIABLES
    shreds,         \* ShredKey -> ShredRecord, for the keys seen
    slots,          \* slot -> SlotRecord, for the slots seen
    grpc_latencies  \* source -> sequence of samples, for the sources seen

regVars == <<shreds, slots, grpc_latencies>>

ShredType == {"Data", "Code"}
ShredKey  == [slot : Slot, index : Index, shred_type : ShredType]

ShredEvent       == [source : ShredSource, key : ShredKey, received_at : Time]
SlotEvent        == [source : EntrySource, slot : Slot, received_at : Time]
GrpcLatencyEvent == [source : EntrySource, latency_ns : Latency]

Arrival == [source : ShredSource, at : Time]

ShredRecord ==
    [first_seen : Time, first_source : ShredSource, arrivals : Seq(Arrival)]

\* entry_arrivals is a Vec with at most one pair per source, searched by
\* source and never read in order: a function on the sources it holds.
SlotRecord ==
    [first_shred_at : Time,
     entry_arrivals : UNION {[S -> Time] : S \in SUBSET EntrySource}]

-----------------------------------------------------------------------------
(* DashMap entry().and_modify().or_insert_with(): bind k to v.             *)
Upsert(map, k, v) ==
    [x \in DOMAIN map \cup {k} |-> IF x = k THEN v ELSE map[x]]

ArrivalOf(e) == [source |-> e.source, at |-> e.received_at]

\* Mutant: the first source follows the last event, the first time does not.
ModifiedShred_FirstSourceFollows(rec, e) ==
    [rec EXCEPT !.arrivals = Append(@, ArrivalOf(e)), !.first_source = e.source]

ModifiedShred(rec, e) == [rec EXCEPT !.arrivals = Append(@, ArrivalOf(e))]

NewShred(e) ==
    [first_seen   |-> e.received_at,
     first_source |-> e.source,
     arrivals     |-> <<ArrivalOf(e)>>]

SlotSeesShred(rec, t) ==
    IF t < rec.first_shred_at THEN [rec EXCEPT !.first_shred_at = t] ELSE rec

\* Mutant: a new slot starts at "never", to be lowered by what follows.
NewSlot_Sentinel(t, entries) ==
    [first_shred_at |-> 999, entry_arrivals |-> entries]

NewSlot(t, entries) == [first_shred_at |-> t, entry_arrivals |-> entries]

(* An arrival of source at time t in a per-source earliest-arrival table.  *)
\* Mutant: the last arrival of a source wins instead of its earliest.
EarliestPerSource_Last(table, source, t) == Upsert(table, source, t)

EarliestPerSource(table, source, t) ==
    IF source \in DOMAIN table /\ table[source] <= t
    THEN table
    ELSE Upsert(table, source, t)

NoEntries == [s \in {} |-> 0]

-----------------------------------------------------------------------------
\* The two updates of record_shred.
ShredsWith(e) ==
    Upsert(shreds, e.key, IF e.key \in DOMAIN shreds
                          THEN ModifiedShred(shreds[e.key], e)
                          ELSE NewShred(e))

SlotsWith(e) ==
    LET slot == e.key.slot IN
    Upsert(slots, slot, IF slot \in DOMAIN slots
                        THEN SlotSeesShred(slots[slot], e.received_at)
                        ELSE NewSlot(e.received_at, NoEntries))

record_shred(e) ==
    /\ shreds' = ShredsWith(e)
    /\ slots' = SlotsWith(e)
    /\ UNCHANGED grpc_latencies

\* Mutant: an entry-level arrival overwrites the slot's first_shred_at.
SlotSeesEntry_Overwrites(rec, e) ==
    [first_shred_at |-> e.received_at,
     entry_arrivals |->
        EarliestPerSource(rec.entry_arrivals, e.source, e.received_at)]

SlotSeesEntry(rec, e) ==
    [rec EXCEPT !.entry_arrivals =
        EarliestPerSource(@, e.source, e.received_at)]

record_slot_event(e) ==
    /\ slots' = Upsert(slots, e.slot,
                       IF e.slot \in DOMAIN slots
                       THEN SlotSeesEntry(slots[e.slot], e)
                       ELSE NewSlot(e.received_at,
                                    Upsert(NoEntries, e.source, e.received_at)))
    /\ UNCHANGED <<shreds, grpc_latencies>>

record_grpc_latency(e) ==
    /\ grpc_latencies' =
          Upsert(grpc_latencies, e.source,
                 IF e.source \in DOMAIN grpc_latencies
                 THEN Append(grpc_latencies[e.source], e.latency_ns)
                 ELSE <<e.latency_ns>>)
    /\ UNCHANGED <<shreds, slots>>

-----------------------------------------------------------------------------
EmptyMap == [x \in {} |-> 0]

RegInit ==
    /\ shreds = EmptyMap
    /\ slots = EmptyMap
    /\ grpc_latencies = EmptyMap

RegNext ==
    \/ \E e \in ShredEvent : record_shred(e)
    \/ \E e \in SlotEvent : record_slot_event(e)
    \/ \E e \in GrpcLatencyEvent : record_grpc_latency(e)

RegSpec == RegInit /\ [][RegNext]_regVars

-----------------------------------------------------------------------------
(* The shape of the three maps.                                            *)
RegTypeOK ==
    /\ DOMAIN shreds \subseteq ShredKey
    /\ \A k \in DOMAIN shreds : shreds[k] \in ShredRecord
    /\ DOMAIN slots \subseteq Slot
    /\ \A s \in DOMAIN slots : slots[s] \in SlotRecord
    /\ DOMAIN grpc_latencies \subseteq EntrySource
    /\ \A s \in DOMAIN grpc_latencies : grpc_latencies[s] \in Seq(Latency)

(* The summary fields of a shred record and its arrival list never drift   *)
(* apart: first_seen and first_source are those of one and the same        *)
(* arrival, the head of the list, however many events follow.  stats.rs    *)
(* measures every delta from first_seen, logfile.rs prints first_source.   *)
FirstIsHead ==
    \A k \in DOMAIN shreds :
        LET rec == shreds[k] IN
        /\ Len(rec.arrivals) > 0
        /\ rec.arrivals[1] = [source |-> rec.first_source, at |-> rec.first_seen]

(* Every shred's slot is known, and its first_shred_at is a lower bound of *)
(* every arrival of every shred of the slot, although arrivals come        *)
(* unordered and land in two maps.                                         *)
SlotLowerBound ==
    \A k \in DOMAIN shreds :
        /\ k.slot \in DOMAIN slots
        /\ \A i \in DOMAIN shreds[k].arrivals :
               slots[k.slot].first_shred_at <= shreds[k].arrivals[i].at

ShredArrivedAt(s, t) ==
    \E k \in DOMAIN shreds :
        /\ k.slot = s
        /\ \E i \in DOMAIN shreds[k].arrivals : shreds[k].arrivals[i].at = t

(* first_shred_at is never a time made up or left stale: it is the time of *)
(* a recorded shred of the slot, or else the slot was opened by an         *)
(* entry-level source, which has an arrival no later than it.              *)
SlotFirstAccountedFor ==
    \A s \in DOMAIN slots :
        \/ ShredArrivedAt(s, slots[s].first_shred_at)
        \/ \E src \in DOMAIN slots[s].entry_arrivals :
               slots[s].entry_arrivals[src] <= slots[s].first_shred_at

(* Records only grow: no event removes a record or rewrites an arrival,    *)
(* and every minimum kept (per slot, per entry source) can only go down.   *)
RecordsOnlyGrow ==
    [][/\ \A k \in DOMAIN shreds :
             /\ k \in DOMAIN shreds'
             /\ shreds'[k].first_seen = shreds[k].first_seen
             /\ SubSeq(shreds'[k].arrivals, 1, Len(shreds[k].arrivals))
                   = shreds[k].arrivals
       /\ \A s \in DOMAIN slots :
             /\ s \in DOMAIN slots'
             /\ slots'[s].first_shred_at <= slots[s].first_shred_at
             /\ \A src \in DOMAIN slots[s].entry_arrivals :
                   /\ src \in DOMAIN slots'[s].entry_arrivals
                   /\ slots'[s].entry_arrivals[src]
                         <= slots[s].entry_arrivals[src]]_regVars
=============================================================================
