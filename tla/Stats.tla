-------------------------------- MODULE Stats --------------------------------
(***************************************************************************)
(* The report: what compute_stats (src/src/stats.rs) and write_log         *)
(* (src/src/output/logfile.rs) make of the registry.  Both are pure        *)
(* functions of its maps.  A DashMap is iterated in no particular order    *)
(* and the vectors of deltas are sorted before use, so a vector with one   *)
(* entry per shred (or slot) is a function on the shreds (or slots).       *)
(***************************************************************************)
EXTENDS Registry, FiniteSets, FiniteSetsExt

\* Mutant: durations taken without the saturation, as an absolute difference.
duration_since_Abs(later, earlier) ==
    IF later >= earlier THEN later - earlier ELSE earlier - later

\* Instant::duration_since: zero, not an error, when the operands are swapped.
duration_since(later, earlier) ==
    IF later >= earlier THEN later - earlier ELSE 0

-----------------------------------------------------------------------------
(* Per-source figures over the shreds of the registry.                     *)
ArrivalsFrom(rec, src) ==
    {i \in DOMAIN rec.arrivals : rec.arrivals[i].source = src}

\* Mutant: the first arrival processed stands for the earliest one.
EarliestFrom_Head(rec, src) == rec.arrivals[Min(ArrivalsFrom(rec, src))].at

EarliestFrom(rec, src) ==
    Min({rec.arrivals[i].at : i \in ArrivalsFrom(rec, src)})

Delta(rec, src) == duration_since(EarliestFrom(rec, src), rec.first_seen)

ReceivedBy(src) == {k \in DOMAIN shreds : ArrivalsFrom(shreds[k], src) # {}}

\* Mutant: a win needs the source to be the one in first_source.
WinsOf_FirstSource(src) ==
    {k \in ReceivedBy(src) : shreds[k].first_source = src}

WinsOf(src) == {k \in ReceivedBy(src) : Delta(shreds[k], src) = 0}

\* Mutant: every arrival after the record's first counts as a duplicate.
Dupes_All(rec, src) == Cardinality(ArrivalsFrom(rec, src))

Dupes(rec, src) ==
    LET n == Cardinality(ArrivalsFrom(rec, src))
    IN  IF n > 1 THEN n - 1 ELSE 0

total_unique_shreds == Cardinality(DOMAIN shreds)

SourceStats(src) ==
    LET mine == ReceivedBy(src) IN
    [id          |-> src,
     received    |-> Cardinality(mine),
     missed      |-> Cardinality(DOMAIN shreds \ mine),
     data_shreds |-> Cardinality({k \in mine : k.shred_type = "Data"}),
     code_shreds |-> Cardinality({k \in mine : k.shred_type = "Code"}),
     wins        |-> Cardinality(WinsOf(src)),
     dupes       |-> SumFunction([k \in mine |-> Dupes(shreds[k], src)]),
     latency_ns  |-> [k \in mine |-> Delta(shreds[k], src)]]

-----------------------------------------------------------------------------
(* Per-source figures over the slots.                                      *)
SlotsSeenBy(src) == {s \in DOMAIN slots : src \in DOMAIN slots[s].entry_arrivals}

\* Mutant: the delta is taken from the other end.
EntryDelta_Swapped(rec, src) ==
    duration_since(rec.first_shred_at, rec.entry_arrivals[src])

EntryDelta(rec, src) ==
    duration_since(rec.entry_arrivals[src], rec.first_shred_at)

EntrySourceStats(src) ==
    [id         |-> src,
     slots_seen |-> Cardinality(SlotsSeenBy(src)),
     latency_ns |-> [s \in SlotsSeenBy(src) |-> EntryDelta(slots[s], src)]]

\* A source with no sample has no row.
GrpcOverheadSources == EntrySource \cap DOMAIN grpc_latencies

min_slot == IF slots = EmptyMap THEN 0 ELSE Min(DOMAIN slots)
max_slot == IF slots = EmptyMap THEN 0 ELSE Max(DOMAIN slots)

-----------------------------------------------------------------------------
(* One line of the log file: the sources that delivered the shred, each    *)
(* with the delta of its earliest arrival.                                 *)
BySource(arrivals) ==
    LET after[n \in 0..Len(arrivals)] ==
          IF n = 0 THEN NoEntries
          ELSE EarliestPerSource(after[n - 1], arrivals[n].source, arrivals[n].at)
    IN  after[Len(arrivals)]

LogEntry(k) ==
    LET rec == shreds[k]
        by_source == BySource(rec.arrivals)
    IN  [key          |-> k,
         first_source |-> rec.first_source,
         deltas       |-> [src \in DOMAIN by_source |->
                              duration_since(by_source[src], rec.first_seen)]]

-----------------------------------------------------------------------------
(* Every recorded arrival is counted exactly once in the tables: for each  *)
(* source received + missed is the number of unique shreds and data + code *)
(* is received, and over all sources the received and duplicate counts add *)
(* up to the arrivals held by the registry.                                *)
AccountingBalances ==
    /\ \A src \in ShredSource :
          LET st == SourceStats(src) IN
          /\ st.received + st.missed = total_unique_shreds
          /\ st.data_shreds + st.code_shreds = st.received
    /\ SumFunction([src \in ShredSource |->
                       SourceStats(src).received + SourceStats(src).dupes])
          = SumFunction([k \in DOMAIN shreds |-> Len(shreds[k].arrivals)])

(* No shred is left without a winner: the source the log names as first    *)
(* is credited with the win by the table, so the wins of all sources cover *)
(* the unique shreds.  (There may be more than one winner.)                *)
EveryShredHasAWinner ==
    \A k \in DOMAIN shreds : k \in WinsOf(shreds[k].first_source)

(* A source that lost a shred really was later than every source that won  *)
(* it: the table never credits the later of a winner and a loser, although *)
(* first_seen need not be the earliest arrival.                            *)
WinnersBeatLosers ==
    \A winner, loser \in ShredSource :
        \A k \in WinsOf(winner) \cap (ReceivedBy(loser) \ WinsOf(loser)) :
            EarliestFrom(shreds[k], winner) < EarliestFrom(shreds[k], loser)

(* The table and the log file compute the deltas by different code; they   *)
(* agree on who delivered each shred, on every delta, and so on who won.   *)
LogAgreesWithTable ==
    \A k \in DOMAIN shreds :
        LET log == LogEntry(k) IN
        /\ DOMAIN log.deltas = {src \in ShredSource : k \in ReceivedBy(src)}
        /\ \A src \in DOMAIN log.deltas :
              log.deltas[src] = SourceStats(src).latency_ns[k]

(* The slot/entry latency of a source never understates its lag behind any *)
(* shred of the slot: README "latency from the earliest shred received     *)
(* across all your running sources" is a lower bound of what is reported.  *)
EntryLagNotUnderstated ==
    \A src \in EntrySource, k \in DOMAIN shreds :
        k.slot \in SlotsSeenBy(src) =>
            \A i \in DOMAIN shreds[k].arrivals :
                EntryDelta(slots[k.slot], src)
                   >= duration_since(slots[k.slot].entry_arrivals[src],
                                     shreds[k].arrivals[i].at)
=============================================================================
