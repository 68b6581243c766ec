------------------------------- MODULE Report -------------------------------
(***************************************************************************)
(* The end of main (src/src/main.rs): compute_stats, print_results and     *)
(* write_log read the registry, map by map and entry by entry, while the   *)
(* aggregator may still be recording.  main waits for it for two seconds;  *)
(* when that timeout expires the task is detached, not stopped.            *)
(*                                                                         *)
(* A DashMap is locked shard by shard.  record_shred holds the lock of one *)
(* entry at a time, so it is two steps here.  An iteration sees every      *)
(* entry that was there when it began, each as it is when it is reached,   *)
(* in any order, and may or may not see those inserted meanwhile.          *)
(***************************************************************************)
EXTENDS Registry, Tables

CONSTANTS               \* bounds of the model
    MaxEvents,          \* events recorded in a behaviour
    MaxLate             \* events begun while the report is made

VARIABLES
    pending,        \* the shred event recorded in shreds but not yet in slots
    left,           \* how many more events the bounds allow
    agg,            \* "running", then "joined" or "detached"
    pass,           \* what main is reading
    due,            \* entries this pass still has to visit
    total_unique_shreds,
    seen_shreds,    \* what compute_stats has read ...
    total_slots,
    seen_slots,
    seen_grpc,
    logged          \* ... and write_log

aggVars    == <<regVars, pending, left>>
readVars   == <<total_unique_shreds, seen_shreds, total_slots, seen_slots,
                seen_grpc, logged>>
reportVars == <<aggVars, agg, pass, due, readVars>>

\* What compute_stats and write_log make of what they read.
Stat == INSTANCE Stats WITH shreds <- seen_shreds, slots <- seen_slots,
                            grpc_latencies <- seen_grpc
Log  == INSTANCE Stats WITH shreds <- logged, slots <- seen_slots,
                            grpc_latencies <- seen_grpc

ReportInit ==
    /\ RegInit
    /\ pending = <<>>
    /\ left = MaxEvents
    /\ agg = "running"
    /\ pass = "run"
    /\ due = {}
    /\ total_unique_shreds = 0
    /\ seen_shreds = EmptyMap
    /\ total_slots = 0
    /\ seen_slots = EmptyMap
    /\ seen_grpc = EmptyMap
    /\ logged = EmptyMap

-----------------------------------------------------------------------------
AggNext ==
    /\ agg # "joined"
    /\ pending = <<>>
    /\ left > 0
    /\ left' = left - 1
    /\ UNCHANGED <<agg, pass, due, readVars>>

RecordInShreds(e) ==
    /\ AggNext
    /\ shreds' = ShredsWith(e)
    /\ pending' = <<e>>
    /\ UNCHANGED <<slots, grpc_latencies>>

RecordInSlots ==
    /\ pending # <<>>
    /\ slots' = SlotsWith(Head(pending))
    /\ pending' = <<>>
    /\ UNCHANGED <<shreds, grpc_latencies, left, agg, pass, due, readVars>>

RecordEntry(e) == AggNext /\ record_slot_event(e) /\ UNCHANGED pending

RecordGrpc(e) == AggNext /\ record_grpc_latency(e) /\ UNCHANGED pending

-----------------------------------------------------------------------------
\* Mutant: main waits for the channels to be empty, not for the task.
Ended_ChannelsEmpty == TRUE

Ended == pending = <<>>

\* timeout(2 s, agg_task) is over: the task has ended, or it goes on alone.
JoinAggregator ==
    /\ pass = "run"
    /\ pass' = "total"
    /\ \/ Ended /\ agg' = "joined" /\ UNCHANGED pending
       \/ agg' = "detached" /\ UNCHANGED pending
    /\ left' = Min({left, MaxLate})
    /\ UNCHANGED <<regVars, due, readVars>>

ReadTotal ==
    /\ pass = "total"
    /\ total_unique_shreds' = Cardinality(DOMAIN shreds)
    /\ pass' = "shreds"
    /\ due' = DOMAIN shreds
    /\ UNCHANGED <<aggVars, agg, seen_shreds, total_slots, seen_slots,
                   seen_grpc, logged>>

VisitShred ==
    /\ pass = "shreds"
    /\ \E k \in DOMAIN shreds \ DOMAIN seen_shreds :
          /\ seen_shreds' = Upsert(seen_shreds, k, shreds[k])
          /\ due' = due \ {k}
    /\ UNCHANGED <<aggVars, agg, pass, total_unique_shreds, total_slots,
                   seen_slots, seen_grpc, logged>>

ReadSlotTotal ==
    /\ pass = "shreds"
    /\ due = {}
    /\ total_slots' = Cardinality(DOMAIN slots)
    /\ pass' = "slots"
    /\ due' = DOMAIN slots
    /\ UNCHANGED <<aggVars, agg, total_unique_shreds, seen_shreds, seen_slots,
                   seen_grpc, logged>>

VisitSlot ==
    /\ pass = "slots"
    /\ \E s \in DOMAIN slots \ DOMAIN seen_slots :
          /\ seen_slots' = Upsert(seen_slots, s, slots[s])
          /\ due' = due \ {s}
    /\ UNCHANGED <<aggVars, agg, pass, total_unique_shreds, seen_shreds,
                   total_slots, seen_grpc, logged>>

\* The samples, then the tables; then the log file is begun.
ReadGrpc ==
    /\ pass = "slots"
    /\ due = {}
    /\ seen_grpc' = grpc_latencies
    /\ pass' = "log"
    /\ due' = DOMAIN shreds
    /\ UNCHANGED <<aggVars, agg, total_unique_shreds, seen_shreds, total_slots,
                   seen_slots, logged>>

VisitForLog ==
    /\ pass = "log"
    /\ \E k \in DOMAIN shreds \ DOMAIN logged :
          /\ logged' = Upsert(logged, k, shreds[k])
          /\ due' = due \ {k}
    /\ UNCHANGED <<aggVars, agg, pass, total_unique_shreds, seen_shreds,
                   total_slots, seen_slots, seen_grpc>>

LogWritten ==
    /\ pass = "log"
    /\ due = {}
    /\ pass' = "done"
    /\ UNCHANGED <<aggVars, agg, due, readVars>>

ReportNext ==
    \/ \E e \in ShredEvent : RecordInShreds(e)
    \/ RecordInSlots
    \/ \E e \in SlotEvent : RecordEntry(e)
    \/ \E e \in GrpcLatencyEvent : RecordGrpc(e)
    \/ JoinAggregator
    \/ ReadTotal
    \/ VisitShred
    \/ ReadSlotTotal
    \/ VisitSlot
    \/ ReadGrpc
    \/ VisitForLog
    \/ LogWritten

ReportSpec == ReportInit /\ [][ReportNext]_reportVars

-----------------------------------------------------------------------------
(* The tables, from the statistics of each source in the order of its id.  *)
sources ==
    LET ids == SetToSeq(ShredSource)
    IN  [n \in DOMAIN ids |-> Stat!SourceStats(ids[n])]

entry_sources ==
    LET ids == SetToSeq(EntrySource)
    IN  [n \in DOMAIN ids |-> Stat!EntrySourceStats(ids[n])]

grpc_overhead ==
    LET ids == SetToSeq(Stat!GrpcOverheadSources)
    IN  [n \in DOMAIN ids |-> [id         |-> ids[n],
                               samples    |-> Len(seen_grpc[ids[n]]),
                               latency_ns |-> seen_grpc[ids[n]]]]

\* The arrivals counted whose slot was not known, or not known to be as
\* early, when the slots were read.
Torn ==
    {a \in UNION {{k} \X DOMAIN seen_shreds[k].arrivals :
                     k \in DOMAIN seen_shreds} :
        a[1].slot \in DOMAIN seen_slots =>
            seen_slots[a[1].slot].first_shred_at
                > seen_shreds[a[1]].arrivals[a[2]].at}

(* The report holds together although its passes read a registry that may  *)
(* be moving.  Each source's received and missed add up to the shreds      *)
(* visited, never fewer than the total of the header, and as many when the *)
(* aggregator was joined.  At most one arrival counted is ahead of its     *)
(* slot.  The log has every shred of the tables, with the same winner and  *)
(* with no delta larger than the one the table was made of.                *)
ReportAddsUp ==
    pass = "done" =>
        /\ \A n \in DOMAIN sources :
              LET all == sources[n].received + sources[n].missed IN
              /\ all >= total_unique_shreds
              /\ agg = "joined" => all = total_unique_shreds
        /\ Cardinality(Torn) <= IF agg = "joined" THEN 0 ELSE 1
        /\ \A k \in DOMAIN seen_shreds :
              /\ k \in DOMAIN logged
              /\ logged[k].first_source = seen_shreds[k].first_source
              /\ \A src \in ShredSource : k \in Stat!ReceivedBy(src) =>
                    Log!LogEntry(k).deltas[src]
                        <= Stat!SourceStats(src).latency_ns[k]

Row(rows, src) == CHOOSE r \in ToSet(rows) : r.source = src

\* The percentiles p of a source against its wins, its shreds and the
\* win rate printed for it.
SharesAgree(p, wins, received, win_rate) ==
    /\ p.p50 = 0 <=> 2 * wins >= received
    /\ p.p90 = 0 <=> 10 * wins >= 9 * received
    /\ p.max = 0 <=> wins = received
    /\ IF p.p50 = 0 THEN win_rate >= 500 ELSE win_rate <= 500
    /\ IF p.p90 = 0 THEN win_rate >= 900 ELSE win_rate <= 900
    /\ p.max = 0 => win_rate = 1000

\* What the four tables say of a shred-level source.
OneStory(src) ==
    LET lat == Row(LatencyRows(sources), src)
        win == Row(WinRows(sources), src)
        cov == Row(CoverageRows(sources, total_unique_shreds), src)
        typ == Row(TypeRows(sources), src)
    IN  /\ lat.shreds > 0 =>
              SharesAgree(lat.p, win.wins, win.total_received, win.win_rate)
        /\ lat.shreds = win.total_received
        /\ lat.shreds = typ.data + typ.code
        /\ lat.shreds + cov.missed = Cardinality(DOMAIN seen_shreds)
        /\ cov.received > total_unique_shreds => agg = "detached"
        /\ total_unique_shreds > 0 /\ cov.coverage > 1000 => agg = "detached"

(* The tables tell one story of each source, though each is computed and   *)
(* sorted on its own: a percentile is zero exactly when that share of the  *)
(* "Total Received" is in "Won First", and the printed win rate never      *)
(* says otherwise (at the share itself it may be rounded either way); the  *)
(* rows count the same shreds; and a source receives more than there was,  *)
(* or covers more than the whole, only beside a running aggregator.  The   *)
(* gRPC tables show no latency that was not measured.                      *)
TablesTellOneStory ==
    pass = "done" =>
        /\ \A src \in ShredSource : OneStory(src)
        /\ \A r \in ToSet(SlotRows(entry_sources)) :
              r.p.p50 \in Range(Stat!EntrySourceStats(r.source).latency_ns)
        /\ \A r \in ToSet(GrpcRows(grpc_overhead)) :
              r.p.p50 \in Range(seen_grpc[r.source])

(* table.rs:179: "Latency table - sorted by p50 ascending (fastest         *)
(* first)".  A source that delivered nothing is no faster than one that    *)
(* did, whose median is behind the first arrival.                          *)
FastestFirst ==
    pass = "done" =>
        LET rows == LatencyRows(sources) IN
        \A i, j \in DOMAIN rows :
            i < j /\ rows[j].p.p50 > 0 => rows[i].shreds > 0
=============================================================================
