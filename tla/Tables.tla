-------------------------------- MODULE Tables --------------------------------
(***************************************************************************)
(* The figures print_results (src/src/output/table.rs) shows for the       *)
(* statistics it is given: percentiles (src/src/stats.rs), rates and the   *)
(* order of the rows.  The layout is left out; rates are in tenths of a    *)
(* percent.                                                                *)
(***************************************************************************)
EXTENDS Integers, Sequences, SequencesExt

Ascending(f) ==     \* the values of f, sorted, with their repetitions
    [n \in 1..Cardinality(DOMAIN f) |->
        Min({v \in Range(f) : Cardinality({x \in DOMAIN f : f[x] <= v}) >= n})]

\* Mutant: the rank is used as the index.
PercentileIndex_IsRank(n, p) == Min({(n * p + 999) \div 1000, n - 1})

\* ceil(n * p / 100) - 1, at least zero and at most the last; p in tenths.
PercentileIndex(n, p) ==
    LET rank == (n * p + 999) \div 1000
    IN  Min({IF rank = 0 THEN 0 ELSE rank - 1, n - 1})

percentile(sorted, p) ==
    IF sorted = <<>> THEN 0
    ELSE sorted[PercentileIndex(Len(sorted), p) + 1]

compute_percentiles(f) ==
    LET v == Ascending(f) IN
    [p50   |-> percentile(v, 500), p90 |-> percentile(v, 900),
     p95   |-> percentile(v, 950), p99 |-> percentile(v, 990),
     p99_9 |-> percentile(v, 999),
     max   |-> IF v = <<>> THEN 0 ELSE Last(v)]

-----------------------------------------------------------------------------
(* The rows at the positions in the domain of key, sorted by it.  As       *)
(* Vec::sort_by_key and sort_by are stable, rows with one key keep their   *)
(* order; those a table leaves out are filtered before it is sorted.       *)
StableSort(rows, key) ==
    LET Rank(i) == Cardinality({j \in DOMAIN key :
                       key[j] < key[i] \/ (key[j] = key[i] /\ j < i)})
    IN  [n \in 1..Cardinality(DOMAIN key) |->
            rows[CHOOSE i \in DOMAIN key : Rank(i) = n - 1]]

ByMedian(rows, shown) == StableSort(rows, [n \in shown |-> rows[n].p.p50])

\* {:.1}%: rounded to the nearest tenth of a percent.  (A tie is rounded up
\* here; in the program it depends on the digits of the floating-point quotient.)
Rate(part, whole) == (part * 2000 + whole) \div (whole * 2)
NotAvailable == 10000       \* printed as "N/A"

\* The rows of sources, a sequence of SourceStats.
LatencyRows(sources) ==
    LET rows == [n \in DOMAIN sources |->
                    [source |-> sources[n].id,
                     shreds |-> sources[n].received,
                     p      |-> compute_percentiles(sources[n].latency_ns)]]
    IN  ByMedian(rows, DOMAIN rows)

WinRows(sources) ==
    LET rows == [n \in DOMAIN sources |->
                    [source         |-> sources[n].id,
                     wins           |-> sources[n].wins,
                     total_received |-> sources[n].received,
                     win_rate       |-> IF sources[n].received > 0
                                        THEN Rate(sources[n].wins, sources[n].received)
                                        ELSE NotAvailable]]
    IN  StableSort(rows, [n \in DOMAIN rows |-> -rows[n].wins])

ByReceived(rows, sources) ==
    StableSort(rows, [n \in DOMAIN rows |-> -sources[n].received])

CoverageRows(sources, total) ==
    LET rows == [n \in DOMAIN sources |->
                    [source   |-> sources[n].id,
                     received |-> sources[n].received,
                     coverage |-> IF total = 0 THEN NotAvailable
                                  ELSE Rate(sources[n].received, total),
                     dupes    |-> sources[n].dupes,
                     missed   |-> sources[n].missed]]
    IN  ByReceived(rows, sources)

\* Whole percents, each rounded down on its own.
Percent(part, whole) == IF whole > 0 THEN (part * 100) \div whole ELSE 0

TypeRows(sources) ==
    LET both(s) == s.data_shreds + s.code_shreds
        rows == [n \in DOMAIN sources |->
                    [source   |-> sources[n].id,
                     data     |-> sources[n].data_shreds,
                     data_pct |-> Percent(sources[n].data_shreds, both(sources[n])),
                     code     |-> sources[n].code_shreds,
                     code_pct |-> Percent(sources[n].code_shreds, both(sources[n]))]]
    IN  ByReceived(rows, sources)

\* The two gRPC tables leave out the sources without a figure.
SlotRows(entry_sources) ==
    LET rows == [n \in DOMAIN entry_sources |->
                    [source |-> entry_sources[n].id,
                     slots  |-> entry_sources[n].slots_seen,
                     p      |-> compute_percentiles(entry_sources[n].latency_ns)]]
    IN  ByMedian(rows, {n \in DOMAIN rows : rows[n].slots > 0})

GrpcRows(grpc_overhead) ==
    LET rows == [n \in DOMAIN grpc_overhead |->
                    [source  |-> grpc_overhead[n].id,
                     samples |-> grpc_overhead[n].samples,
                     p       |-> compute_percentiles(grpc_overhead[n].latency_ns)]]
    IN  ByMedian(rows, {n \in DOMAIN rows : rows[n].samples > 0})
=============================================================================
