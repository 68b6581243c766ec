----------------------------- MODULE StatsProofs -----------------------------
(***************************************************************************)
(* TLAPS proofs about the report: who wins a shred, and what the slot and  *)
(* entry latencies are worth, for every reachable registry.                *)
(***************************************************************************)
EXTENDS Stats, RegistryProofs, WellFoundedInduction, FiniteSetTheorems

(* Min is what its name says on any set of clock readings.                 *)
LEMMA MinFacts ==
    ASSUME NEW S \in SUBSET Nat, S # {}
    PROVE  Min(S) \in S /\ \A y \in S : Min(S) <= y
<1>1. PICK x \in S : \A y \in S : ~(<<y, x>> \in OpToRel(<, Nat))
  BY NatLessThanWellFounded, WFMin
<1>2. ASSUME NEW y \in S PROVE x <= y
  <2>1. x \in Nat /\ y \in Nat
    OBVIOUS
  <2>2. ~(y < x)
    BY <1>1, <2>1 DEF OpToRel
  <2> QED BY <2>1, <2>2
<1> QED BY <1>2 DEF Min

LEMMA EarliestFromFacts ==
    ASSUME NEW rec \in ShredRecord, NEW src, ArrivalsFrom(rec, src) # {}
    PROVE  /\ EarliestFrom(rec, src) \in Nat
           /\ \A i \in ArrivalsFrom(rec, src) :
                 EarliestFrom(rec, src) <= rec.arrivals[i].at
<1> DEFINE times == {rec.arrivals[i].at : i \in ArrivalsFrom(rec, src)}
<1>1. ASSUME NEW i \in ArrivalsFrom(rec, src) PROVE rec.arrivals[i].at \in Nat
  <2>1. rec.arrivals \in Seq(Arrival) /\ i \in DOMAIN rec.arrivals
    BY DEF ArrivalsFrom, ShredRecord
  <2>2. rec.arrivals[i] \in Arrival
    BY <2>1
  <2> QED BY <2>2, RegistryAssumption DEF Arrival
<1>2. times \in SUBSET Nat /\ times # {}
  BY <1>1
<1>3. Min(times) \in times /\ \A t \in times : Min(times) <= t
  BY <1>2, MinFacts
<1> HIDE DEF times
<1>4. Min(times) \in Nat
  BY <1>2, <1>3
<1> QED BY <1>3, <1>4 DEF EarliestFrom, times

(* A delta is zero exactly if the source was no later than first_seen.     *)
LEMMA ZeroDelta ==
    ASSUME NEW rec \in ShredRecord, NEW src, ArrivalsFrom(rec, src) # {}
    PROVE  Delta(rec, src) = 0 <=> EarliestFrom(rec, src) <= rec.first_seen
<1>1. EarliestFrom(rec, src) \in Nat
  BY EarliestFromFacts
<1>2. rec.first_seen \in Nat
  BY RegistryAssumption DEF ShredRecord
<1> QED BY <1>1, <1>2 DEF Delta, duration_since

-----------------------------------------------------------------------------
LEMMA FirstSourceWins == RegTypeOK /\ FirstIsHead => EveryShredHasAWinner
<1> SUFFICES ASSUME RegTypeOK, FirstIsHead, NEW k \in DOMAIN shreds
             PROVE  k \in WinsOf(shreds[k].first_source)
  BY DEF EveryShredHasAWinner
<1> DEFINE rec == shreds[k]
<1>1. rec \in ShredRecord
  BY DEF RegTypeOK
<1>2. 1 \in ArrivalsFrom(rec, rec.first_source)
      /\ rec.arrivals[1].at = rec.first_seen
  <2>1. rec.arrivals \in Seq(Arrival) /\ Len(rec.arrivals) > 0
    BY <1>1 DEF FirstIsHead, ShredRecord
  <2>2. rec.arrivals[1] = [source |-> rec.first_source, at |-> rec.first_seen]
    BY DEF FirstIsHead
  <2> QED BY <2>1, <2>2 DEF ArrivalsFrom
<1>3. EarliestFrom(rec, rec.first_source) <= rec.first_seen
  BY <1>1, <1>2, EarliestFromFacts
<1>4. Delta(rec, rec.first_source) = 0
  BY <1>1, <1>2, <1>3, ZeroDelta
<1> QED BY <1>2, <1>4 DEF WinsOf, ReceivedBy

(* No shred is without a winner: the source the log names as first always  *)
(* has the win in the table.                                               *)
THEOREM StatsEveryShredHasAWinner == RegSpec => []EveryShredHasAWinner
  BY FirstSourceWins, RegistryTypes, RegistryFirstIsHead, PTL

LEMMA WinnersAreEarlier == RegTypeOK => WinnersBeatLosers
<1> SUFFICES ASSUME RegTypeOK, NEW winner, NEW loser,
                    NEW k \in WinsOf(winner)
                                \cap (ReceivedBy(loser) \ WinsOf(loser))
             PROVE  EarliestFrom(shreds[k], winner)
                       < EarliestFrom(shreds[k], loser)
  BY DEF WinnersBeatLosers
<1> DEFINE rec == shreds[k]
<1>1. /\ k \in DOMAIN shreds
      /\ ArrivalsFrom(rec, winner) # {} /\ Delta(rec, winner) = 0
      /\ ArrivalsFrom(rec, loser) # {} /\ Delta(rec, loser) # 0
  BY DEF WinsOf, ReceivedBy
<1>2. rec \in ShredRecord /\ rec.first_seen \in Nat
  BY <1>1, RegistryAssumption DEF RegTypeOK, ShredRecord
<1>3. EarliestFrom(rec, winner) \in Nat /\ EarliestFrom(rec, loser) \in Nat
  BY <1>1, <1>2, EarliestFromFacts
<1>4. /\ EarliestFrom(rec, winner) <= rec.first_seen
      /\ ~(EarliestFrom(rec, loser) <= rec.first_seen)
  BY <1>1, <1>2, ZeroDelta
<1> QED BY <1>2, <1>3, <1>4

(* A source that lost a shred was later than each source that won it,      *)
(* although first_seen is the first arrival processed, not the earliest.   *)
THEOREM StatsWinnersBeatLosers == RegSpec => []WinnersBeatLosers
  BY WinnersAreEarlier, RegistryTypes, PTL

-----------------------------------------------------------------------------
LEMMA EntryLag == RegTypeOK /\ SlotLowerBound => EntryLagNotUnderstated
<1> SUFFICES ASSUME RegTypeOK, SlotLowerBound,
                    NEW src, NEW k \in DOMAIN shreds,
                    k.slot \in SlotsSeenBy(src),
                    NEW i \in DOMAIN shreds[k].arrivals
             PROVE  EntryDelta(slots[k.slot], src)
                       >= duration_since(slots[k.slot].entry_arrivals[src],
                                         shreds[k].arrivals[i].at)
  BY DEF EntryLagNotUnderstated
<1>1. k.slot \in DOMAIN slots /\ src \in DOMAIN slots[k.slot].entry_arrivals
  BY DEF SlotsSeenBy
<1>2. slots[k.slot] \in SlotRecord
  BY <1>1 DEF RegTypeOK
<1>3. slots[k.slot].first_shred_at \in Nat
  BY <1>2, RegistryAssumption DEF SlotRecord
<1>4. slots[k.slot].entry_arrivals[src] \in Nat
  <2>1. PICK S \in SUBSET EntrySource :
           slots[k.slot].entry_arrivals \in [S -> Time]
    BY <1>2 DEF SlotRecord
  <2> QED BY <1>1, <2>1, RegistryAssumption
<1>5. shreds[k].arrivals[i].at \in Nat
  <2>1. shreds[k].arrivals \in Seq(Arrival)
    BY DEF RegTypeOK, ShredRecord
  <2>2. shreds[k].arrivals[i] \in Arrival
    BY <2>1
  <2> QED BY <2>2, RegistryAssumption DEF Arrival
<1>6. slots[k.slot].first_shred_at <= shreds[k].arrivals[i].at
  BY DEF SlotLowerBound
<1> QED BY <1>3, <1>4, <1>5, <1>6 DEF EntryDelta, duration_since

(* The slot/entry latency never understates a source's lag behind a shred  *)
(* of the slot, in whatever order shreds and entries were recorded.        *)
THEOREM StatsEntryLag == RegSpec => []EntryLagNotUnderstated
  BY EntryLag, RegistryTypes, RegistrySlotLowerBound, PTL

-----------------------------------------------------------------------------
(* The log file folds the arrivals into a per-source table.  What a fold   *)
(* leaves after each number of arrivals is found by least counterexample:  *)
(* a set of numbers that is not empty has a member 0 or one whose          *)
(* predecessor is outside.                                                 *)
LEMMA FirstOfRun ==
    ASSUME NEW S \in SUBSET Nat, S # {}
    PROVE  \E n \in S : n = 0 \/ (n - 1 \in Nat /\ n - 1 \notin S)
<1>1. Min(S) \in S /\ \A y \in S : Min(S) <= y
  BY MinFacts
<1>2. Min(S) \in Nat
  BY <1>1
<1> QED BY <1>1, <1>2

\* One round of the loop: what the table is after n arrivals, if f says what
\* it is after fewer.
FoldUpTo(m, f, arrivals) ==
    [n \in 0..m |->
        IF n = 0 THEN NoEntries
        ELSE EarliestPerSource(f[n - 1], arrivals[n].source, arrivals[n].at)]

LEMMA FoldExists ==
    ASSUME NEW arrivals, NEW L \in Nat
    PROVE  \E f : f = FoldUpTo(L, f, arrivals)
<1> DEFINE Bad == {m \in 0..L : ~ \E f : f = FoldUpTo(m, f, arrivals)}
<1>1. SUFFICES ASSUME Bad # {} PROVE FALSE
  OBVIOUS
<1>2. PICK m \in Bad : m = 0 \/ (m - 1 \in Nat /\ m - 1 \notin Bad)
  <2>1. Bad \in SUBSET Nat
    OBVIOUS
  <2> HIDE DEF Bad
  <2> QED BY <1>1, <2>1, FirstOfRun
<1>3. m \in 0..L /\ ~ \E f : f = FoldUpTo(m, f, arrivals)
  BY <1>2
<1>4. CASE m = 0
  <2> DEFINE g == [n \in 0..0 |-> NoEntries]
  <2>1. g = FoldUpTo(0, g, arrivals)
    BY DEF FoldUpTo
  <2> QED BY <1>3, <1>4, <2>1
<1>5. CASE m # 0
  <2>1. m - 1 \in 0..L /\ m \in Nat
    BY <1>2, <1>3, <1>5
  <2>2. PICK g : g = FoldUpTo(m - 1, g, arrivals)
    BY <1>2, <1>5, <2>1
  <2> DEFINE h == [n \in 0..m |->
                      IF n = m
                      THEN EarliestPerSource(g[n - 1], arrivals[n].source,
                                             arrivals[n].at)
                      ELSE g[n]]
  <2>3. ASSUME NEW n \in 0..m
        PROVE  h[n] = IF n = 0 THEN NoEntries
                      ELSE EarliestPerSource(h[n - 1], arrivals[n].source,
                                             arrivals[n].at)
    <3>1. CASE n = m
      <4>1. n - 1 \in 0..m /\ n - 1 # m
        BY <1>5, <2>1, <3>1
      <4>2. h[n - 1] = g[n - 1]
        BY <4>1
      <4> QED BY <1>5, <3>1, <4>2
    <3>2. CASE n # m
      <4>1. n \in 0..m - 1
        BY <2>1, <3>2
      <4>2. g[n] = IF n = 0 THEN NoEntries
                   ELSE EarliestPerSource(g[n - 1], arrivals[n].source,
                                          arrivals[n].at)
        BY <2>2, <4>1 DEF FoldUpTo
      <4>3. n # 0 => n - 1 \in 0..m /\ n - 1 # m
        BY <2>1, <4>1
      <4>4. n # 0 => h[n - 1] = g[n - 1]
        BY <4>3
      <4> QED BY <3>2, <4>2, <4>4
    <3> QED BY <3>1, <3>2
  <2>4. h = FoldUpTo(m, h, arrivals)
    BY <2>3 DEF FoldUpTo
  <2> QED BY <1>3, <2>4
<1> QED BY <1>4, <1>5

(* The table after n arrivals holds the earliest of each source so far.    *)
IsEarliestTable(table, arrivals, n) ==
    /\ table = [src \in DOMAIN table |-> table[src]]
    /\ DOMAIN table = {arrivals[i].source : i \in 1..n}
    /\ \A src \in DOMAIN table :
          /\ \E i \in 1..n :
                arrivals[i].source = src /\ arrivals[i].at = table[src]
          /\ \A i \in 1..n :
                arrivals[i].source = src => table[src] <= arrivals[i].at

LEMMA EarliestTableStep ==
    ASSUME NEW arrivals \in Seq(Arrival), NEW n \in 1..Len(arrivals), NEW table,
           IsEarliestTable(table, arrivals, n - 1)
    PROVE  IsEarliestTable(EarliestPerSource(table, arrivals[n].source,
                                             arrivals[n].at), arrivals, n)
<1> DEFINE src == arrivals[n].source
           at  == arrivals[n].at
           new == EarliestPerSource(table, src, at)
<1>1. \A i \in 1..n : arrivals[i] \in Arrival
  OBVIOUS
<1>2. \A i \in 1..n : arrivals[i].at \in Nat
  BY <1>1, RegistryAssumption DEF Arrival
<1>3. n \in Nat /\ 1..n = (1..n - 1) \cup {n}
  OBVIOUS
<1>4. at \in Nat
  BY <1>2, <1>3
<1>5. \A s \in DOMAIN table : table[s] \in Nat
  BY <1>2, <1>3 DEF IsEarliestTable
<1>6. CASE src \in DOMAIN table /\ table[src] <= at
  <2>1. new = table
    BY <1>6 DEF EarliestPerSource
  <2> HIDE DEF new
  <2>2. DOMAIN table = {arrivals[i].source : i \in 1..n}
    BY <1>3, <1>6 DEF IsEarliestTable
  <2>3. ASSUME NEW s \in DOMAIN table
        PROVE  /\ \E i \in 1..n :
                     arrivals[i].source = s /\ arrivals[i].at = table[s]
               /\ \A i \in 1..n :
                     arrivals[i].source = s => table[s] <= arrivals[i].at
    BY <1>3, <1>6 DEF IsEarliestTable
  <2>4. IsEarliestTable(table, arrivals, n)
    BY <2>2, <2>3 DEF IsEarliestTable
  <2> QED BY <2>1, <2>4 DEF new
<1>7. CASE ~(src \in DOMAIN table /\ table[src] <= at)
  <2>1. /\ new = [s \in DOMAIN table \cup {src} |-> IF s = src THEN at ELSE table[s]]
    BY <1>7 DEF EarliestPerSource, Upsert
  <2> HIDE DEF new
  <2>2. DOMAIN new = {arrivals[i].source : i \in 1..n}
    BY <1>3, <2>1 DEF IsEarliestTable
  <2>3. ASSUME NEW s \in DOMAIN new, s # src
        PROVE  /\ \E i \in 1..n :
                     arrivals[i].source = s /\ arrivals[i].at = new[s]
               /\ \A i \in 1..n :
                     arrivals[i].source = s => new[s] <= arrivals[i].at
    <3>1. s \in DOMAIN table /\ new[s] = table[s]
      BY <2>1, <2>3
    <3> QED BY <1>3, <2>3, <3>1 DEF IsEarliestTable
  <2>4. new[src] = at
    BY <2>1
  <2>5. ASSUME NEW i \in 1..n, arrivals[i].source = src
        PROVE  at <= arrivals[i].at
    <3>1. CASE i = n
      BY <1>4, <3>1
    <3>2. CASE i # n
      <4>1. i \in 1..n - 1
        BY <1>3, <3>2
      <4>2. src \in DOMAIN table /\ table[src] <= arrivals[i].at
        BY <2>5, <4>1 DEF IsEarliestTable
      <4> QED BY <1>2, <1>4, <1>5, <1>7, <4>2
    <3> QED BY <3>1, <3>2
  <2>6. new = [s \in DOMAIN new |-> new[s]]
    BY <2>1
  <2>7. n \in 1..n
    BY <1>3
  <2>8. ASSUME NEW s \in DOMAIN new
        PROVE  /\ \E i \in 1..n :
                     arrivals[i].source = s /\ arrivals[i].at = new[s]
               /\ \A i \in 1..n :
                     arrivals[i].source = s => new[s] <= arrivals[i].at
    <3>1. CASE s = src
      BY <2>4, <2>5, <2>7, <3>1
    <3> QED BY <2>3, <3>1
  <2> HIDE DEF src, at
  <2>9. IsEarliestTable(new, arrivals, n)
    BY <2>2, <2>6, <2>8 DEF IsEarliestTable
  <2> QED BY <2>9 DEF new, src, at
<1> QED BY <1>6, <1>7

(* by_source of a log line is the earliest arrival of each source.         *)
LEMMA BySourceFacts ==
    ASSUME NEW arrivals \in Seq(Arrival)
    PROVE  IsEarliestTable(BySource(arrivals), arrivals, Len(arrivals))
<1> DEFINE L == Len(arrivals)
           after == CHOOSE f : f = FoldUpTo(L, f, arrivals)
<1>1. BySource(arrivals) = after[L]
  BY DEF BySource, FoldUpTo
<1>2. L \in Nat
  OBVIOUS
<1>3. after = FoldUpTo(L, after, arrivals)
  <2> HIDE DEF L
  <2>1. \E f : f = FoldUpTo(L, f, arrivals)
    BY <1>2, FoldExists
  <2> QED BY <2>1
<1> DEFINE Bad == {n \in 0..L : ~IsEarliestTable(after[n], arrivals, n)}
<1>4. ASSUME Bad # {} PROVE FALSE
  <2> HIDE DEF after
  <2>1. Bad \in SUBSET Nat
    OBVIOUS
  <2>2. PICK n \in Bad : n = 0 \/ (n - 1 \in Nat /\ n - 1 \notin Bad)
    <3> HIDE DEF Bad
    <3> QED BY <1>4, <2>1, FirstOfRun
  <2>3. n \in 0..L /\ ~IsEarliestTable(after[n], arrivals, n)
    BY <2>2
  <2>4. after[n] = IF n = 0 THEN NoEntries
                   ELSE EarliestPerSource(after[n - 1], arrivals[n].source,
                                          arrivals[n].at)
    BY <1>3, <2>3 DEF FoldUpTo
  <2>5. CASE n = 0
    <3>1. after[n] = NoEntries
      BY <2>4, <2>5
    <3>2. IsEarliestTable(NoEntries, arrivals, 0)
      BY DEF IsEarliestTable, NoEntries
    <3> QED BY <2>3, <2>5, <3>1, <3>2
  <2>6. CASE n # 0
    <3>1. n \in 1..L /\ n - 1 \in 0..L
      BY <1>2, <2>3, <2>6
    <3>2. IsEarliestTable(after[n - 1], arrivals, n - 1)
      BY <2>2, <2>6, <3>1
    <3>3. IsEarliestTable(EarliestPerSource(after[n - 1], arrivals[n].source,
                                            arrivals[n].at), arrivals, n)
      BY <3>1, <3>2, EarliestTableStep
    <3> QED BY <2>3, <2>4, <2>6, <3>3
  <2> QED BY <2>5, <2>6
<1>5. IsEarliestTable(after[L], arrivals, L)
  <2> HIDE DEF after
  <2>1. L \in 0..L
    BY <1>2
  <2> QED BY <1>4, <2>1
<1> QED BY <1>1, <1>5

LEMMA EarliestIsLeast ==
    ASSUME NEW rec \in ShredRecord, NEW src,
           NEW t \in Nat,
           \E i \in ArrivalsFrom(rec, src) : rec.arrivals[i].at = t,
           \A i \in ArrivalsFrom(rec, src) : t <= rec.arrivals[i].at
    PROVE  EarliestFrom(rec, src) = t
<1> DEFINE times == {rec.arrivals[i].at : i \in ArrivalsFrom(rec, src)}
<1>1. times \in SUBSET Nat
  <2> SUFFICES ASSUME NEW i \in ArrivalsFrom(rec, src)
               PROVE  rec.arrivals[i].at \in Nat
    OBVIOUS
  <2>1. rec.arrivals \in Seq(Arrival) /\ i \in DOMAIN rec.arrivals
    BY DEF ArrivalsFrom, ShredRecord
  <2>2. rec.arrivals[i] \in Arrival
    BY <2>1
  <2> QED BY <2>2, RegistryAssumption DEF Arrival
<1>2. t \in times /\ \A y \in times : t <= y
  OBVIOUS
<1> HIDE DEF times
<1>3. Min(times) \in times /\ \A y \in times : Min(times) <= y
  BY <1>1, <1>2, MinFacts
<1>4. Min(times) = t
  <2>1. Min(times) \in Nat /\ Min(times) <= t /\ t <= Min(times)
    BY <1>1, <1>2, <1>3
  <2> QED BY <2>1
<1> QED BY <1>4 DEF EarliestFrom, times

(* The log line of an arrival list: who delivered, and each one's earliest *)
(* arrival.                                                                *)
LEMMA LogOfRecord ==
    ASSUME NEW rec \in ShredRecord
    PROVE  /\ DOMAIN BySource(rec.arrivals)
                 = {src \in ShredSource : ArrivalsFrom(rec, src) # {}}
           /\ \A src \in DOMAIN BySource(rec.arrivals) :
                 BySource(rec.arrivals)[src] = EarliestFrom(rec, src)
<1> DEFINE arrivals == rec.arrivals
           table    == BySource(arrivals)
<1>1. arrivals \in Seq(Arrival)
  BY DEF ShredRecord
<1> HIDE DEF table
<1>2. IsEarliestTable(table, arrivals, Len(arrivals))
  BY <1>1, BySourceFacts DEF table
<1>3. /\ DOMAIN arrivals = 1..Len(arrivals)
      /\ \A i \in 1..Len(arrivals) : arrivals[i] \in Arrival
  BY <1>1
<1>4. \A src : ArrivalsFrom(rec, src)
                  = {i \in 1..Len(arrivals) : arrivals[i].source = src}
  BY <1>3 DEF ArrivalsFrom
<1> HIDE DEF arrivals
<1>5. DOMAIN table = {arrivals[i].source : i \in 1..Len(arrivals)}
  BY <1>2 DEF IsEarliestTable
<1>6. DOMAIN table = {src \in ShredSource : ArrivalsFrom(rec, src) # {}}
  <2>1. \A i \in 1..Len(arrivals) : arrivals[i].source \in ShredSource
    BY <1>3 DEF Arrival
  <2>2. \A src : ArrivalsFrom(rec, src) # {}
           <=> \E i \in 1..Len(arrivals) : arrivals[i].source = src
    BY <1>4
  <2> QED BY <1>5, <2>1, <2>2
<1>7. ASSUME NEW src \in DOMAIN table
      PROVE  table[src] = EarliestFrom(rec, src)
  <2>1. /\ \E i \in 1..Len(arrivals) :
              arrivals[i].source = src /\ arrivals[i].at = table[src]
        /\ \A i \in 1..Len(arrivals) :
              arrivals[i].source = src => table[src] <= arrivals[i].at
    BY <1>2 DEF IsEarliestTable
  <2>2. table[src] \in Nat
    BY <1>3, <2>1, RegistryAssumption DEF Arrival
  <2>3. /\ \E i \in ArrivalsFrom(rec, src) : rec.arrivals[i].at = table[src]
        /\ \A i \in ArrivalsFrom(rec, src) : table[src] <= rec.arrivals[i].at
    BY <1>4, <2>1 DEF arrivals
  <2> QED BY <2>2, <2>3, EarliestIsLeast
<1> QED BY <1>6, <1>7 DEF table, arrivals

LEMMA LatencyOf ==
    ASSUME NEW src
    PROVE  SourceStats(src).latency_ns
              = [k \in ReceivedBy(src) |-> Delta(shreds[k], src)]
  BY DEF SourceStats

LEMMA LogMatchesTable == RegTypeOK => LogAgreesWithTable
<1> SUFFICES ASSUME RegTypeOK, NEW k \in DOMAIN shreds
             PROVE  /\ DOMAIN LogEntry(k).deltas
                          = {src \in ShredSource : k \in ReceivedBy(src)}
                    /\ \A src \in DOMAIN LogEntry(k).deltas :
                          LogEntry(k).deltas[src] = SourceStats(src).latency_ns[k]
  BY DEF LogAgreesWithTable
<1> DEFINE table == BySource(shreds[k].arrivals)
<1>1. shreds[k] \in ShredRecord
  BY DEF RegTypeOK
<1>2. LogEntry(k).deltas = [src \in DOMAIN table |->
                               duration_since(table[src], shreds[k].first_seen)]
  BY DEF LogEntry
<1> HIDE DEF table
<1>3. /\ DOMAIN table
            = {src \in ShredSource : ArrivalsFrom(shreds[k], src) # {}}
      /\ \A src \in DOMAIN table : table[src] = EarliestFrom(shreds[k], src)
  BY <1>1, LogOfRecord DEF table
<1>4. DOMAIN table = {src \in ShredSource : k \in ReceivedBy(src)}
  BY <1>3 DEF ReceivedBy
<1>5. ASSUME NEW src \in DOMAIN table
      PROVE  LogEntry(k).deltas[src] = SourceStats(src).latency_ns[k]
  <2>1. LogEntry(k).deltas[src] = Delta(shreds[k], src)
    BY <1>2, <1>3 DEF Delta
  <2>2. k \in ReceivedBy(src)
    BY <1>4
  <2> QED BY <2>1, <2>2, LatencyOf
<1> QED BY <1>2, <1>4, <1>5

(* The log file folds the arrivals one by one, the table takes a minimum:  *)
(* whatever arrived and in which order, they name the same sources and the *)
(* same deltas.                                                            *)
THEOREM StatsLogAgreesWithTable == RegSpec => []LogAgreesWithTable
  BY LogMatchesTable, RegistryTypes, PTL

-----------------------------------------------------------------------------
(* A set of finite sets that is not empty has one none of whose members    *)
(* can be left out: what holds of {} and of T whenever it holds of T       *)
(* without some member holds of every finite set.                          *)
LEMMA LeastSubset ==
    ASSUME NEW D, IsFiniteSet(D), NEW Bad \in SUBSET (SUBSET D), Bad # {}
    PROVE  \E T \in Bad : \A x \in T : T \ {x} \notin Bad
<1> DEFINE sizes == {Cardinality(T) : T \in Bad}
<1>1. \A T \in SUBSET D : IsFiniteSet(T) /\ Cardinality(T) \in Nat
  BY FS_Subset, FS_CardinalityType
<1>2. sizes # {} /\ sizes \in SUBSET Nat
  BY <1>1
<1> HIDE DEF sizes
<1>3. Min(sizes) \in sizes /\ \A m \in sizes : Min(sizes) <= m
  BY <1>2, MinFacts
<1>4. PICK T \in Bad : Min(sizes) = Cardinality(T)
  BY <1>3 DEF sizes
<1>5. ASSUME NEW x \in T, T \ {x} \in Bad PROVE FALSE
  <2>1. Cardinality(T \ {x}) = Cardinality(T) - 1
    BY <1>1, FS_RemoveElement
  <2>2. Cardinality(T) \in Nat /\ Cardinality(T \ {x}) \in Nat
    BY <1>1
  <2>3. Cardinality(T \ {x}) \in sizes
    BY <1>5 DEF sizes
  <2> QED BY <1>3, <1>4, <2>1, <2>2, <2>3
<1> QED BY <1>5

-----------------------------------------------------------------------------
(* The recursion behind SumFunction, on the subsets in C.                  *)
PartSumsOn(C, g, f) ==
    [T \in C |-> IF T = {} THEN 0
                 ELSE LET x == CHOOSE x \in T : TRUE IN f[x] + g[T \ {x}]]

PartSums(f) == CHOOSE g : g = PartSumsOn(SUBSET DOMAIN f, g, f)

LEMMA SumIsLastPart == \A f : SumFunction(f) = PartSums(f)[DOMAIN f]
  BY DEF SumFunction, SumFunctionOnSet, FoldFunctionOnSet, MapThenFoldSet,
         PartSums, PartSumsOn

LEMMA PartSumsExist ==
    ASSUME NEW f, IsFiniteSet(DOMAIN f)
    PROVE  PartSums(f) = PartSumsOn(SUBSET DOMAIN f, PartSums(f), f)
<1> DEFINE D == DOMAIN f
           UpTo(n) == {T \in SUBSET D : Cardinality(T) <= n}
           Bad == {n \in Nat : ~ \E g : g = PartSumsOn(UpTo(n), g, f)}
<1>1. \A T \in SUBSET D : IsFiniteSet(T) /\ Cardinality(T) \in Nat
  BY FS_Subset, FS_CardinalityType
<1>2. \A T \in SUBSET D : T # {} =>
         LET x == CHOOSE x \in T : TRUE
         IN  x \in T /\ T \ {x} \in SUBSET D /\ Cardinality(T \ {x}) = Cardinality(T) - 1
  BY <1>1, FS_RemoveElement
<1> HIDE DEF D
<1>3. \E g : g = PartSumsOn(UpTo(0), g, f)
  <2> DEFINE g == [T \in UpTo(0) |-> 0]
  <2>1. \A T \in UpTo(0) : T = {}
    BY <1>1, FS_EmptySet
  <2>2. g = PartSumsOn(UpTo(0), g, f)
    BY <2>1 DEF PartSumsOn
  <2> QED BY <2>2
<1>4. ASSUME NEW n \in Nat, NEW g, g = PartSumsOn(UpTo(n), g, f)
      PROVE  \E h : h = PartSumsOn(UpTo(n + 1), h, f)
  <2> DEFINE C == UpTo(n + 1)
             h == PartSumsOn(C, g, f)
  <2>1. ASSUME NEW T \in UpTo(n) PROVE T \in C /\ g[T] = h[T]
    <3>1. T \in C
      BY <1>1
    <3>2. \A B : T \in B => PartSumsOn(B, g, f)[T] = IF T = {} THEN 0
                ELSE LET x == CHOOSE x \in T : TRUE IN f[x] + g[T \ {x}]
      BY DEF PartSumsOn
    <3> HIDE DEF UpTo, C
    <3>3. g[T] = PartSumsOn(UpTo(n), g, f)[T]
      BY <1>4
    <3> QED BY <3>1, <3>2, <3>3
  <2>2. ASSUME NEW T \in C, T # {}
        PROVE  g[T \ {CHOOSE x \in T : TRUE}] = h[T \ {CHOOSE x \in T : TRUE}]
    <3>1. T \ {CHOOSE x \in T : TRUE} \in UpTo(n)
      BY <1>1, <1>2, <2>2
    <3> QED BY <2>1, <3>1
  <2> HIDE DEF C, h
  <2>3. PartSumsOn(C, g, f) = PartSumsOn(C, h, f)
    BY <2>2 DEF PartSumsOn
  <2>4. h = PartSumsOn(C, h, f)
    BY <2>3 DEF h
  <2> QED BY <2>4 DEF C
<1>5. Bad = {}
  <2> SUFFICES ASSUME Bad # {} PROVE FALSE
    OBVIOUS
  <2>1. PICK n \in Bad : n = 0 \/ (n - 1 \in Nat /\ n - 1 \notin Bad)
    BY FirstOfRun
  <2>2. CASE n = 0
    BY <1>3, <2>1, <2>2
  <2>3. CASE n # 0
    <3>1. n - 1 \in Nat /\ n - 1 \notin Bad /\ n \in Nat
      BY <2>1, <2>3
    <3>2. PICK g : g = PartSumsOn(UpTo(n - 1), g, f)
      BY <3>1
    <3> DEFINE m == n - 1
    <3>3. m \in Nat /\ m + 1 = n
      BY <3>1
    <3> HIDE DEF m
    <3>4. \E h : h = PartSumsOn(UpTo(m + 1), h, f)
      BY <1>4, <3>2, <3>3 DEF m
    <3> QED BY <2>1, <3>3, <3>4
  <2> QED BY <2>2, <2>3
<1>6. UpTo(Cardinality(D)) = SUBSET D
  BY <1>1, FS_Subset DEF D
<1>7. \E g : g = PartSumsOn(SUBSET D, g, f)
  BY <1>5, <1>1, <1>6
<1> QED BY <1>7 DEF PartSums, D

LEMMA PartSumsType ==
    ASSUME NEW f, IsFiniteSet(DOMAIN f), \A x \in DOMAIN f : f[x] \in Nat
    PROVE  \A T \in SUBSET DOMAIN f : PartSums(f)[T] \in Nat
<1> DEFINE D == DOMAIN f
           s == PartSums(f)
           Bad == {T \in SUBSET D : s[T] \notin Nat}
<1>1. \A T \in SUBSET D :
         s[T] = IF T = {} THEN 0
                ELSE LET x == CHOOSE x \in T : TRUE IN f[x] + s[T \ {x}]
  BY PartSumsExist DEF PartSumsOn
<1>2. \A x \in D : f[x] \in Nat
  OBVIOUS
<1>3. IsFiniteSet(D)
  OBVIOUS
<1> SUFFICES ASSUME Bad # {} PROVE FALSE
  OBVIOUS
<1> HIDE DEF D, s
<1>4. PICK T \in Bad : \A x \in T : T \ {x} \notin Bad
  BY <1>3, LeastSubset
<1>5. ASSUME T = {} PROVE FALSE
  <2>1. s[{}] = 0
    BY <1>1
  <2> QED BY <1>4, <1>5, <2>1
<1>6. PICK c : c = CHOOSE x \in T : TRUE
  OBVIOUS
<1>7. c \in T /\ T \ {c} \in SUBSET D
  BY <1>4, <1>5, <1>6
<1>8. s[T] = f[c] + s[T \ {c}]
  BY <1>1, <1>4, <1>5, <1>6
<1>9. s[T \ {c}] \in Nat /\ f[c] \in Nat
  BY <1>2, <1>4, <1>7
<1> QED BY <1>4, <1>8, <1>9

(* Any member may be added last.                                           *)
LEMMA PartSumsStep ==
    ASSUME NEW f, IsFiniteSet(DOMAIN f), \A x \in DOMAIN f : f[x] \in Nat
    PROVE  /\ PartSums(f)[{}] = 0
           /\ \A T \in SUBSET DOMAIN f : \A x \in T :
                 PartSums(f)[T] = f[x] + PartSums(f)[T \ {x}]
<1> DEFINE D == DOMAIN f
           s == PartSums(f)
           Bad == {T \in SUBSET D : \E x \in T : s[T] # f[x] + s[T \ {x}]}
<1>1. \A T \in SUBSET D :
         s[T] = IF T = {} THEN 0
                ELSE LET x == CHOOSE x \in T : TRUE IN f[x] + s[T \ {x}]
  BY PartSumsExist DEF PartSumsOn
<1>2. /\ \A x \in D : f[x] \in Nat
      /\ \A T \in SUBSET D : s[T] \in Nat
      /\ IsFiniteSet(D)
  BY PartSumsType
<1>3. s[{}] = 0
  BY <1>1
<1> HIDE DEF D, s
<1>4. ASSUME Bad # {} PROVE FALSE
  <2>1. PICK T \in Bad : \A x \in T : T \ {x} \notin Bad
    BY <1>2, <1>4, LeastSubset
  <2>2. PICK x \in T : s[T] # f[x] + s[T \ {x}]
    BY <2>1
  <2>3. PICK c : c = CHOOSE y \in T : TRUE
    OBVIOUS
  <2>4. c \in T /\ s[T] = f[c] + s[T \ {c}]
    BY <1>1, <2>1, <2>2, <2>3
  <2>5. x \in T \ {c} /\ c \in T \ {x}
    BY <2>2, <2>4
  <2>6. T \ {c} \in SUBSET D /\ T \ {x} \in SUBSET D
    BY <2>1
  <2>7. /\ s[T \ {c}] = f[x] + s[(T \ {c}) \ {x}]
        /\ s[T \ {x}] = f[c] + s[(T \ {x}) \ {c}]
    BY <2>1, <2>4, <2>5, <2>6
  <2> DEFINE U == (T \ {c}) \ {x}
  <2>8. (T \ {x}) \ {c} = U
    OBVIOUS
  <2>9. s[U] \in Nat /\ f[x] \in Nat /\ f[c] \in Nat
    BY <1>2, <2>1, <2>4
  <2> HIDE DEF U
  <2>10. /\ s[T \ {c}] = f[x] + s[U]
         /\ s[T \ {x}] = f[c] + s[U]
    BY <2>7, <2>8 DEF U
  <2> QED BY <2>2, <2>4, <2>9, <2>10
<1> QED BY <1>3, <1>4 DEF D, s

LEMMA SumsAdd ==
    ASSUME NEW D, IsFiniteSet(D),
           NEW f, DOMAIN f = D, \A x \in D : f[x] \in Nat,
           NEW g, DOMAIN g = D, \A x \in D : g[x] \in Nat,
           NEW h, DOMAIN h = D, \A x \in D : h[x] = f[x] + g[x]
    PROVE  SumFunction(h) = SumFunction(f) + SumFunction(g)
<1> DEFINE p == PartSums(f)
           q == PartSums(g)
           r == PartSums(h)
           Bad == {T \in SUBSET D : r[T] # p[T] + q[T]}
<1>1. \A x \in D : h[x] \in Nat
  OBVIOUS
<1>2. /\ p[{}] = 0 /\ q[{}] = 0 /\ r[{}] = 0
      /\ \A T \in SUBSET D : \A x \in T : p[T] = f[x] + p[T \ {x}]
      /\ \A T \in SUBSET D : \A x \in T : q[T] = g[x] + q[T \ {x}]
      /\ \A T \in SUBSET D : \A x \in T : r[T] = h[x] + r[T \ {x}]
  BY <1>1, PartSumsStep
<1>3. \A T \in SUBSET D : p[T] \in Nat /\ q[T] \in Nat
  BY PartSumsType
<1>4. SumFunction(f) = p[D] /\ SumFunction(g) = q[D] /\ SumFunction(h) = r[D]
  BY SumIsLastPart
<1> HIDE DEF p, q, r
<1>5. ASSUME Bad # {} PROVE FALSE
  <2>1. PICK T \in Bad : \A x \in T : T \ {x} \notin Bad
    BY <1>5, LeastSubset
  <2>2. ASSUME T = {} PROVE FALSE
    <3>1. p[{}] = 0 /\ q[{}] = 0 /\ r[{}] = 0
      BY <1>2
    <3>2. r[T] = p[T] + q[T]
      BY <2>2, <3>1
    <3> QED BY <2>1, <3>2
  <2>3. PICK x : x \in T
    BY <2>2
  <2>4. T \ {x} \in SUBSET D /\ x \in D
    BY <2>1, <2>3
  <2>5. r[T \ {x}] = p[T \ {x}] + q[T \ {x}]
    BY <2>1, <2>3, <2>4
  <2>6. /\ p[T] = f[x] + p[T \ {x}] /\ q[T] = g[x] + q[T \ {x}]
        /\ r[T] = h[x] + r[T \ {x}]
    BY <1>2, <2>1, <2>3
  <2>7. p[T \ {x}] \in Nat /\ q[T \ {x}] \in Nat
    BY <1>3, <2>4
  <2>8. f[x] \in Nat /\ g[x] \in Nat /\ h[x] = f[x] + g[x]
    BY <2>4
  <2>9. r[T] = p[T] + q[T]
    BY <2>5, <2>6, <2>7, <2>8
  <2> QED BY <2>1, <2>9
<1> QED BY <1>4, <1>5

(* Counting one more for each member of M.                                 *)
LEMMA SumOverPart ==
    ASSUME NEW D, IsFiniteSet(D), NEW M \in SUBSET D,
           NEW f, DOMAIN f = D, NEW g, DOMAIN g = M, \A x \in M : g[x] \in Nat,
           \A x \in M : f[x] = g[x] + 1,
           \A x \in D \ M : f[x] = 0
    PROVE  SumFunction(f) = Cardinality(M) + SumFunction(g)
<1> DEFINE p == PartSums(f)
           q == PartSums(g)
           n(T) == Cardinality(M \cap T)
           Bad == {T \in SUBSET D : p[T] # n(T) + q[M \cap T]}
<1>1. \A x \in D : f[x] \in Nat
  OBVIOUS
<1>2. IsFiniteSet(M)
  BY FS_Subset
<1>3. /\ p[{}] = 0 /\ q[{}] = 0
      /\ \A T \in SUBSET D : \A x \in T : p[T] = f[x] + p[T \ {x}]
      /\ \A T \in SUBSET M : \A x \in T : q[T] = g[x] + q[T \ {x}]
  BY <1>1, <1>2, PartSumsStep, ZenonT(30)
<1>4. /\ \A T \in SUBSET D : p[T] \in Nat
      /\ \A T \in SUBSET M : q[T] \in Nat
  BY <1>1, <1>2, PartSumsType
<1>5. SumFunction(f) = p[D] /\ SumFunction(g) = q[M]
  BY SumIsLastPart
<1> HIDE DEF p, q
<1>6. ASSUME NEW T \in SUBSET D
      PROVE  n(T) \in Nat /\ IsFiniteSet(M \cap T)
  BY <1>2, FS_Subset, FS_CardinalityType
<1>7. ASSUME NEW T \in SUBSET D, NEW x \in T
      PROVE  /\ x \in M => /\ n(T) = n(T \ {x}) + 1
                           /\ M \cap (T \ {x}) = (M \cap T) \ {x}
             /\ x \notin M => M \cap (T \ {x}) = M \cap T
  <2>1. M \cap (T \ {x}) = (M \cap T) \ {x}
    OBVIOUS
  <2>2. n(T) \in Nat /\ IsFiniteSet(M \cap T)
    BY <1>6
  <2>3. Cardinality((M \cap T) \ {x})
           = IF x \in M \cap T THEN Cardinality(M \cap T) - 1 ELSE Cardinality(M \cap T)
    BY <2>2, FS_RemoveElement
  <2>4. x \in M => n(T) = n(T \ {x}) + 1
    <3> SUFFICES ASSUME x \in M PROVE n(T) = n(T \ {x}) + 1
      OBVIOUS
    <3>1. Cardinality((M \cap T) \ {x}) = Cardinality(M \cap T) - 1
      BY <2>3
    <3>2. n(T \ {x}) = n(T) - 1
      BY <2>1, <3>1
    <3> QED BY <2>2, <3>2
  <2>5. x \notin M => M \cap (T \ {x}) = M \cap T
    OBVIOUS
  <2> QED BY <2>1, <2>4, <2>5
<1>8. ASSUME Bad # {} PROVE FALSE
  <2>1. PICK T \in Bad : \A x \in T : T \ {x} \notin Bad
    BY <1>8, LeastSubset
  <2>2. ASSUME T = {} PROVE FALSE
    <3>1. M \cap T = {} /\ n(T) = 0
      BY <2>2, FS_EmptySet
    <3>2. p[{}] = 0 /\ q[{}] = 0
      BY <1>3
    <3>3. p[T] = 0 /\ q[M \cap T] = 0
      BY <2>2, <3>1, <3>2
    <3>4. p[T] = n(T) + q[M \cap T]
      BY <3>1, <3>3
    <3> QED BY <2>1, <3>4
  <2>3. PICK x : x \in T
    BY <2>2
  <2>4. T \ {x} \in SUBSET D /\ x \in D
    BY <2>1, <2>3
  <2>5. p[T \ {x}] = n(T \ {x}) + q[M \cap (T \ {x})]
    BY <2>1, <2>3, <2>4
  <2>6. p[T] = f[x] + p[T \ {x}]
    BY <1>3, <2>1, <2>3
  <2>7. n(T \ {x}) \in Nat /\ q[M \cap (T \ {x})] \in Nat
    BY <1>4, <1>6, <2>4
  <2>8. CASE x \in M
    <3>1. n(T) = n(T \ {x}) + 1 /\ M \cap (T \ {x}) = (M \cap T) \ {x}
      BY <1>7, <2>1, <2>3, <2>8
    <3>2. q[M \cap T] = g[x] + q[(M \cap T) \ {x}]
      BY <1>3, <2>3, <2>8
    <3>3. f[x] = g[x] + 1 /\ g[x] \in Nat
      BY <2>8
    <3>4. p[T] = n(T) + q[M \cap T]
      BY <2>5, <2>6, <2>7, <3>1, <3>2, <3>3
    <3> QED BY <2>1, <3>4
  <2>9. CASE x \notin M
    <3>1. M \cap (T \ {x}) = M \cap T
      BY <1>7, <2>1, <2>3, <2>9
    <3>2. f[x] = 0
      BY <2>4, <2>9
    <3>3. p[T] = n(T) + q[M \cap T]
      BY <2>5, <2>6, <2>7, <3>1, <3>2
    <3> QED BY <2>1, <3>3
  <2> QED BY <2>8, <2>9
<1>9. M \cap D = M
  OBVIOUS
<1>10. p[D] = n(D) + q[M \cap D]
  BY <1>8
<1> QED BY <1>5, <1>9, <1>10

-----------------------------------------------------------------------------
ShredsAreFinite == IsFiniteSet(DOMAIN shreds)

LEMMA RegistryStaysFinite == RegSpec => []ShredsAreFinite
<1>1. RegInit => ShredsAreFinite
  BY FS_EmptySet DEF RegInit, EmptyMap, ShredsAreFinite
<1>2. ASSUME ShredsAreFinite, [RegNext]_regVars PROVE ShredsAreFinite'
  <2>1. ASSUME NEW e, record_shred(e) PROVE ShredsAreFinite'
    <3>1. DOMAIN shreds' = DOMAIN shreds \cup {e.key}
      BY <2>1 DEF record_shred, ShredsWith, Upsert
    <3> QED BY <1>2, <3>1, FS_AddElement DEF ShredsAreFinite
  <2>2. ASSUME UNCHANGED shreds PROVE ShredsAreFinite'
    BY <1>2, <2>2 DEF ShredsAreFinite
  <2> QED BY <1>2, <2>1, <2>2 DEF RegNext, record_slot_event, record_grpc_latency, regVars
<1> QED BY <1>1, <1>2, PTL DEF RegSpec

(* The arrivals of one record, by source.                                  *)
Count(rec, S) == Cardinality({i \in DOMAIN rec.arrivals : rec.arrivals[i].source \in S})

LEMMA CountFacts ==
    ASSUME NEW rec \in ShredRecord
    PROVE  /\ \A S : Count(rec, S) \in Nat
           /\ Count(rec, ShredSource) = Len(rec.arrivals)
           /\ Count(rec, {}) = 0
           /\ \A S : \A src \in S :
                 Count(rec, S) = Cardinality(ArrivalsFrom(rec, src)) + Count(rec, S \ {src})
           /\ \A src : /\ Cardinality(ArrivalsFrom(rec, src)) \in Nat
                       /\ ArrivalsFrom(rec, src) = {}
                             => Cardinality(ArrivalsFrom(rec, src)) = 0
                       /\ ArrivalsFrom(rec, src) # {}
                             => Cardinality(ArrivalsFrom(rec, src)) = Dupes(rec, src) + 1
                       /\ Dupes(rec, src) \in Nat
<1> DEFINE a == rec.arrivals
           At(S) == {i \in DOMAIN a : a[i].source \in S}
<1>1. a \in Seq(Arrival)
  BY DEF ShredRecord
<1>2. DOMAIN a = 1..Len(a) /\ Len(a) \in Nat /\ \A i \in DOMAIN a : a[i] \in Arrival
  BY <1>1
<1> HIDE DEF a
<1>3. IsFiniteSet(DOMAIN a) /\ Cardinality(DOMAIN a) = Len(a)
  BY <1>2, FS_Interval
<1>4. \A S : Count(rec, S) = Cardinality(At(S))
  BY DEF Count, a
<1>5. \A src : ArrivalsFrom(rec, src) = {i \in DOMAIN a : a[i].source = src}
  BY DEF ArrivalsFrom, a
<1>6. ASSUME NEW S PROVE IsFiniteSet(At(S)) /\ Cardinality(At(S)) \in Nat
  BY <1>3, FS_Subset, FS_CardinalityType
<1>7. ASSUME NEW src
      PROVE  /\ IsFiniteSet(ArrivalsFrom(rec, src))
             /\ Cardinality(ArrivalsFrom(rec, src)) \in Nat
             /\ Cardinality(ArrivalsFrom(rec, src)) = 0 <=> ArrivalsFrom(rec, src) = {}
  BY <1>3, <1>5, FS_Subset, FS_CardinalityType, FS_EmptySet
<1>8. Count(rec, ShredSource) = Len(a)
  <2>1. At(ShredSource) = DOMAIN a
    BY <1>2 DEF Arrival
  <2> QED BY <1>3, <1>4, <2>1
<1>9. Count(rec, {}) = 0
  <2>1. At({}) = {}
    OBVIOUS
  <2> QED BY <1>4, <2>1, FS_EmptySet
<1>10. ASSUME NEW S, NEW src \in S
       PROVE  Count(rec, S) = Cardinality(ArrivalsFrom(rec, src)) + Count(rec, S \ {src})
  <2> DEFINE U == ArrivalsFrom(rec, src)
             V == At(S \ {src})
  <2>1. At(S) = U \cup V /\ U \cap V = {}
    BY <1>5
  <2>2. IsFiniteSet(U) /\ IsFiniteSet(V) /\ Cardinality(U) \in Nat /\ Cardinality(V) \in Nat
    BY <1>6, <1>7
  <2> HIDE DEF U, V
  <2>3. Cardinality(U \cup V) = Cardinality(U) + Cardinality(V) - Cardinality(U \cap V)
    BY <2>2, FS_Union
  <2>4. Cardinality(U \cap V) = 0
    BY <2>1, FS_EmptySet
  <2>5. Cardinality(U \cup V) = Cardinality(U) + Cardinality(V)
    BY <2>2, <2>3, <2>4
  <2>6. Cardinality(At(S)) = Cardinality(U \cup V)
    BY <2>1
  <2> QED BY <1>4, <2>5, <2>6 DEF U, V
<1>11. ASSUME NEW src
       PROVE  /\ ArrivalsFrom(rec, src) # {}
                    => Cardinality(ArrivalsFrom(rec, src)) = Dupes(rec, src) + 1
              /\ Dupes(rec, src) \in Nat
  <2>1. PICK n \in Nat : n = Cardinality(ArrivalsFrom(rec, src))
    BY <1>7
  <2>2. Dupes(rec, src) = IF n > 1 THEN n - 1 ELSE 0
    BY <2>1 DEF Dupes
  <2>3. ArrivalsFrom(rec, src) # {} => n # 0
    BY <1>7, <2>1
  <2> QED BY <2>1, <2>2, <2>3
<1>12. \A S : Count(rec, S) \in Nat
  BY <1>4, <1>6
<1>13. \A src : ArrivalsFrom(rec, src) = {} => Cardinality(ArrivalsFrom(rec, src)) = 0
  BY FS_EmptySet
<1> QED BY <1>7, <1>8, <1>9, <1>10, <1>11, <1>12, <1>13 DEF a

\* The arrivals from src, by shred.
From(src) == [k \in DOMAIN shreds |-> Cardinality(ArrivalsFrom(shreds[k], src))]

(* What a source's row counts are its arrivals.                            *)
LEMMA RowCountsArrivals ==
    ASSUME RegTypeOK, ShredsAreFinite, NEW src
    PROVE  SourceStats(src).received + SourceStats(src).dupes = SumFunction(From(src))
<1> DEFINE D == DOMAIN shreds
           M == ReceivedBy(src)
           f == From(src)
           g == [k \in M |-> Dupes(shreds[k], src)]
<1>1. M \in SUBSET D
  BY DEF ReceivedBy
<1>2. \A k \in D : shreds[k] \in ShredRecord
  BY DEF RegTypeOK
<1>3. DOMAIN f = D /\ \A k \in D : f[k] = Cardinality(ArrivalsFrom(shreds[k], src))
  BY DEF From
<1>4. DOMAIN g = M /\ \A k \in M : g[k] = Dupes(shreds[k], src)
  OBVIOUS
<1>5. \A k \in D : k \in M <=> ArrivalsFrom(shreds[k], src) # {}
  BY DEF ReceivedBy
<1>6. /\ SourceStats(src).received = Cardinality(M)
      /\ SourceStats(src).dupes = SumFunction(g)
  BY DEF SourceStats
<1> HIDE DEF M, f, g
<1>7. /\ \A k \in M : g[k] \in Nat /\ f[k] = g[k] + 1
      /\ \A k \in D \ M : f[k] = 0
  BY <1>1, <1>2, <1>3, <1>4, <1>5, CountFacts
<1>8. SumFunction(f) = Cardinality(M) + SumFunction(g)
  <2>1. IsFiniteSet(D)
    BY DEF ShredsAreFinite
  <2> HIDE DEF D
  <2> QED BY <1>1, <1>3, <1>4, <1>7, <2>1, SumOverPart
<1> QED BY <1>6, <1>8 DEF f

\* The arrivals from the sources in S, by shred.
FromAny(S) == [k \in DOMAIN shreds |-> Count(shreds[k], S)]

(* Counted by source, then over the sources, or by shred: it is the same.  *)
LEMMA RowsCountAllArrivals ==
    ASSUME RegTypeOK, ShredsAreFinite, IsFiniteSet(ShredSource)
    PROVE  SumFunction([src \in ShredSource |-> SumFunction(From(src))])
              = SumFunction(FromAny(ShredSource))
<1> DEFINE D == DOMAIN shreds
           rows == [src \in ShredSource |-> SumFunction(From(src))]
           p == PartSums(rows)
           Bad == {T \in SUBSET ShredSource : p[T] # SumFunction(FromAny(T))}
<1>1. IsFiniteSet(D) /\ \A k \in D : shreds[k] \in ShredRecord
  BY DEF RegTypeOK, ShredsAreFinite
<1>2. /\ \A S : /\ DOMAIN FromAny(S) = D
                /\ \A k \in D : /\ FromAny(S)[k] \in Nat
                                /\ FromAny(S)[k] = Count(shreds[k], S)
      /\ \A src : /\ DOMAIN From(src) = D
                  /\ \A k \in D : /\ From(src)[k] \in Nat
                                  /\ From(src)[k] = Cardinality(ArrivalsFrom(shreds[k], src))
  BY <1>1, CountFacts DEF From, FromAny
<1> HIDE DEF D
\* SumFunction of these is a number.
<1>3. ASSUME NEW f, DOMAIN f = D, \A k \in D : f[k] \in Nat
      PROVE  SumFunction(f) \in Nat
  BY <1>1, <1>3, SumIsLastPart, PartSumsType
<1>4. \A S : SumFunction(FromAny(S)) \in Nat
  BY <1>2, <1>3
<1>5. \A src : SumFunction(From(src)) \in Nat
  BY <1>2, <1>3
<1>6. SumFunction(FromAny({})) = 0
  <2> DEFINE z == FromAny({})
  <2>1. DOMAIN z = D /\ \A k \in D : z[k] \in Nat /\ z[k] = z[k] + z[k]
    <3>1. \A k \in D : z[k] = 0
      BY <1>1, <1>2, CountFacts
    <3> QED BY <1>2, <3>1
  <2>2. SumFunction(z) \in Nat
    BY <1>4
  <2> HIDE DEF z
  <2>3. SumFunction(z) = SumFunction(z) + SumFunction(z)
    BY <1>1, <2>1, SumsAdd
  <2> QED BY <2>2, <2>3, SMTT(30) DEF z
<1>7. ASSUME NEW S, NEW src \in S
      PROVE  SumFunction(FromAny(S)) = SumFunction(From(src)) + SumFunction(FromAny(S \ {src}))
  <2> DEFINE f == From(src)
             g == FromAny(S \ {src})
             h == FromAny(S)
  <2>1. \A k \in D : h[k] = f[k] + g[k]
    BY <1>1, <1>2, CountFacts
  <2>2. /\ DOMAIN f = D /\ DOMAIN g = D /\ DOMAIN h = D
        /\ \A k \in D : f[k] \in Nat
        /\ \A k \in D : g[k] \in Nat
    BY <1>2
  <2> HIDE DEF f, g, h
  <2>3. SumFunction(h) = SumFunction(f) + SumFunction(g)
    BY <1>1, <2>1, <2>2, SumsAdd
  <2> QED BY <2>3 DEF f, g, h
<1>8. DOMAIN rows = ShredSource /\ \A src \in ShredSource : rows[src] = SumFunction(From(src))
  OBVIOUS
<1> HIDE DEF rows
<1>9. /\ p[{}] = 0
      /\ \A T \in SUBSET ShredSource : \A src \in T : p[T] = rows[src] + p[T \ {src}]
      /\ SumFunction(rows) = p[ShredSource]
  <2>1. \A src \in DOMAIN rows : rows[src] \in Nat
    BY <1>5, <1>8
  <2>2. IsFiniteSet(DOMAIN rows)
    BY <1>8
  <2> QED BY <1>8, <2>1, <2>2, PartSumsStep, SumIsLastPart
<1> HIDE DEF p
<1>10. ASSUME Bad # {} PROVE FALSE
  <2>1. PICK T \in Bad : \A src \in T : T \ {src} \notin Bad
    BY <1>10, LeastSubset
  <2>2. ASSUME T = {} PROVE FALSE
    <3>1. p[T] = SumFunction(FromAny(T))
      BY <1>6, <1>9, <2>2
    <3> QED BY <2>1, <3>1
  <2>3. PICK src : src \in T
    BY <2>2
  <2>4. T \ {src} \in SUBSET ShredSource /\ src \in ShredSource
    BY <2>1, <2>3
  <2>5. p[T \ {src}] = SumFunction(FromAny(T \ {src}))
    BY <2>1, <2>3, <2>4
  <2>6. p[T] = SumFunction(From(src)) + p[T \ {src}]
    BY <1>8, <1>9, <2>1, <2>3, <2>4
  <2>7. p[T] = SumFunction(FromAny(T))
    BY <1>7, <2>3, <2>5, <2>6
  <2> QED BY <2>1, <2>7
<1> QED BY <1>9, <1>10 DEF rows

LEMMA RowsBalance ==
    ASSUME RegTypeOK, ShredsAreFinite, NEW src
    PROVE  /\ SourceStats(src).received + SourceStats(src).missed = total_unique_shreds
           /\ SourceStats(src).data_shreds + SourceStats(src).code_shreds
                 = SourceStats(src).received
<1> DEFINE D == DOMAIN shreds
           M == ReceivedBy(src)
           A == {k \in M : k.shred_type = "Data"}
           B == {k \in M : k.shred_type = "Code"}
<1>1. M \subseteq D /\ IsFiniteSet(D)
  BY DEF ReceivedBy, ShredsAreFinite
<1>2. \A k \in M : k.shred_type \in {"Data", "Code"}
  BY <1>1 DEF RegTypeOK, ShredKey, ShredType
<1>3. /\ SourceStats(src).received = Cardinality(M)
      /\ SourceStats(src).missed = Cardinality(D \ M)
      /\ SourceStats(src).data_shreds = Cardinality(A)
      /\ SourceStats(src).code_shreds = Cardinality(B)
      /\ total_unique_shreds = Cardinality(D)
  BY DEF SourceStats, total_unique_shreds
<1>4. /\ A \cup B = M /\ A \cap B = {}
      /\ M \cup (D \ M) = D /\ M \cap (D \ M) = {}
  BY <1>1, <1>2
<1>5. \A S : S \in SUBSET D => IsFiniteSet(S) /\ Cardinality(S) \in Nat
  BY <1>1, FS_Subset, FS_CardinalityType
<1>6. A \in SUBSET D /\ B \in SUBSET D /\ M \in SUBSET D /\ D \ M \in SUBSET D
  BY <1>1
<1> HIDE DEF D, M, A, B
<1>7. ASSUME NEW S \in SUBSET D, NEW T \in SUBSET D, S \cap T = {}
      PROVE  Cardinality(S \cup T) = Cardinality(S) + Cardinality(T)
  <2>1. Cardinality(S \cup T) = Cardinality(S) + Cardinality(T) - Cardinality(S \cap T)
    BY <1>5, FS_Union
  <2>2. Cardinality(S \cap T) = 0
    BY <1>7, FS_EmptySet
  <2> QED BY <1>5, <2>1, <2>2
<1>8. Cardinality(M) = Cardinality(A) + Cardinality(B)
  <2>1. Cardinality(A \cup B) = Cardinality(A) + Cardinality(B)
    BY <1>4, <1>6, <1>7
  <2> QED BY <1>4, <2>1
<1>9. Cardinality(D) = Cardinality(M) + Cardinality(D \ M)
  <2>1. Cardinality(M \cup (D \ M)) = Cardinality(M) + Cardinality(D \ M)
    BY <1>4, <1>6, <1>7
  <2> QED BY <1>4, <2>1
<1> QED BY <1>3, <1>8, <1>9

LEMMA AccountsBalance ==
    ASSUME RegTypeOK, ShredsAreFinite, IsFiniteSet(ShredSource)
    PROVE  AccountingBalances
<1> DEFINE byRow == [src \in ShredSource |->
                        SourceStats(src).received + SourceStats(src).dupes]
           byShred == [k \in DOMAIN shreds |-> Len(shreds[k].arrivals)]
<1>1. byRow = [src \in ShredSource |-> SumFunction(From(src))]
  BY RowCountsArrivals
<1>2. byShred = FromAny(ShredSource)
  <2>1. \A k \in DOMAIN shreds : Len(shreds[k].arrivals) = Count(shreds[k], ShredSource)
    BY CountFacts DEF RegTypeOK
  <2> QED BY <2>1 DEF FromAny
<1> HIDE DEF byRow, byShred
<1>3. SumFunction(byRow) = SumFunction(byShred)
  BY <1>1, <1>2, RowsCountAllArrivals
<1> QED BY <1>3, RowsBalance DEF AccountingBalances, byRow, byShred

(* Every recorded arrival is counted once in the tables, for every number  *)
(* of sources.                                                             *)
THEOREM StatsAccountingBalances ==
    ASSUME IsFiniteSet(ShredSource)
    PROVE  RegSpec => []AccountingBalances
<1>1. RegTypeOK /\ ShredsAreFinite => AccountingBalances
  BY AccountsBalance
<1> QED BY <1>1, RegistryTypes, RegistryStaysFinite, PTL
=============================================================================
