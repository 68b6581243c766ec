--------------------------- MODULE RegistryProofs ---------------------------
(***************************************************************************)
(* TLAPS proofs about the registry, for every set of sources, slots,       *)
(* indices, clock readings and samples.                                    *)
(***************************************************************************)
EXTENDS Registry, TLAPS

LEMMA TimeOrder == \A t \in Time : t \in Nat /\ t <= t
<1> SUFFICES ASSUME NEW t \in Time PROVE t \in Nat /\ t <= t
  OBVIOUS
<1>1. t \in Nat
  BY RegistryAssumption
<1> QED BY <1>1

(* A per-source table of earliest arrivals stays one.                      *)
LEMMA EarliestPerSourceType ==
    ASSUME NEW S \in SUBSET EntrySource, NEW table \in [S -> Time],
           NEW source \in EntrySource, NEW t \in Time
    PROVE  \E R \in SUBSET EntrySource :
               EarliestPerSource(table, source, t) \in [R -> Time]
<1>1. CASE source \in DOMAIN table /\ table[source] <= t
  BY <1>1 DEF EarliestPerSource
<1>2. CASE ~(source \in DOMAIN table /\ table[source] <= t)
  <2>1. EarliestPerSource(table, source, t) \in [S \cup {source} -> Time]
    BY <1>2 DEF EarliestPerSource, Upsert
  <2> QED BY <2>1
<1> QED BY <1>1, <1>2

-----------------------------------------------------------------------------
LEMMA ShredRecordType ==
    ASSUME NEW e \in ShredEvent
    PROVE  /\ NewShred(e) \in ShredRecord
           /\ \A rec \in ShredRecord : ModifiedShred(rec, e) \in ShredRecord
<1>1. ArrivalOf(e) \in Arrival
  BY DEF ArrivalOf, Arrival, ShredEvent
<1>2. NewShred(e) \in ShredRecord
  BY <1>1 DEF NewShred, ShredRecord, ShredEvent
<1>3. ASSUME NEW rec \in ShredRecord
      PROVE  ModifiedShred(rec, e) \in ShredRecord
  BY <1>1 DEF ModifiedShred, ShredRecord
<1> QED BY <1>2, <1>3

LEMMA SlotRecordType ==
    /\ \A t \in Time : NewSlot(t, NoEntries) \in SlotRecord
    /\ \A rec \in SlotRecord, t \in Time : SlotSeesShred(rec, t) \in SlotRecord
    /\ \A rec \in SlotRecord, e \in SlotEvent :
           SlotSeesEntry(rec, e) \in SlotRecord
    /\ \A e \in SlotEvent :
           NewSlot(e.received_at, Upsert(NoEntries, e.source, e.received_at))
              \in SlotRecord
<1>1. ASSUME NEW t \in Time PROVE NewSlot(t, NoEntries) \in SlotRecord
  <2>1. NoEntries \in [{} -> Time] BY DEF NoEntries
  <2> QED BY <2>1 DEF NewSlot, SlotRecord
<1>2. ASSUME NEW rec \in SlotRecord, NEW t \in Time
      PROVE  SlotSeesShred(rec, t) \in SlotRecord
  BY DEF SlotSeesShred, SlotRecord
<1>3. ASSUME NEW rec \in SlotRecord, NEW e \in SlotEvent
      PROVE  SlotSeesEntry(rec, e) \in SlotRecord
  <2>1. PICK S \in SUBSET EntrySource : rec.entry_arrivals \in [S -> Time]
    BY DEF SlotRecord
  <2>2. e.source \in EntrySource /\ e.received_at \in Time
    BY DEF SlotEvent
  <2>3. PICK R \in SUBSET EntrySource :
          EarliestPerSource(rec.entry_arrivals, e.source, e.received_at)
             \in [R -> Time]
    BY <2>1, <2>2, EarliestPerSourceType
  <2> QED BY <2>3 DEF SlotSeesEntry, SlotRecord
<1>4. ASSUME NEW e \in SlotEvent
      PROVE  NewSlot(e.received_at, Upsert(NoEntries, e.source, e.received_at))
                \in SlotRecord
  <2>1. e.source \in EntrySource /\ e.received_at \in Time
    BY DEF SlotEvent
  <2>2. Upsert(NoEntries, e.source, e.received_at) \in [{e.source} -> Time]
    BY <2>1 DEF Upsert, NoEntries
  <2> QED BY <2>1, <2>2 DEF NewSlot, SlotRecord
<1> QED BY <1>1, <1>2, <1>3, <1>4

-----------------------------------------------------------------------------
(* What each record_* method leaves behind, map by map.                    *)
LEMMA RecordShredEffect ==
    ASSUME NEW e, record_shred(e)
    PROVE  /\ DOMAIN shreds' = DOMAIN shreds \cup {e.key}
           /\ e.key \in DOMAIN shreds
                 => shreds'[e.key] = ModifiedShred(shreds[e.key], e)
           /\ e.key \notin DOMAIN shreds => shreds'[e.key] = NewShred(e)
           /\ \A k \in DOMAIN shreds : k # e.key => shreds'[k] = shreds[k]
           /\ DOMAIN slots' = DOMAIN slots \cup {e.key.slot}
           /\ e.key.slot \in DOMAIN slots
                 => slots'[e.key.slot]
                       = SlotSeesShred(slots[e.key.slot], e.received_at)
           /\ e.key.slot \notin DOMAIN slots
                 => slots'[e.key.slot] = NewSlot(e.received_at, NoEntries)
           /\ \A s \in DOMAIN slots : s # e.key.slot => slots'[s] = slots[s]
           /\ UNCHANGED grpc_latencies
<1>1. shreds' = Upsert(shreds, e.key, IF e.key \in DOMAIN shreds
                                      THEN ModifiedShred(shreds[e.key], e)
                                      ELSE NewShred(e))
  BY DEF record_shred, ShredsWith
<1>2. slots' = Upsert(slots, e.key.slot,
                      IF e.key.slot \in DOMAIN slots
                      THEN SlotSeesShred(slots[e.key.slot], e.received_at)
                      ELSE NewSlot(e.received_at, NoEntries))
  BY DEF record_shred, SlotsWith
<1>3. UNCHANGED grpc_latencies
  BY DEF record_shred
<1> QED BY <1>1, <1>2, <1>3 DEF Upsert

LEMMA RecordSlotEventEffect ==
    ASSUME NEW e, record_slot_event(e)
    PROVE  /\ DOMAIN slots' = DOMAIN slots \cup {e.slot}
           /\ e.slot \in DOMAIN slots
                 => slots'[e.slot] = SlotSeesEntry(slots[e.slot], e)
           /\ e.slot \notin DOMAIN slots
                 => slots'[e.slot]
                       = NewSlot(e.received_at,
                                 Upsert(NoEntries, e.source, e.received_at))
           /\ \A s \in DOMAIN slots : s # e.slot => slots'[s] = slots[s]
           /\ UNCHANGED <<shreds, grpc_latencies>>
<1>1. slots' = Upsert(slots, e.slot,
                      IF e.slot \in DOMAIN slots
                      THEN SlotSeesEntry(slots[e.slot], e)
                      ELSE NewSlot(e.received_at,
                                   Upsert(NoEntries, e.source, e.received_at)))
  BY DEF record_slot_event
<1>2. UNCHANGED <<shreds, grpc_latencies>>
  BY DEF record_slot_event
<1> DEFINE entries == Upsert(NoEntries, e.source, e.received_at)
<1> HIDE DEF entries
<1>3. slots' = Upsert(slots, e.slot,
                      IF e.slot \in DOMAIN slots
                      THEN SlotSeesEntry(slots[e.slot], e)
                      ELSE NewSlot(e.received_at, entries))
  BY <1>1 DEF entries
<1>4. /\ DOMAIN slots' = DOMAIN slots \cup {e.slot}
      /\ e.slot \in DOMAIN slots
            => slots'[e.slot] = SlotSeesEntry(slots[e.slot], e)
      /\ e.slot \notin DOMAIN slots
            => slots'[e.slot] = NewSlot(e.received_at, entries)
      /\ \A s \in DOMAIN slots : s # e.slot => slots'[s] = slots[s]
  BY <1>3 DEF Upsert
<1> QED BY <1>2, <1>4 DEF entries

LEMMA RecordGrpcLatencyEffect ==
    ASSUME NEW e, record_grpc_latency(e)
    PROVE  /\ DOMAIN grpc_latencies' = DOMAIN grpc_latencies \cup {e.source}
           /\ e.source \in DOMAIN grpc_latencies
                 => grpc_latencies'[e.source]
                       = Append(grpc_latencies[e.source], e.latency_ns)
           /\ e.source \notin DOMAIN grpc_latencies
                 => grpc_latencies'[e.source] = <<e.latency_ns>>
           /\ \A s \in DOMAIN grpc_latencies :
                 s # e.source => grpc_latencies'[s] = grpc_latencies[s]
           /\ UNCHANGED <<shreds, slots>>
<1>1. grpc_latencies' =
         Upsert(grpc_latencies, e.source,
                IF e.source \in DOMAIN grpc_latencies
                THEN Append(grpc_latencies[e.source], e.latency_ns)
                ELSE <<e.latency_ns>>)
  BY DEF record_grpc_latency
<1>2. UNCHANGED <<shreds, slots>>
  BY DEF record_grpc_latency
<1> QED BY <1>1, <1>2 DEF Upsert

-----------------------------------------------------------------------------
LEMMA RegTypeInit == RegInit => RegTypeOK
  BY DEF RegInit, RegTypeOK, EmptyMap

LEMMA RegTypeNext == RegTypeOK /\ [RegNext]_regVars => RegTypeOK'
<1> SUFFICES ASSUME RegTypeOK, [RegNext]_regVars PROVE RegTypeOK'
  OBVIOUS
<1>1. ASSUME NEW e \in ShredEvent, record_shred(e) PROVE RegTypeOK'
  <2>1. e.key \in ShredKey /\ e.key.slot \in Slot /\ e.received_at \in Time
    BY DEF ShredEvent, ShredKey
  <2>2. DOMAIN shreds' \subseteq ShredKey
    BY <1>1, <2>1, RecordShredEffect, ZenonT(30) DEF RegTypeOK
  <2>3. ASSUME NEW k \in DOMAIN shreds' PROVE shreds'[k] \in ShredRecord
    <3>1. CASE k = e.key
      <4>1. CASE e.key \in DOMAIN shreds
        <5>1. shreds'[k] = ModifiedShred(shreds[k], e)
          BY <1>1, <3>1, <4>1, RecordShredEffect
        <5>2. shreds[k] \in ShredRecord
          BY <3>1, <4>1 DEF RegTypeOK
        <5> QED BY <5>1, <5>2, ShredRecordType
      <4>2. CASE e.key \notin DOMAIN shreds
        <5>1. shreds'[k] = NewShred(e)
          BY <1>1, <3>1, <4>2, RecordShredEffect
        <5> QED BY <5>1, ShredRecordType
      <4> QED BY <4>1, <4>2
    <3>2. CASE k # e.key
      <4>1. k \in DOMAIN shreds /\ shreds'[k] = shreds[k]
        BY <1>1, <3>2, <2>3, RecordShredEffect
      <4> QED BY <4>1 DEF RegTypeOK
    <3> QED BY <3>1, <3>2
  <2>4. DOMAIN slots' \subseteq Slot
    <3>1. DOMAIN slots' = DOMAIN slots \cup {e.key.slot}
      BY <1>1, RecordShredEffect
    <3> QED BY <2>1, <3>1 DEF RegTypeOK
  <2>5. ASSUME NEW s \in DOMAIN slots' PROVE slots'[s] \in SlotRecord
    <3>1. CASE s = e.key.slot
      <4>1. CASE s \in DOMAIN slots
        <5>1. slots'[s] = SlotSeesShred(slots[s], e.received_at)
          BY <1>1, <3>1, <4>1, RecordShredEffect
        <5>2. slots[s] \in SlotRecord
          BY <4>1 DEF RegTypeOK
        <5> QED BY <2>1, <5>1, <5>2, SlotRecordType
      <4>2. CASE s \notin DOMAIN slots
        <5>1. slots'[s] = NewSlot(e.received_at, NoEntries)
          BY <1>1, <3>1, <4>2, RecordShredEffect
        <5> QED BY <2>1, <5>1, SlotRecordType
      <4> QED BY <4>1, <4>2
    <3>2. CASE s # e.key.slot
      <4>1. s \in DOMAIN slots /\ slots'[s] = slots[s]
        BY <1>1, <3>2, <2>5, RecordShredEffect
      <4> QED BY <4>1 DEF RegTypeOK
    <3> QED BY <3>1, <3>2
  <2>6. UNCHANGED grpc_latencies
    BY <1>1, RecordShredEffect
  <2> QED BY <2>2, <2>3, <2>4, <2>5, <2>6 DEF RegTypeOK
<1>2. ASSUME NEW e \in SlotEvent, record_slot_event(e) PROVE RegTypeOK'
  <2>1. e.slot \in Slot
    BY DEF SlotEvent
  <2>2. DOMAIN slots' \subseteq Slot
    BY <1>2, <2>1, RecordSlotEventEffect DEF RegTypeOK
  <2>3. ASSUME NEW s \in DOMAIN slots' PROVE slots'[s] \in SlotRecord
    <3>1. CASE s = e.slot
      <4>1. CASE s \in DOMAIN slots
        <5>1. slots'[s] = SlotSeesEntry(slots[s], e)
          BY <1>2, <3>1, <4>1, RecordSlotEventEffect
        <5>2. slots[s] \in SlotRecord
          BY <4>1 DEF RegTypeOK
        <5> QED BY <5>1, <5>2, SlotRecordType
      <4>2. CASE s \notin DOMAIN slots
        <5>1. slots'[s] = NewSlot(e.received_at,
                                  Upsert(NoEntries, e.source, e.received_at))
          BY <1>2, <3>1, <4>2, RecordSlotEventEffect
        <5> QED BY <5>1, SlotRecordType
      <4> QED BY <4>1, <4>2
    <3>2. CASE s # e.slot
      <4>1. s \in DOMAIN slots /\ slots'[s] = slots[s]
        BY <1>2, <3>2, <2>3, RecordSlotEventEffect
      <4> QED BY <4>1 DEF RegTypeOK
    <3> QED BY <3>1, <3>2
  <2>4. UNCHANGED <<shreds, grpc_latencies>>
    BY <1>2, RecordSlotEventEffect
  <2> QED BY <2>2, <2>3, <2>4 DEF RegTypeOK
<1>3. ASSUME NEW e \in GrpcLatencyEvent, record_grpc_latency(e)
      PROVE  RegTypeOK'
  <2>1. e.source \in EntrySource /\ e.latency_ns \in Latency
    BY DEF GrpcLatencyEvent
  <2>2. DOMAIN grpc_latencies' \subseteq EntrySource
    BY <1>3, <2>1, RecordGrpcLatencyEffect DEF RegTypeOK
  <2>3. ASSUME NEW s \in DOMAIN grpc_latencies'
        PROVE  grpc_latencies'[s] \in Seq(Latency)
    <3>1. CASE s = e.source
      <4>1. CASE e.source \in DOMAIN grpc_latencies
        <5>1. grpc_latencies'[s] = Append(grpc_latencies[s], e.latency_ns)
          BY <1>3, <3>1, <4>1, RecordGrpcLatencyEffect
        <5>2. grpc_latencies[s] \in Seq(Latency)
          BY <3>1, <4>1 DEF RegTypeOK
        <5> QED BY <5>1, <5>2, <2>1
      <4>2. CASE e.source \notin DOMAIN grpc_latencies
        <5>1. grpc_latencies'[s] = <<e.latency_ns>>
          BY <1>3, <3>1, <4>2, RecordGrpcLatencyEffect
        <5> QED BY <5>1, <2>1
      <4> QED BY <4>1, <4>2
    <3>2. CASE s # e.source
      <4>1. s \in DOMAIN grpc_latencies
            /\ grpc_latencies'[s] = grpc_latencies[s]
        BY <1>3, <3>2, <2>3, RecordGrpcLatencyEffect
      <4> QED BY <4>1 DEF RegTypeOK
    <3> QED BY <3>1, <3>2
  <2>4. UNCHANGED <<shreds, slots>>
    BY <1>3, RecordGrpcLatencyEffect
  <2> QED BY <2>2, <2>3, <2>4 DEF RegTypeOK
<1>4. CASE UNCHANGED regVars
  BY <1>4 DEF regVars, RegTypeOK
<1> QED BY <1>1, <1>2, <1>3, <1>4 DEF RegNext

(* The registry's maps keep their types, whatever events are recorded.     *)
THEOREM RegistryTypes == RegSpec => []RegTypeOK
  BY RegTypeInit, RegTypeNext, PTL DEF RegSpec

-----------------------------------------------------------------------------
LEMMA FirstIsHeadNext ==
    RegTypeOK /\ FirstIsHead /\ [RegNext]_regVars => FirstIsHead'
<1> SUFFICES ASSUME RegTypeOK, FirstIsHead, [RegNext]_regVars
             PROVE  FirstIsHead'
  OBVIOUS
<1> DEFINE Headed(rec) ==
      /\ Len(rec.arrivals) > 0
      /\ rec.arrivals[1] = [source |-> rec.first_source, at |-> rec.first_seen]
<1>1. ASSUME NEW e \in ShredEvent, record_shred(e), NEW k \in DOMAIN shreds'
      PROVE  Headed(shreds'[k])
  <2>1. CASE k # e.key
    <3>1. k \in DOMAIN shreds /\ shreds'[k] = shreds[k]
      BY <1>1, <2>1, RecordShredEffect
    <3> QED BY <3>1 DEF FirstIsHead
  <2>2. CASE k = e.key /\ e.key \in DOMAIN shreds
    <3>1. shreds'[k] = ModifiedShred(shreds[k], e)
      BY <1>1, <2>2, RecordShredEffect
    <3>2. Headed(shreds[k]) /\ shreds[k] \in ShredRecord
      BY <2>2 DEF FirstIsHead, RegTypeOK
    <3>3. /\ shreds[k].arrivals \in Seq(Arrival)
          /\ ArrivalOf(e) \in Arrival
      BY <3>2 DEF ShredRecord, ArrivalOf, Arrival, ShredEvent
    <3>4. /\ Len(Append(shreds[k].arrivals, ArrivalOf(e))) > 0
          /\ Append(shreds[k].arrivals, ArrivalOf(e))[1]
                = shreds[k].arrivals[1]
      BY <3>2, <3>3
    <3>5. /\ shreds'[k].arrivals = Append(shreds[k].arrivals, ArrivalOf(e))
          /\ shreds'[k].first_source = shreds[k].first_source
          /\ shreds'[k].first_seen = shreds[k].first_seen
      BY <3>1, <3>2 DEF ModifiedShred, ShredRecord
    <3> QED BY <3>2, <3>4, <3>5
  <2>3. CASE k = e.key /\ e.key \notin DOMAIN shreds
    <3>1. shreds'[k] = NewShred(e)
      BY <1>1, <2>3, RecordShredEffect
    <3> QED BY <3>1 DEF NewShred, ArrivalOf
  <2> QED BY <1>1, <2>1, <2>2, <2>3, RecordShredEffect
<1>2. CASE UNCHANGED shreds
  BY <1>2 DEF FirstIsHead
<1>3. ASSUME NEW e \in SlotEvent, record_slot_event(e) PROVE UNCHANGED shreds
  BY <1>3 DEF record_slot_event
<1>4. ASSUME NEW e \in GrpcLatencyEvent, record_grpc_latency(e)
      PROVE  UNCHANGED shreds
  BY <1>4 DEF record_grpc_latency
<1>5. UNCHANGED regVars => UNCHANGED shreds
  BY DEF regVars
<1>6. ASSUME NEW e \in ShredEvent, record_shred(e) PROVE FirstIsHead'
  BY <1>1, <1>6 DEF FirstIsHead
<1> QED BY <1>2, <1>3, <1>4, <1>5, <1>6 DEF RegNext

(* The summary fields of every shred record are those of the head of its   *)
(* arrival list, for every sequence of recorded events.                    *)
THEOREM RegistryFirstIsHead == RegSpec => []FirstIsHead
<1>1. RegInit => FirstIsHead
  BY DEF RegInit, FirstIsHead, EmptyMap
<1> QED BY <1>1, FirstIsHeadNext, RegistryTypes, PTL DEF RegSpec

-----------------------------------------------------------------------------
(* SlotSeesShred lowers first_shred_at to t or leaves it, never raises it. *)
LEMMA SlotSeesShredFacts ==
    ASSUME NEW rec \in SlotRecord, NEW t \in Time
    PROVE  /\ SlotSeesShred(rec, t).first_shred_at \in Time
           /\ SlotSeesShred(rec, t).first_shred_at <= t
           /\ SlotSeesShred(rec, t).first_shred_at <= rec.first_shred_at
           /\ SlotSeesShred(rec, t).first_shred_at \in {t, rec.first_shred_at}
           /\ SlotSeesShred(rec, t).entry_arrivals = rec.entry_arrivals
<1>1. rec.first_shred_at \in Nat /\ t \in Nat /\ rec.first_shred_at \in Time
  BY RegistryAssumption DEF SlotRecord
<1> QED BY <1>1 DEF SlotSeesShred, SlotRecord

(* The arrivals of a shred after one more event.                           *)
LEMMA ArrivalsAfter ==
    ASSUME RegTypeOK, NEW e \in ShredEvent, record_shred(e),
           NEW k \in DOMAIN shreds', NEW i \in DOMAIN shreds'[k].arrivals
    PROVE  \/ /\ k \in DOMAIN shreds
              /\ i \in DOMAIN shreds[k].arrivals
              /\ shreds'[k].arrivals[i] = shreds[k].arrivals[i]
           \/ k = e.key /\ shreds'[k].arrivals[i].at = e.received_at
<1>1. CASE k # e.key
  BY <1>1, RecordShredEffect
<1>2. CASE k = e.key /\ e.key \in DOMAIN shreds
  <2>1. shreds'[k] = ModifiedShred(shreds[k], e)
    BY <1>2, RecordShredEffect
  <2>2. shreds[k] \in ShredRecord
    BY <1>2 DEF RegTypeOK
  <2>3. /\ shreds[k].arrivals \in Seq(Arrival)
        /\ ArrivalOf(e) \in Arrival
        /\ shreds'[k].arrivals = Append(shreds[k].arrivals, ArrivalOf(e))
    BY <2>1, <2>2 DEF ShredRecord, ModifiedShred, ArrivalOf, Arrival, ShredEvent
  <2>4. \/ /\ i \in DOMAIN shreds[k].arrivals
           /\ shreds'[k].arrivals[i] = shreds[k].arrivals[i]
        \/ shreds'[k].arrivals[i] = ArrivalOf(e)
    BY <2>3
  <2> QED BY <1>2, <2>4 DEF ArrivalOf
<1>3. CASE k = e.key /\ e.key \notin DOMAIN shreds
  <2>1. shreds'[k] = NewShred(e)
    BY <1>3, RecordShredEffect
  <2>2. shreds'[k].arrivals = <<ArrivalOf(e)>>
    BY <2>1 DEF NewShred
  <2>3. shreds'[k].arrivals[i] = ArrivalOf(e)
    BY <2>2
  <2> QED BY <1>3, <2>3 DEF ArrivalOf
<1> QED BY <1>1, <1>2, <1>3

(* Whatever is recorded, a slot's first_shred_at only goes down.           *)
LEMMA SlotFirstOnlyLowers ==
    ASSUME RegTypeOK, [RegNext]_regVars, NEW s \in DOMAIN slots
    PROVE  /\ s \in DOMAIN slots'
           /\ slots[s].first_shred_at \in Time
           /\ slots'[s].first_shred_at \in Time
           /\ slots'[s].first_shred_at <= slots[s].first_shred_at
<1>1. slots[s] \in SlotRecord /\ slots[s].first_shred_at \in Time
  BY DEF RegTypeOK, SlotRecord
<1>2. slots[s].first_shred_at <= slots[s].first_shred_at
  BY <1>1, TimeOrder
<1>3. CASE UNCHANGED slots
  BY <1>1, <1>2, <1>3
<1>4. ASSUME NEW e \in ShredEvent, record_shred(e)
      PROVE  /\ s \in DOMAIN slots'
             /\ slots'[s].first_shred_at \in Time
             /\ slots'[s].first_shred_at <= slots[s].first_shred_at
  <2>1. s \in DOMAIN slots'
    BY <1>4, RecordShredEffect
  <2>2. CASE s = e.key.slot
    <3>1. slots'[s] = SlotSeesShred(slots[s], e.received_at)
      BY <1>4, <2>2, RecordShredEffect
    <3> QED BY <1>1, <2>1, <3>1, SlotSeesShredFacts DEF ShredEvent
  <2>3. CASE s # e.key.slot
    <3>1. slots'[s] = slots[s]
      BY <1>4, <2>3, RecordShredEffect
    <3> QED BY <1>1, <1>2, <2>1, <3>1
  <2> QED BY <2>2, <2>3
<1>5. ASSUME NEW e \in SlotEvent, record_slot_event(e)
      PROVE  /\ s \in DOMAIN slots'
             /\ slots'[s].first_shred_at = slots[s].first_shred_at
  <2>1. s \in DOMAIN slots'
    BY <1>5, RecordSlotEventEffect
  <2>2. CASE s = e.slot
    <3>1. slots'[s] = SlotSeesEntry(slots[s], e)
      BY <1>5, <2>2, RecordSlotEventEffect
    <3> QED BY <1>1, <2>1, <3>1 DEF SlotSeesEntry, SlotRecord
  <2>3. CASE s # e.slot
    BY <1>5, <2>1, <2>3, RecordSlotEventEffect
  <2> QED BY <2>2, <2>3
<1>6. ASSUME NEW e \in GrpcLatencyEvent, record_grpc_latency(e)
      PROVE  UNCHANGED slots
  BY <1>6 DEF record_grpc_latency
<1>7. UNCHANGED regVars => UNCHANGED slots
  BY DEF regVars
<1> QED BY <1>1, <1>2, <1>3, <1>4, <1>5, <1>6, <1>7 DEF RegNext

LEMMA SlotLowerBoundNext ==
    RegTypeOK /\ SlotLowerBound /\ [RegNext]_regVars => SlotLowerBound'
<1> SUFFICES ASSUME RegTypeOK, SlotLowerBound, [RegNext]_regVars
             PROVE  SlotLowerBound'
  OBVIOUS
<1>1. ASSUME NEW k \in DOMAIN shreds, NEW i \in DOMAIN shreds[k].arrivals
      PROVE  /\ k.slot \in DOMAIN slots'
             /\ slots'[k.slot].first_shred_at <= shreds[k].arrivals[i].at
  <2>1. /\ k.slot \in DOMAIN slots
        /\ slots[k.slot].first_shred_at <= shreds[k].arrivals[i].at
    BY DEF SlotLowerBound
  <2>2. /\ k.slot \in DOMAIN slots'
        /\ slots[k.slot].first_shred_at \in Nat
        /\ slots'[k.slot].first_shred_at \in Nat
        /\ slots'[k.slot].first_shred_at <= slots[k.slot].first_shred_at
    BY <2>1, SlotFirstOnlyLowers, RegistryAssumption
  <2>3. shreds[k].arrivals[i].at \in Nat
    <3>1. shreds[k].arrivals \in Seq(Arrival)
      BY DEF RegTypeOK, ShredRecord
    <3>2. shreds[k].arrivals[i] \in Arrival
      BY <3>1
    <3> QED BY <3>2, RegistryAssumption DEF Arrival
  <2> QED BY <2>1, <2>2, <2>3
<1>2. ASSUME UNCHANGED shreds PROVE SlotLowerBound'
  <2>1. ASSUME NEW k \in DOMAIN shreds' PROVE k.slot \in DOMAIN slots'
    BY <1>2, <2>1, SlotFirstOnlyLowers DEF SlotLowerBound
  <2> QED BY <1>1, <1>2, <2>1 DEF SlotLowerBound
<1>3. ASSUME NEW e \in ShredEvent, record_shred(e) PROVE SlotLowerBound'
  <2>1. /\ e.key.slot \in DOMAIN slots'
        /\ slots'[e.key.slot].first_shred_at <= e.received_at
    <3>1. e.received_at \in Time /\ e.received_at <= e.received_at
      BY TimeOrder DEF ShredEvent
    <3>2. CASE e.key.slot \in DOMAIN slots
      <4>1. slots'[e.key.slot]
               = SlotSeesShred(slots[e.key.slot], e.received_at)
        BY <1>3, <3>2, RecordShredEffect
      <4>2. slots[e.key.slot] \in SlotRecord
        BY <3>2 DEF RegTypeOK
      <4> QED BY <1>3, <3>1, <4>1, <4>2, RecordShredEffect, SlotSeesShredFacts
    <3>3. CASE e.key.slot \notin DOMAIN slots
      <4>1. slots'[e.key.slot] = NewSlot(e.received_at, NoEntries)
        BY <1>3, <3>3, RecordShredEffect
      <4>2. slots'[e.key.slot].first_shred_at = e.received_at
        BY <4>1 DEF NewSlot
      <4>3. e.key.slot \in DOMAIN slots'
        BY <1>3, RecordShredEffect
      <4> QED BY <3>1, <4>2, <4>3
    <3> QED BY <3>2, <3>3
  <2>2. ASSUME NEW k \in DOMAIN shreds' PROVE k.slot \in DOMAIN slots'
    <3>0. DOMAIN shreds' = DOMAIN shreds \cup {e.key}
      BY <1>3, RecordShredEffect
    <3>1. k \in DOMAIN shreds \/ k = e.key
      BY <2>2, <3>0
    <3>2. CASE k \in DOMAIN shreds
      BY <3>2, SlotFirstOnlyLowers DEF SlotLowerBound
    <3> QED BY <2>1, <3>1, <3>2
  <2>3. ASSUME NEW k \in DOMAIN shreds', NEW i \in DOMAIN shreds'[k].arrivals
        PROVE  slots'[k.slot].first_shred_at <= shreds'[k].arrivals[i].at
    BY <1>1, <1>3, <2>1, <2>3, ArrivalsAfter
  <2> QED BY <2>2, <2>3 DEF SlotLowerBound
<1>4. ASSUME NEW e \in SlotEvent, record_slot_event(e) PROVE UNCHANGED shreds
  BY <1>4 DEF record_slot_event
<1>5. ASSUME NEW e \in GrpcLatencyEvent, record_grpc_latency(e)
      PROVE  UNCHANGED shreds
  BY <1>5 DEF record_grpc_latency
<1>6. UNCHANGED regVars => UNCHANGED shreds
  BY DEF regVars
<1> QED BY <1>2, <1>3, <1>4, <1>5, <1>6 DEF RegNext

(* A slot's first_shred_at is at or before every arrival of each of its    *)
(* shreds, in whatever order the events were recorded.                     *)
THEOREM RegistrySlotLowerBound == RegSpec => []SlotLowerBound
<1>1. RegInit => SlotLowerBound
  BY DEF RegInit, SlotLowerBound, EmptyMap
<1> QED BY <1>1, SlotLowerBoundNext, RegistryTypes, PTL DEF RegSpec

-----------------------------------------------------------------------------
(* The earliest arrival of a source is never forgotten or raised.          *)
LEMMA EarliestPerSourceLowers ==
    ASSUME NEW S \in SUBSET EntrySource, NEW table \in [S -> Time],
           NEW source \in EntrySource, NEW t \in Time
    PROVE  \A src \in DOMAIN table :
              /\ src \in DOMAIN EarliestPerSource(table, source, t)
              /\ EarliestPerSource(table, source, t)[src] <= table[src]
<1> SUFFICES ASSUME NEW src \in S
             PROVE  /\ src \in DOMAIN EarliestPerSource(table, source, t)
                    /\ EarliestPerSource(table, source, t)[src] <= table[src]
  OBVIOUS
<1>1. table[src] \in Nat /\ t \in Nat
  BY RegistryAssumption
<1>2. CASE source \in DOMAIN table /\ table[source] <= t
  BY <1>1, <1>2 DEF EarliestPerSource
<1>3. CASE ~(source \in DOMAIN table /\ table[source] <= t)
  <2>1. EarliestPerSource(table, source, t)
           = [x \in S \cup {source} |-> IF x = source THEN t ELSE table[x]]
    BY <1>3 DEF EarliestPerSource, Upsert
  <2>2. src = source => t <= table[src]
    BY <1>1, <1>3
  <2> QED BY <1>1, <2>1, <2>2
<1> QED BY <1>2, <1>3

(* Whatever is recorded, a slot keeps its entry arrivals, and they only go *)
(* down.                                                                   *)
LEMMA EntryArrivalsOnlyLower ==
    ASSUME RegTypeOK, [RegNext]_regVars, NEW s \in DOMAIN slots,
           NEW src \in DOMAIN slots[s].entry_arrivals
    PROVE  /\ src \in DOMAIN slots'[s].entry_arrivals
           /\ slots[s].entry_arrivals[src] \in Nat
           /\ slots'[s].entry_arrivals[src] \in Nat
           /\ slots'[s].entry_arrivals[src] <= slots[s].entry_arrivals[src]
<1>1. slots[s] \in SlotRecord
  BY DEF RegTypeOK
<1>2. PICK S \in SUBSET EntrySource : slots[s].entry_arrivals \in [S -> Time]
  BY <1>1 DEF SlotRecord
<1>3. slots[s].entry_arrivals[src] \in Nat
  BY <1>2, RegistryAssumption
<1>4. ASSUME slots'[s].entry_arrivals = slots[s].entry_arrivals
      PROVE  /\ src \in DOMAIN slots'[s].entry_arrivals
             /\ slots'[s].entry_arrivals[src] <= slots[s].entry_arrivals[src]
  BY <1>3, <1>4
<1>5. ASSUME NEW e \in ShredEvent, record_shred(e)
      PROVE  slots'[s].entry_arrivals = slots[s].entry_arrivals
  <2>1. CASE s = e.key.slot
    BY <1>1, <1>5, <2>1, RecordShredEffect DEF SlotSeesShred, SlotRecord
  <2>2. CASE s # e.key.slot
    BY <1>5, <2>2, RecordShredEffect
  <2> QED BY <2>1, <2>2
<1>6. ASSUME NEW e \in SlotEvent, record_slot_event(e)
      PROVE  /\ src \in DOMAIN slots'[s].entry_arrivals
             /\ slots'[s].entry_arrivals[src] <= slots[s].entry_arrivals[src]
  <2>1. CASE s = e.slot
    <3>1. slots'[s] = SlotSeesEntry(slots[s], e)
      BY <1>6, <2>1, RecordSlotEventEffect
    <3>2. slots'[s].entry_arrivals
             = EarliestPerSource(slots[s].entry_arrivals, e.source,
                                 e.received_at)
      BY <1>1, <3>1 DEF SlotSeesEntry, SlotRecord
    <3>3. e.source \in EntrySource /\ e.received_at \in Time
      BY DEF SlotEvent
    <3> QED BY <1>2, <3>2, <3>3, EarliestPerSourceLowers
  <2>2. CASE s # e.slot
    BY <1>4, <1>6, <2>2, RecordSlotEventEffect
  <2> QED BY <2>1, <2>2
<1>7. ASSUME NEW e \in GrpcLatencyEvent, record_grpc_latency(e)
      PROVE  UNCHANGED slots
  BY <1>7 DEF record_grpc_latency
<1>8. UNCHANGED regVars => UNCHANGED slots
  BY DEF regVars
<1>9. /\ src \in DOMAIN slots'[s].entry_arrivals
      /\ slots'[s].entry_arrivals[src] <= slots[s].entry_arrivals[src]
  BY <1>4, <1>5, <1>6, <1>7, <1>8 DEF RegNext
<1>10. slots'[s] \in SlotRecord
  BY RegTypeNext, SlotFirstOnlyLowers DEF RegTypeOK
<1>11. PICK R \in SUBSET EntrySource : slots'[s].entry_arrivals \in [R -> Time]
  BY <1>10 DEF SlotRecord
<1> QED BY <1>3, <1>9, <1>11, RegistryAssumption

(* Whatever is recorded, a shred keeps its record: the first arrival as it *)
(* was and the list of arrivals as a prefix of the new one.                *)
LEMMA ShredsOnlyGrow ==
    ASSUME RegTypeOK, [RegNext]_regVars, NEW k \in DOMAIN shreds
    PROVE  /\ k \in DOMAIN shreds'
           /\ shreds'[k].first_seen = shreds[k].first_seen
           /\ SubSeq(shreds'[k].arrivals, 1, Len(shreds[k].arrivals))
                 = shreds[k].arrivals
<1>1. shreds[k] \in ShredRecord /\ shreds[k].arrivals \in Seq(Arrival)
  BY DEF RegTypeOK, ShredRecord
<1>2. ASSUME k \in DOMAIN shreds', shreds'[k] = shreds[k]
      PROVE  /\ shreds'[k].first_seen = shreds[k].first_seen
             /\ SubSeq(shreds'[k].arrivals, 1, Len(shreds[k].arrivals))
                   = shreds[k].arrivals
  BY <1>1, <1>2
<1>3. ASSUME NEW e \in ShredEvent, record_shred(e)
      PROVE  /\ k \in DOMAIN shreds'
             /\ shreds'[k].first_seen = shreds[k].first_seen
             /\ SubSeq(shreds'[k].arrivals, 1, Len(shreds[k].arrivals))
                   = shreds[k].arrivals
  <2>1. CASE k # e.key
    <3>1. k \in DOMAIN shreds' /\ shreds'[k] = shreds[k]
      BY <1>3, <2>1, RecordShredEffect
    <3> QED BY <1>2, <3>1
  <2>2. CASE k = e.key
    <3>1. k \in DOMAIN shreds' /\ shreds'[k] = ModifiedShred(shreds[k], e)
      BY <1>3, <2>2, RecordShredEffect
    <3>2. /\ shreds'[k].arrivals = Append(shreds[k].arrivals, ArrivalOf(e))
          /\ shreds'[k].first_seen = shreds[k].first_seen
      BY <1>1, <3>1 DEF ModifiedShred, ShredRecord
    <3>3. ArrivalOf(e) \in Arrival
      BY DEF ArrivalOf, Arrival, ShredEvent
    <3>4. SubSeq(Append(shreds[k].arrivals, ArrivalOf(e)), 1,
                 Len(shreds[k].arrivals)) = shreds[k].arrivals
      BY <1>1, <3>3
    <3> QED BY <3>1, <3>2, <3>4
  <2> QED BY <2>1, <2>2
<1>4. CASE UNCHANGED shreds
  BY <1>2, <1>4
<1>5. ASSUME NEW e \in SlotEvent, record_slot_event(e) PROVE UNCHANGED shreds
  BY <1>5 DEF record_slot_event
<1>6. ASSUME NEW e \in GrpcLatencyEvent, record_grpc_latency(e)
      PROVE  UNCHANGED shreds
  BY <1>6 DEF record_grpc_latency
<1>7. UNCHANGED regVars => UNCHANGED shreds
  BY DEF regVars
<1> QED BY <1>3, <1>4, <1>5, <1>6, <1>7 DEF RegNext

(* Recording never loses or rewrites anything: records stay, arrival lists *)
(* only get longer, the minima kept per slot and source only go down.      *)
THEOREM RegistryRecordsOnlyGrow == RegSpec => RecordsOnlyGrow
<1> DEFINE Grows ==
      /\ \A k \in DOMAIN shreds :
            /\ k \in DOMAIN shreds'
            /\ shreds'[k].first_seen = shreds[k].first_seen
            /\ SubSeq(shreds'[k].arrivals, 1, Len(shreds[k].arrivals))
                  = shreds[k].arrivals
      /\ \A s \in DOMAIN slots :
            /\ s \in DOMAIN slots'
            /\ slots'[s].first_shred_at <= slots[s].first_shred_at
            /\ \A src \in DOMAIN slots[s].entry_arrivals :
                  /\ src \in DOMAIN slots'[s].entry_arrivals
                  /\ slots'[s].entry_arrivals[src]
                        <= slots[s].entry_arrivals[src]
<1>1. RegTypeOK /\ [RegNext]_regVars => Grows
  BY ShredsOnlyGrow, SlotFirstOnlyLowers, EntryArrivalsOnlyLower
<1>2. RegTypeOK /\ [RegNext]_regVars => [Grows]_regVars
  BY <1>1
<1> QED BY <1>2, RegistryTypes, PTL DEF RegSpec, RecordsOnlyGrow

-----------------------------------------------------------------------------
(* An event's arrival is on record once the event is.                      *)
LEMMA RecordedArrival ==
    ASSUME RegTypeOK, NEW e \in ShredEvent, record_shred(e)
    PROVE  ShredArrivedAt(e.key.slot, e.received_at)'
<1> SUFFICES /\ e.key \in DOMAIN shreds'
             /\ \E i \in DOMAIN shreds'[e.key].arrivals :
                   shreds'[e.key].arrivals[i].at = e.received_at
  BY DEF ShredArrivedAt
<1>1. e.key \in DOMAIN shreds'
  BY RecordShredEffect
<1>2. ArrivalOf(e) \in Arrival /\ ArrivalOf(e).at = e.received_at
  BY DEF ArrivalOf, Arrival, ShredEvent
<1>3. CASE e.key \in DOMAIN shreds
  <2>1. shreds'[e.key] = ModifiedShred(shreds[e.key], e)
    BY <1>3, RecordShredEffect
  <2>2. shreds[e.key] \in ShredRecord
    BY <1>3 DEF RegTypeOK
  <2>3. /\ shreds[e.key].arrivals \in Seq(Arrival)
        /\ shreds'[e.key].arrivals = Append(shreds[e.key].arrivals, ArrivalOf(e))
    BY <2>1, <2>2 DEF ModifiedShred, ShredRecord
  <2>4. /\ Len(shreds[e.key].arrivals) + 1 \in DOMAIN shreds'[e.key].arrivals
        /\ shreds'[e.key].arrivals[Len(shreds[e.key].arrivals) + 1]
              = ArrivalOf(e)
    BY <1>2, <2>3
  <2> QED BY <1>1, <1>2, <2>4
<1>4. CASE e.key \notin DOMAIN shreds
  <2>1. shreds'[e.key] = NewShred(e)
    BY <1>4, RecordShredEffect
  <2>2. shreds'[e.key].arrivals = <<ArrivalOf(e)>>
    BY <2>1 DEF NewShred
  <2>3. /\ 1 \in DOMAIN shreds'[e.key].arrivals
        /\ shreds'[e.key].arrivals[1] = ArrivalOf(e)
    BY <2>2
  <2> QED BY <1>1, <1>2, <2>3
<1> QED BY <1>3, <1>4

(* And it stays there.                                                     *)
LEMMA ArrivalStays ==
    ASSUME RegTypeOK, [RegNext]_regVars, NEW s, NEW t, ShredArrivedAt(s, t)
    PROVE  ShredArrivedAt(s, t)'
<1>1. PICK k \in DOMAIN shreds :
         /\ k.slot = s
         /\ \E i \in DOMAIN shreds[k].arrivals : shreds[k].arrivals[i].at = t
  BY DEF ShredArrivedAt
<1>2. PICK i \in DOMAIN shreds[k].arrivals : shreds[k].arrivals[i].at = t
  BY <1>1
<1>3. CASE UNCHANGED shreds
  BY <1>3 DEF ShredArrivedAt
<1>4. ASSUME NEW e \in ShredEvent, record_shred(e)
      PROVE  ShredArrivedAt(s, t)'
  <2>1. k \in DOMAIN shreds'
    BY <1>4, RecordShredEffect
  <2>2. CASE k # e.key
    <3>1. shreds'[k] = shreds[k]
      BY <1>4, <2>2, RecordShredEffect
    <3> QED BY <1>1, <2>1, <3>1 DEF ShredArrivedAt
  <2>3. CASE k = e.key
    <3>1. shreds'[k] = ModifiedShred(shreds[k], e)
      BY <1>4, <2>3, RecordShredEffect
    <3>2. shreds[k] \in ShredRecord
      BY DEF RegTypeOK
    <3>3. /\ shreds[k].arrivals \in Seq(Arrival)
          /\ ArrivalOf(e) \in Arrival
          /\ shreds'[k].arrivals = Append(shreds[k].arrivals, ArrivalOf(e))
      BY <3>1, <3>2 DEF ShredRecord, ModifiedShred, ArrivalOf, Arrival,
                        ShredEvent
    <3>4. /\ i \in DOMAIN shreds'[k].arrivals
          /\ shreds'[k].arrivals[i] = shreds[k].arrivals[i]
      BY <3>3
    <3> QED BY <1>1, <1>2, <2>1, <3>4 DEF ShredArrivedAt
  <2> QED BY <2>2, <2>3
<1>5. ASSUME NEW e \in SlotEvent, record_slot_event(e) PROVE UNCHANGED shreds
  BY <1>5 DEF record_slot_event
<1>6. ASSUME NEW e \in GrpcLatencyEvent, record_grpc_latency(e)
      PROVE  UNCHANGED shreds
  BY <1>6 DEF record_grpc_latency
<1>7. UNCHANGED regVars => UNCHANGED shreds
  BY DEF regVars
<1> QED BY <1>3, <1>4, <1>5, <1>6, <1>7 DEF RegNext

(* A slot whose first_shred_at a step does not touch stays accounted for.  *)
LEMMA SameFirstAccountedFor ==
    ASSUME RegTypeOK, SlotFirstAccountedFor, [RegNext]_regVars,
           NEW s \in DOMAIN slots,
           slots'[s].first_shred_at = slots[s].first_shred_at
    PROVE  \/ ShredArrivedAt(s, slots[s].first_shred_at)'
           \/ \E src \in DOMAIN slots'[s].entry_arrivals :
                 slots'[s].entry_arrivals[src] <= slots'[s].first_shred_at
<1>0. slots[s].first_shred_at \in Nat
  BY RegistryAssumption DEF RegTypeOK, SlotRecord
<1> DEFINE first == slots[s].first_shred_at
<1>1. CASE ShredArrivedAt(s, first)
  <2>1. ASSUME NEW t, ShredArrivedAt(s, t) PROVE ShredArrivedAt(s, t)'
    BY <2>1, ArrivalStays
  <2>2. PICK t : t = first
    OBVIOUS
  <2>3. ShredArrivedAt(s, t)'
    BY <1>1, <2>1, <2>2
  <2> QED BY <2>2, <2>3 DEF ShredArrivedAt
<1>2. CASE \E src \in DOMAIN slots[s].entry_arrivals :
              slots[s].entry_arrivals[src] <= first
  <2>1. PICK src \in DOMAIN slots[s].entry_arrivals :
           slots[s].entry_arrivals[src] <= first
    BY <1>2
  <2>2. /\ src \in DOMAIN slots'[s].entry_arrivals
        /\ slots[s].entry_arrivals[src] \in Nat
        /\ slots'[s].entry_arrivals[src] \in Nat
        /\ slots'[s].entry_arrivals[src] <= slots[s].entry_arrivals[src]
    BY EntryArrivalsOnlyLower
  <2>3. slots'[s].entry_arrivals[src] <= slots'[s].first_shred_at
    BY <1>0, <2>1, <2>2
  <2> QED BY <2>2, <2>3
<1> QED BY <1>1, <1>2 DEF SlotFirstAccountedFor

LEMMA AccountedForNext ==
    RegTypeOK /\ SlotFirstAccountedFor /\ [RegNext]_regVars
        => SlotFirstAccountedFor'
<1> SUFFICES ASSUME RegTypeOK, SlotFirstAccountedFor, [RegNext]_regVars
             PROVE  SlotFirstAccountedFor'
  OBVIOUS
<1> DEFINE Accounted(s) ==
      \/ ShredArrivedAt(s, slots[s].first_shred_at)
      \/ \E src \in DOMAIN slots[s].entry_arrivals :
            slots[s].entry_arrivals[src] <= slots[s].first_shred_at
<1>1. ASSUME NEW s \in DOMAIN slots,
             slots'[s].first_shred_at = slots[s].first_shred_at
      PROVE  Accounted(s)'
  <2>1. \/ ShredArrivedAt(s, slots[s].first_shred_at)'
        \/ \E src \in DOMAIN slots'[s].entry_arrivals :
              slots'[s].entry_arrivals[src] <= slots'[s].first_shred_at
    BY <1>1, SameFirstAccountedFor
  <2> QED BY <2>1
<1>2. ASSUME NEW e \in ShredEvent, record_shred(e), NEW s \in DOMAIN slots'
      PROVE  Accounted(s)'
  <2>1. CASE slots'[s].first_shred_at = e.received_at /\ s = e.key.slot
    <3>1. ShredArrivedAt(e.key.slot, e.received_at)'
      BY <1>2, RecordedArrival
    <3> QED BY <2>1, <3>1 DEF ShredArrivedAt
  <2>2. CASE s \in DOMAIN slots
             /\ slots'[s].first_shred_at = slots[s].first_shred_at
    BY <1>1, <2>2
  <2>3. CASE s # e.key.slot
    <3>1. s \in DOMAIN slots /\ slots'[s] = slots[s]
      BY <1>2, <2>3, RecordShredEffect
    <3> QED BY <2>2, <3>1
  <2>4. CASE s = e.key.slot /\ s \in DOMAIN slots
    <3>1. slots'[s] = SlotSeesShred(slots[s], e.received_at)
      BY <1>2, <2>4, RecordShredEffect
    <3>2. slots[s] \in SlotRecord /\ e.received_at \in Time
      BY <2>4 DEF RegTypeOK, ShredEvent
    <3>3. slots'[s].first_shred_at \in {e.received_at, slots[s].first_shred_at}
      BY <3>1, <3>2, SlotSeesShredFacts
    <3> QED BY <2>1, <2>2, <2>4, <3>3
  <2>5. CASE s = e.key.slot /\ s \notin DOMAIN slots
    <3>1. slots'[s] = NewSlot(e.received_at, NoEntries)
      BY <1>2, <2>5, RecordShredEffect
    <3> QED BY <2>1, <2>5, <3>1 DEF NewSlot
  <2> QED BY <2>3, <2>4, <2>5
<1>3. ASSUME NEW e \in SlotEvent, record_slot_event(e),
             NEW s \in DOMAIN slots'
      PROVE  Accounted(s)'
  <2>1. CASE s \in DOMAIN slots
             /\ slots'[s].first_shred_at = slots[s].first_shred_at
    BY <1>1, <2>1
  <2>2. CASE s # e.slot
    <3>1. s \in DOMAIN slots /\ slots'[s] = slots[s]
      BY <1>3, <2>2, RecordSlotEventEffect
    <3> QED BY <2>1, <3>1
  <2>3. CASE s = e.slot /\ s \in DOMAIN slots
    <3>1. slots'[s] = SlotSeesEntry(slots[s], e)
      BY <1>3, <2>3, RecordSlotEventEffect
    <3>2. slots[s] \in SlotRecord
      BY <2>3 DEF RegTypeOK
    <3>3. slots'[s].first_shred_at = slots[s].first_shred_at
      BY <3>1, <3>2 DEF SlotSeesEntry, SlotRecord
    <3> QED BY <2>1, <2>3, <3>3
  <2>4. CASE s = e.slot /\ s \notin DOMAIN slots
    <3>1. slots'[s] = NewSlot(e.received_at,
                              Upsert(NoEntries, e.source, e.received_at))
      BY <1>3, <2>4, RecordSlotEventEffect
    <3>2. Upsert(NoEntries, e.source, e.received_at)
             = [x \in {e.source} |-> e.received_at]
      BY DEF Upsert, NoEntries
    <3>3. e.received_at <= e.received_at
      BY TimeOrder DEF SlotEvent
    <3>4. /\ slots'[s].first_shred_at = e.received_at
          /\ e.source \in DOMAIN slots'[s].entry_arrivals
          /\ slots'[s].entry_arrivals[e.source] = e.received_at
      BY <3>1, <3>2 DEF NewSlot
    <3> QED BY <3>3, <3>4
  <2> QED BY <2>2, <2>3, <2>4
<1>4. ASSUME UNCHANGED slots, NEW s \in DOMAIN slots' PROVE Accounted(s)'
  BY <1>1, <1>4
<1>5. ASSUME NEW e \in GrpcLatencyEvent, record_grpc_latency(e)
      PROVE  UNCHANGED slots
  BY <1>5 DEF record_grpc_latency
<1>6. UNCHANGED regVars => UNCHANGED slots
  BY DEF regVars
<1>7. ASSUME NEW s \in DOMAIN slots' PROVE Accounted(s)'
  BY <1>2, <1>3, <1>4, <1>5, <1>6, <1>7 DEF RegNext
<1> QED BY <1>7 DEF SlotFirstAccountedFor

(* A slot's first_shred_at is never made up or stale: a shred of the slot  *)
(* arrived then, or an entry-level source opened the slot no later.        *)
THEOREM RegistrySlotFirstAccountedFor == RegSpec => []SlotFirstAccountedFor
<1>1. RegInit => SlotFirstAccountedFor
  BY DEF RegInit, SlotFirstAccountedFor, EmptyMap
<1> QED BY <1>1, AccountedForNext, RegistryTypes, PTL DEF RegSpec
=============================================================================
