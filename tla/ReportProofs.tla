----------------------------- MODULE ReportProofs -----------------------------
(***************************************************************************)
(* TLAPS proofs about the report made beside a running aggregator: that    *)
(* the registry behaves as RegSpec says, that the passes add up, and that  *)
(* the tables, however sorted, agree about each source.                    *)
(***************************************************************************)
EXTENDS Report, RegistryProofs, FiniteSetTheorems

\* The slots as they will be once the shred halfway through is in both maps.
SettledSlots == IF pending = <<>> THEN slots ELSE SlotsWith(Head(pending))

Settled == INSTANCE Registry WITH slots <- SettledSlots

(* The registry seen through SettledSlots is the registry with its slots   *)
(* replaced.                                                               *)
LEMMA SettledOperators ==
    /\ \A e : Settled!ShredsWith(e) = ShredsWith(e)
    /\ \A e : pending = <<>> => Settled!SlotsWith(e) = SlotsWith(e)
  BY DEF Settled!ShredsWith, Settled!SlotsWith, ShredsWith, SlotsWith,
         SettledSlots, Settled!Upsert, Upsert, Settled!ModifiedShred,
         ModifiedShred, Settled!NewShred, NewShred, Settled!ArrivalOf,
         ArrivalOf, Settled!SlotSeesShred, SlotSeesShred, Settled!NewSlot,
         NewSlot, Settled!NoEntries, NoEntries

LEMMA SettledEvents ==
    /\ ShredEvent = Settled!ShredEvent
    /\ SlotEvent = Settled!SlotEvent
    /\ GrpcLatencyEvent = Settled!GrpcLatencyEvent
  BY DEF ShredEvent, Settled!ShredEvent, ShredKey, Settled!ShredKey, ShredType,
         Settled!ShredType, SlotEvent, Settled!SlotEvent, GrpcLatencyEvent,
         Settled!GrpcLatencyEvent

(* record_slot_event and record_grpc_latency are one step each, taken when *)
(* no shred is halfway through.                                            *)
LEMMA SettledRecords ==
    ASSUME pending = <<>>, pending' = <<>>
    PROVE  /\ \A e : record_slot_event(e) => Settled!record_slot_event(e)
           /\ \A e : record_grpc_latency(e) => Settled!record_grpc_latency(e)
<1>1. SettledSlots = slots /\ SettledSlots' = slots'
  BY DEF SettledSlots
<1>2. \A e : record_slot_event(e) => Settled!record_slot_event(e)
  BY <1>1 DEF record_slot_event, Settled!record_slot_event, Upsert,
     Settled!Upsert, SlotSeesEntry, Settled!SlotSeesEntry, EarliestPerSource,
     Settled!EarliestPerSource, NewSlot, Settled!NewSlot, NoEntries,
     Settled!NoEntries
<1>3. \A e : record_grpc_latency(e) => Settled!record_grpc_latency(e)
  BY <1>1 DEF record_grpc_latency, Settled!record_grpc_latency, Upsert,
     Settled!Upsert
<1> QED BY <1>2, <1>3

(* A registry that is written in two steps per shred, by an aggregator     *)
(* that may have been left behind, beside the passes of the report,        *)
(* implements the registry whose shreds are recorded in one.               *)
THEOREM ReportImplementsRegistry == ReportSpec => Settled!RegSpec
<1>1. ReportInit => Settled!RegInit
  BY DEF ReportInit, RegInit, Settled!RegInit, SettledSlots, EmptyMap,
         Settled!EmptyMap
<1>2. ASSUME [ReportNext]_reportVars PROVE [Settled!RegNext]_Settled!regVars
  <2> USE DEF Settled!regVars
  <2>1. ASSUME NEW e \in ShredEvent, RecordInShreds(e)
        PROVE  Settled!RegNext
    <3>1. /\ pending = <<>> /\ pending' = <<e>> /\ slots' = slots
          /\ shreds' = ShredsWith(e) /\ grpc_latencies' = grpc_latencies
      BY <2>1 DEF RecordInShreds, AggNext
    <3>2. SlotsWith(e)' = SlotsWith(e)
      BY <3>1 DEF SlotsWith
    <3>3. SettledSlots' = SlotsWith(e)
      BY <3>1, <3>2 DEF SettledSlots
    <3>4. Settled!record_shred(e)
      BY <3>1, <3>3, SettledOperators DEF Settled!record_shred
    <3> QED BY <3>4, SettledEvents DEF Settled!RegNext
  <2>2. CASE RecordInSlots
    <3>1. /\ pending # <<>> /\ pending' = <<>>
          /\ slots' = SlotsWith(Head(pending))
          /\ UNCHANGED <<shreds, grpc_latencies>>
      BY <2>2 DEF RecordInSlots
    <3> QED BY <3>1 DEF SettledSlots
  <2>3. ASSUME NEW e \in SlotEvent, RecordEntry(e)
        PROVE  Settled!RegNext
    <3>1. pending = <<>> /\ pending' = <<>> /\ record_slot_event(e)
      BY <2>3 DEF RecordEntry, AggNext
    <3> QED BY <3>1, SettledRecords, SettledEvents DEF Settled!RegNext
  <2>4. ASSUME NEW e \in GrpcLatencyEvent, RecordGrpc(e)
        PROVE  Settled!RegNext
    <3>1. pending = <<>> /\ pending' = <<>> /\ record_grpc_latency(e)
      BY <2>4 DEF RecordGrpc, AggNext
    <3> QED BY <3>1, SettledRecords, SettledEvents DEF Settled!RegNext
  \* The report reads.
  <2>5. CASE \/ JoinAggregator \/ ReadTotal \/ VisitShred \/ ReadSlotTotal
             \/ VisitSlot \/ ReadGrpc \/ VisitForLog \/ LogWritten
             \/ UNCHANGED reportVars
    <3>1. UNCHANGED <<regVars, pending>>
      BY <2>5 DEF JoinAggregator, ReadTotal, VisitShred,
         ReadSlotTotal, VisitSlot, ReadGrpc, VisitForLog, LogWritten, aggVars,
         reportVars
    <3> QED BY <3>1 DEF regVars, SettledSlots, SlotsWith
  <2> HIDE DEF Settled!regVars
  <2> QED BY <1>2, <2>1, <2>2, <2>3, <2>4, <2>5 DEF ReportNext
<1> QED BY <1>1, <1>2, PTL DEF ReportSpec, Settled!RegSpec

-----------------------------------------------------------------------------
(* The invariant of the passes.  old is what was read of a record that is  *)
(* now new.                                                                *)
Earlier(old, new) ==
    /\ old.first_seen = new.first_seen
    /\ old.first_source = new.first_source
    /\ Len(old.arrivals) <= Len(new.arrivals)
    /\ \A i \in DOMAIN old.arrivals : old.arrivals[i] = new.arrivals[i]

ReadOf(map, now) ==
    \A k \in DOMAIN map : /\ map[k] \in ShredRecord
                          /\ k \in DOMAIN now
                          /\ Earlier(map[k], now[k])

\* map knows the slot of k to have begun at t or before.
Covers(map, k, t) == k.slot \in DOMAIN map /\ map[k.slot].first_shred_at <= t

ReportTypeOK ==
    /\ RegTypeOK
    /\ pending # <<>> => \E e \in ShredEvent : pending = <<e>>
    /\ pass \in {"run", "total", "shreds", "slots", "log", "done"}
    /\ agg = "joined" => pending = <<>> /\ pass # "run"
    /\ IsFiniteSet(DOMAIN shreds)
    /\ \A s \in DOMAIN seen_slots : seen_slots[s] \in SlotRecord

\* Only the arrival that is between the two maps may be ahead of its slot.
OnlyPendingIsAhead ==
    /\ pending # <<>> =>
          LET e == Head(pending) IN
          /\ e.key \in DOMAIN shreds
          /\ shreds[e.key].arrivals[Len(shreds[e.key].arrivals)] = ArrivalOf(e)
    /\ \A k \in DOMAIN shreds : \A i \in DOMAIN shreds[k].arrivals :
          \/ Covers(slots, k, shreds[k].arrivals[i].at)
          \/ /\ pending # <<>> /\ k = Head(pending).key
             /\ i = Len(shreds[k].arrivals)

\* What was counted is a part of the registry, in the state it was read.
ReadsArePast ==
    /\ ReadOf(seen_shreds, shreds)
    /\ ReadOf(logged, shreds)
    /\ \A k \in DOMAIN seen_shreds \cap DOMAIN logged :
          Earlier(seen_shreds[k], logged[k])
    /\ pass \in {"run", "total"} => DOMAIN seen_shreds = {}
    /\ pass \notin {"log", "done"} => DOMAIN logged = {}
    /\ pass = "log" => DOMAIN seen_shreds \subseteq DOMAIN logged \cup due
    /\ pass = "done" => DOMAIN seen_shreds \subseteq DOMAIN logged

\* The total of the header counted some of the shreds, and these are visited.
TotalIsVisited ==
    pass \notin {"run", "total"} =>
        \E D \in SUBSET DOMAIN shreds :
            /\ total_unique_shreds = Cardinality(D)
            /\ agg = "joined" => D = DOMAIN shreds
            /\ D \subseteq DOMAIN seen_shreds \cup (IF pass = "shreds" THEN due ELSE {})

\* The arrivals counted that the slots, as read or still to be read, are
\* behind: there is at most one.
Ahead ==
    {a \in UNION {{k} \X DOMAIN seen_shreds[k].arrivals : k \in DOMAIN seen_shreds} :
        LET t == seen_shreds[a[1]].arrivals[a[2]].at
        IN  /\ ~Covers(seen_slots, a[1], t)
            /\ pass = "slots" => ~(a[1].slot \in due /\ Covers(slots, a[1], t))}

AtMostOneAhead ==
    pass \in {"slots", "log", "done"} =>
        /\ \A a, b \in Ahead : a = b
        /\ agg = "joined" => Ahead = {}

PassesInv ==
    ReportTypeOK /\ OnlyPendingIsAhead /\ ReadsArePast /\ TotalIsVisited /\ AtMostOneAhead

-----------------------------------------------------------------------------
LEMMA EarlierOrder ==
    /\ \A r \in ShredRecord : Earlier(r, r)
    /\ \A a, b, c \in ShredRecord : Earlier(a, b) /\ Earlier(b, c) => Earlier(a, c)
<1>1. ASSUME NEW r \in ShredRecord PROVE Earlier(r, r)
  <2>1. r.arrivals \in Seq(Arrival)
    BY DEF ShredRecord
  <2>2. Len(r.arrivals) \in Nat
    BY <2>1
  <2> QED BY <2>2 DEF Earlier
<1>2. ASSUME NEW a \in ShredRecord, NEW b \in ShredRecord, NEW c \in ShredRecord,
             Earlier(a, b), Earlier(b, c)
      PROVE  Earlier(a, c)
  <2> DEFINE u == a.arrivals
             v == b.arrivals
             w == c.arrivals
  <2>1. u \in Seq(Arrival) /\ v \in Seq(Arrival) /\ w \in Seq(Arrival)
    BY DEF ShredRecord
  <2>2. /\ Len(u) <= Len(v) /\ Len(v) <= Len(w)
        /\ \A i \in DOMAIN u : u[i] = v[i]
        /\ \A i \in DOMAIN v : v[i] = w[i]
    BY <1>2 DEF Earlier
  <2> HIDE DEF u, v, w
  <2>3. Len(u) <= Len(w) /\ \A i \in DOMAIN u : u[i] = w[i]
    <3>1. /\ Len(u) \in Nat /\ Len(v) \in Nat /\ Len(w) \in Nat
          /\ DOMAIN u = 1..Len(u) /\ DOMAIN v = 1..Len(v)
      BY <2>1
    <3>2. \A i \in DOMAIN u : i \in DOMAIN v
      BY <2>2, <3>1
    <3> QED BY <2>2, <3>1, <3>2
  <2> QED BY <1>2, <2>3 DEF Earlier, u, w
<1> QED BY <1>1, <1>2

(* What one more event adds to a record.                                   *)
LEMMA OneMoreArrival ==
    ASSUME NEW rec \in ShredRecord, NEW e \in ShredEvent
    PROVE  LET new == ModifiedShred(rec, e)
           IN  /\ new \in ShredRecord /\ Earlier(rec, new)
               /\ Len(new.arrivals) = Len(rec.arrivals) + 1
               /\ new.arrivals[Len(new.arrivals)] = ArrivalOf(e)
               /\ \A i \in DOMAIN new.arrivals :
                     \/ i \in DOMAIN rec.arrivals /\ new.arrivals[i] = rec.arrivals[i]
                     \/ i = Len(new.arrivals)
<1> DEFINE new == ModifiedShred(rec, e)
           a == rec.arrivals
           x == ArrivalOf(e)
<1>1. a \in Seq(Arrival) /\ x \in Arrival /\ new \in ShredRecord
  BY ShredRecordType DEF ShredRecord, ArrivalOf, Arrival, ShredEvent
<1>2. /\ new.arrivals = Append(a, x)
      /\ new.first_seen = rec.first_seen /\ new.first_source = rec.first_source
  BY DEF ModifiedShred, ShredRecord
<1> HIDE DEF new, a, x
<1>3. /\ Len(a) \in Nat /\ DOMAIN a = 1..Len(a)
      /\ Len(Append(a, x)) = Len(a) + 1
      /\ DOMAIN Append(a, x) = 1..Len(a) + 1
      /\ \A i \in DOMAIN a : Append(a, x)[i] = a[i]
      /\ Append(a, x)[Len(a) + 1] = x
  BY <1>1
<1>4. \A i \in 1..Len(a) + 1 : i \in DOMAIN a \/ i = Len(a) + 1
  BY <1>3
<1>5. Earlier(rec, new)
  BY <1>2, <1>3 DEF Earlier, a
<1>6. \A i \in DOMAIN new.arrivals :
         \/ i \in DOMAIN a /\ new.arrivals[i] = a[i]
         \/ i = Len(new.arrivals)
  BY <1>2, <1>3, <1>4
<1> QED BY <1>1, <1>2, <1>3, <1>5, <1>6 DEF new, a, x

(* The two halves of record_shred.                                         *)
LEMMA ShredsWithEffect ==
    ASSUME NEW e
    PROVE  /\ DOMAIN ShredsWith(e) = DOMAIN shreds \cup {e.key}
           /\ e.key \in DOMAIN shreds
                 => ShredsWith(e)[e.key] = ModifiedShred(shreds[e.key], e)
           /\ e.key \notin DOMAIN shreds => ShredsWith(e)[e.key] = NewShred(e)
           /\ \A k \in DOMAIN shreds : k # e.key => ShredsWith(e)[k] = shreds[k]
  BY DEF ShredsWith, Upsert

LEMMA SlotsWithEffect ==
    ASSUME NEW e
    PROVE  /\ DOMAIN SlotsWith(e) = DOMAIN slots \cup {e.key.slot}
           /\ e.key.slot \in DOMAIN slots
                 => SlotsWith(e)[e.key.slot]
                       = SlotSeesShred(slots[e.key.slot], e.received_at)
           /\ e.key.slot \notin DOMAIN slots
                 => SlotsWith(e)[e.key.slot] = NewSlot(e.received_at, NoEntries)
           /\ \A s \in DOMAIN slots : s # e.key.slot => SlotsWith(e)[s] = slots[s]
  BY DEF SlotsWith, Upsert

(* The first half: one record gains the event's arrival.                   *)
LEMMA FirstHalf ==
    ASSUME RegTypeOK, NEW e \in ShredEvent, RecordInShreds(e)
    PROVE  /\ DOMAIN shreds' = DOMAIN shreds \cup {e.key} /\ e.key \in ShredKey
           /\ pending = <<>> /\ pending' = <<e>>
           /\ UNCHANGED <<slots, grpc_latencies, agg, pass, due, readVars>>
           /\ \A k \in DOMAIN shreds' : shreds'[k] \in ShredRecord
           /\ \A k \in DOMAIN shreds : Earlier(shreds[k], shreds'[k])
           /\ shreds'[e.key].arrivals[Len(shreds'[e.key].arrivals)] = ArrivalOf(e)
           /\ \A k \in DOMAIN shreds' : \A i \in DOMAIN shreds'[k].arrivals :
                 \/ /\ k \in DOMAIN shreds /\ i \in DOMAIN shreds[k].arrivals
                    /\ shreds'[k].arrivals[i] = shreds[k].arrivals[i]
                 \/ k = e.key /\ i = Len(shreds'[k].arrivals)
<1>1. /\ shreds' = ShredsWith(e) /\ pending = <<>> /\ pending' = <<e>>
      /\ UNCHANGED <<slots, grpc_latencies, agg, pass, due, readVars>>
  BY DEF RecordInShreds, AggNext
<1>2. e.key \in ShredKey
  BY DEF ShredEvent
<1>3. /\ DOMAIN shreds' = DOMAIN shreds \cup {e.key}
      /\ e.key \in DOMAIN shreds => shreds'[e.key] = ModifiedShred(shreds[e.key], e)
      /\ e.key \notin DOMAIN shreds => shreds'[e.key] = NewShred(e)
      /\ \A k \in DOMAIN shreds : k # e.key => shreds'[k] = shreds[k]
  BY <1>1, ShredsWithEffect
<1>4. \A k \in DOMAIN shreds : shreds[k] \in ShredRecord
  BY DEF RegTypeOK
<1>5. CASE e.key \in DOMAIN shreds
  <2> DEFINE new == ModifiedShred(shreds[e.key], e)
  <2>1. /\ new \in ShredRecord /\ Earlier(shreds[e.key], new)
        /\ new.arrivals[Len(new.arrivals)] = ArrivalOf(e)
        /\ \A i \in DOMAIN new.arrivals :
              \/ /\ i \in DOMAIN shreds[e.key].arrivals
                 /\ new.arrivals[i] = shreds[e.key].arrivals[i]
              \/ i = Len(new.arrivals)
    BY <1>4, <1>5, OneMoreArrival
  <2>2. shreds'[e.key] = new
    BY <1>3, <1>5
  <2> HIDE DEF new
  <2> QED BY <1>1, <1>2, <1>3, <1>4, <1>5, <2>1, <2>2, EarlierOrder
<1>6. CASE e.key \notin DOMAIN shreds
  <2>1. shreds'[e.key] = NewShred(e) /\ NewShred(e) \in ShredRecord
    BY <1>3, <1>6, ShredRecordType
  <2>2. /\ NewShred(e).arrivals = <<ArrivalOf(e)>>
        /\ DOMAIN <<ArrivalOf(e)>> = {1} /\ Len(<<ArrivalOf(e)>>) = 1
        /\ <<ArrivalOf(e)>>[1] = ArrivalOf(e)
    BY DEF NewShred
  <2>3. \A k \in DOMAIN shreds : k # e.key /\ shreds'[k] = shreds[k]
    BY <1>3, <1>6
  <2>4. \A k \in DOMAIN shreds' : shreds'[k] \in ShredRecord
    BY <1>3, <1>4, <2>1, <2>3
  <2>5. \A k \in DOMAIN shreds : Earlier(shreds[k], shreds'[k])
    BY <1>4, <2>3, EarlierOrder
  <2>6. /\ Len(shreds'[e.key].arrivals) = 1 /\ DOMAIN shreds'[e.key].arrivals = {1}
        /\ shreds'[e.key].arrivals[1] = ArrivalOf(e)
    BY <2>1, <2>2
  <2> QED BY <1>1, <1>2, <1>3, <2>3, <2>4, <2>5, <2>6
<1> QED BY <1>5, <1>6

(* The second half: the event's slot is at its time or before.             *)
LEMMA SecondHalf ==
    ASSUME RegTypeOK, NEW e \in ShredEvent, pending = <<e>>, RecordInSlots
    PROVE  /\ DOMAIN slots' \subseteq Slot
           /\ \A s \in DOMAIN slots' : slots'[s] \in SlotRecord
           /\ \A s \in DOMAIN slots :
                 /\ s \in DOMAIN slots'
                 /\ slots'[s].first_shred_at <= slots[s].first_shred_at
           /\ Covers(slots', e.key, e.received_at)
           /\ pending' = <<>>
           /\ UNCHANGED <<shreds, grpc_latencies, agg, pass, due, readVars>>
<1> DEFINE s0 == e.key.slot
           t == e.received_at
<1>1. /\ slots' = SlotsWith(e) /\ pending' = <<>>
      /\ UNCHANGED <<shreds, grpc_latencies, agg, pass, due, readVars>>
  BY DEF RecordInSlots
<1>2. s0 \in Slot /\ t \in Time /\ t <= t
  BY TimeOrder DEF ShredEvent, ShredKey
<1>3. /\ DOMAIN slots' = DOMAIN slots \cup {s0}
      /\ s0 \in DOMAIN slots => slots'[s0] = SlotSeesShred(slots[s0], t)
      /\ s0 \notin DOMAIN slots => slots'[s0] = NewSlot(t, NoEntries)
      /\ \A s \in DOMAIN slots : s # s0 => slots'[s] = slots[s]
  BY <1>1, SlotsWithEffect
<1>4. /\ DOMAIN slots \subseteq Slot
      /\ \A s \in DOMAIN slots : /\ slots[s] \in SlotRecord
                                 /\ slots[s].first_shred_at <= slots[s].first_shred_at
  BY TimeOrder DEF RegTypeOK, SlotRecord
<1> HIDE DEF s0, t
<1>5. slots'[s0] \in SlotRecord /\ slots'[s0].first_shred_at <= t
  <2>1. CASE s0 \in DOMAIN slots
    BY <1>2, <1>3, <1>4, <2>1, SlotRecordType, SlotSeesShredFacts
  <2>2. CASE s0 \notin DOMAIN slots
    BY <1>2, <1>3, <2>2, SlotRecordType DEF NewSlot
  <2> QED BY <2>1, <2>2
<1>6. \A s \in DOMAIN slots : slots'[s].first_shred_at <= slots[s].first_shred_at
  BY <1>2, <1>3, <1>4, SlotSeesShredFacts
<1> QED BY <1>1, <1>2, <1>3, <1>4, <1>5, <1>6 DEF Covers, s0, t

\* A slot's entry, or a sample: one step of the registry that no shred sees.
LEMMA OtherEvents ==
    ASSUME RegTypeOK,
           \/ \E e \in SlotEvent : RecordEntry(e)
           \/ \E e \in GrpcLatencyEvent : RecordGrpc(e)
    PROVE  /\ RegTypeOK'
           /\ \A s \in DOMAIN slots :
                 /\ s \in DOMAIN slots'
                 /\ slots'[s].first_shred_at <= slots[s].first_shred_at
           /\ agg # "joined" /\ UNCHANGED <<shreds, pending, agg, pass, due, readVars>>
<1>1. RegNext /\ UNCHANGED shreds
  BY DEF RegNext, RecordEntry, RecordGrpc, record_slot_event, record_grpc_latency
<1>2. agg # "joined" /\ UNCHANGED <<pending, agg, pass, due, readVars>>
  BY DEF RecordEntry, RecordGrpc, AggNext
<1>3. RegTypeOK'
  BY <1>1, RegTypeNext
<1>4. ASSUME NEW s \in DOMAIN slots
      PROVE  s \in DOMAIN slots' /\ slots'[s].first_shred_at <= slots[s].first_shred_at
  BY <1>1, SlotFirstOnlyLowers
<1> QED BY <1>1, <1>2, <1>3, <1>4

Reading ==
    \/ JoinAggregator \/ ReadTotal \/ VisitShred \/ ReadSlotTotal
    \/ VisitSlot \/ ReadGrpc \/ VisitForLog \/ LogWritten

LEMMA ReadingLeavesRegistry ==
    ASSUME Reading \/ UNCHANGED reportVars
    PROVE  UNCHANGED <<shreds, slots, grpc_latencies, pending>>
  BY DEF Reading, JoinAggregator, ReadTotal, VisitShred, ReadSlotTotal,
         VisitSlot, ReadGrpc, VisitForLog, LogWritten, aggVars, reportVars, regVars

LEMMA ReportCases ==
    ASSUME [ReportNext]_reportVars
    PROVE  \/ \E e \in ShredEvent : RecordInShreds(e)
           \/ RecordInSlots
           \/ \E e \in SlotEvent : RecordEntry(e)
           \/ \E e \in GrpcLatencyEvent : RecordGrpc(e)
           \/ Reading
           \/ UNCHANGED reportVars
  BY DEF ReportNext, Reading

LEMMA PendingEvent ==
    ASSUME ReportTypeOK, pending # <<>>
    PROVE  \E e \in ShredEvent : pending = <<e>> /\ Head(pending) = e
  BY DEF ReportTypeOK

(* Beside the report, records only gain arrivals and slots only go down;   *)
(* a joined aggregator does nothing more.                                  *)
LEMMA RegistryOnlyGrows ==
    ASSUME ReportTypeOK, [ReportNext]_reportVars
    PROVE  /\ RegTypeOK'
           /\ \A k \in DOMAIN shreds : /\ k \in DOMAIN shreds'
                                       /\ Earlier(shreds[k], shreds'[k])
           /\ \A s \in DOMAIN slots :
                 /\ s \in DOMAIN slots'
                 /\ slots'[s].first_shred_at <= slots[s].first_shred_at
           /\ agg = "joined" => UNCHANGED <<shreds, slots>> /\ agg' = "joined"
<1>1. RegTypeOK
  BY DEF ReportTypeOK
<1>2. /\ \A k \in DOMAIN shreds : Earlier(shreds[k], shreds[k])
      /\ \A s \in DOMAIN slots : slots[s].first_shred_at <= slots[s].first_shred_at
  BY <1>1, EarlierOrder, TimeOrder DEF RegTypeOK, SlotRecord
<1>3. ASSUME NEW e \in ShredEvent, RecordInShreds(e)
      PROVE  /\ RegTypeOK' /\ agg # "joined" /\ UNCHANGED slots
             /\ \A k \in DOMAIN shreds : /\ k \in DOMAIN shreds'
                                         /\ Earlier(shreds[k], shreds'[k])
  <2>1. agg # "joined"
    BY <1>3 DEF RecordInShreds, AggNext
  <2>2. /\ DOMAIN shreds' = DOMAIN shreds \cup {e.key} /\ e.key \in ShredKey
        /\ \A k \in DOMAIN shreds' : shreds'[k] \in ShredRecord
        /\ \A k \in DOMAIN shreds : Earlier(shreds[k], shreds'[k])
        /\ UNCHANGED <<slots, grpc_latencies>>
    BY <1>1, <1>3, FirstHalf
  <2>3. RegTypeOK'
    BY <1>1, <2>2 DEF RegTypeOK
  <2> QED BY <2>1, <2>2, <2>3
<1>4. CASE RecordInSlots
  <2>1. PICK e \in ShredEvent : pending = <<e>>
    BY <1>4 DEF RecordInSlots, ReportTypeOK
  <2>2. /\ DOMAIN slots' \subseteq Slot
        /\ \A s \in DOMAIN slots' : slots'[s] \in SlotRecord
        /\ \A s \in DOMAIN slots :
              /\ s \in DOMAIN slots'
              /\ slots'[s].first_shred_at <= slots[s].first_shred_at
        /\ UNCHANGED <<shreds, grpc_latencies, agg>>
    BY <1>1, <1>4, <2>1, SecondHalf
  <2>3. RegTypeOK'
    BY <1>1, <2>2 DEF RegTypeOK
  <2>4. agg # "joined"
    BY <2>1 DEF ReportTypeOK
  <2> QED BY <1>2, <2>2, <2>3, <2>4
<1>5. CASE \/ \E e \in SlotEvent : RecordEntry(e)
           \/ \E e \in GrpcLatencyEvent : RecordGrpc(e)
  BY <1>1, <1>2, <1>5, OtherEvents
<1>6. CASE Reading \/ UNCHANGED reportVars
  <2>1. UNCHANGED <<shreds, slots, grpc_latencies>>
    BY <1>6, ReadingLeavesRegistry
  <2>2. agg = "joined" => agg' = "joined"
    BY <1>6 DEF Reading, JoinAggregator, ReadTotal, VisitShred, ReadSlotTotal,
                VisitSlot, ReadGrpc, VisitForLog, LogWritten, reportVars, ReportTypeOK
  <2>3. RegTypeOK'
    BY <1>1, <2>1 DEF RegTypeOK
  <2> QED BY <1>2, <2>1, <2>2, <2>3
<1> QED BY <1>2, <1>3, <1>4, <1>5, <1>6, ReportCases

LEMMA ReportTypeNext == ReportTypeOK /\ [ReportNext]_reportVars => ReportTypeOK'
<1> SUFFICES ASSUME ReportTypeOK, [ReportNext]_reportVars PROVE ReportTypeOK'
  OBVIOUS
<1>1. RegTypeOK /\ RegTypeOK'
  BY RegistryOnlyGrows DEF ReportTypeOK
<1>2. CASE \E e \in ShredEvent : RecordInShreds(e)
  <2>1. PICK e \in ShredEvent : RecordInShreds(e)
    BY <1>2
  <2>2. /\ DOMAIN shreds' = DOMAIN shreds \cup {e.key} /\ pending' = <<e>>
        /\ UNCHANGED <<agg, pass, readVars>>
    BY <1>1, <2>1, FirstHalf
  <2>3. agg # "joined"
    BY <2>1 DEF RecordInShreds, AggNext
  <2>4. IsFiniteSet(DOMAIN shreds')
    BY <2>2, FS_AddElement DEF ReportTypeOK
  <2> QED BY <1>1, <2>2, <2>3, <2>4 DEF ReportTypeOK, readVars
<1>3. CASE RecordInSlots
  <2>1. PICK e \in ShredEvent : pending = <<e>>
    BY <1>3 DEF RecordInSlots, ReportTypeOK
  <2>2. pending' = <<>> /\ UNCHANGED <<shreds, agg, pass, readVars>>
    BY <1>1, <1>3, <2>1, SecondHalf
  <2> QED BY <1>1, <2>2 DEF ReportTypeOK, readVars
<1>4. CASE \/ \E e \in SlotEvent : RecordEntry(e)
           \/ \E e \in GrpcLatencyEvent : RecordGrpc(e)
  <2>1. UNCHANGED <<shreds, pending, agg, pass, readVars>>
    BY <1>1, <1>4, OtherEvents
  <2> QED BY <1>1, <2>1 DEF ReportTypeOK, readVars
<1>5. CASE Reading \/ UNCHANGED reportVars
  <2>1. UNCHANGED <<shreds, slots, pending>>
    BY <1>5, ReadingLeavesRegistry
  <2>2. \A s \in DOMAIN seen_slots' : seen_slots'[s] \in SlotRecord
    <3>1. CASE VisitSlot
      <4>1. PICK s \in DOMAIN slots : seen_slots' = Upsert(seen_slots, s, slots[s])
        BY <3>1 DEF VisitSlot
      <4>2. slots[s] \in SlotRecord
        BY <1>1 DEF RegTypeOK
      <4> QED BY <4>1, <4>2 DEF Upsert, ReportTypeOK
    <3>2. CASE ~VisitSlot
      <4>1. seen_slots' = seen_slots
        BY <1>5, <3>2 DEF Reading, JoinAggregator, ReadTotal, VisitShred,
           ReadSlotTotal, ReadGrpc, VisitForLog, LogWritten, reportVars, readVars
      <4> QED BY <4>1 DEF ReportTypeOK
    <3> QED BY <3>1, <3>2
  <2>3. pass' \in {"run", "total", "shreds", "slots", "log", "done"}
    BY <1>5 DEF Reading, JoinAggregator, ReadTotal, VisitShred, ReadSlotTotal,
       VisitSlot, ReadGrpc, VisitForLog, LogWritten, reportVars, ReportTypeOK
  <2>4. agg' = "joined" => pending' = <<>> /\ pass' # "run"
    <3>1. CASE JoinAggregator
      BY <2>1, <3>1 DEF JoinAggregator, Ended
    <3>2. CASE ~JoinAggregator
      <4>1. agg' = agg /\ (pass' = "run" => pass = "run")
        BY <1>5, <3>2 DEF Reading, ReadTotal, VisitShred, ReadSlotTotal, VisitSlot,
           ReadGrpc, VisitForLog, LogWritten, reportVars
      <4> QED BY <2>1, <4>1 DEF ReportTypeOK
    <3> QED BY <3>1, <3>2
  <2> QED BY <1>1, <2>1, <2>2, <2>3, <2>4 DEF ReportTypeOK
<1> QED BY <1>2, <1>3, <1>4, <1>5, ReportCases

\* What a map covers it still covers when its slots have gone down.
LEMMA CoversStays ==
    ASSUME ReportTypeOK, [ReportNext]_reportVars, NEW k, NEW t \in Nat, Covers(slots, k, t)
    PROVE  Covers(slots', k, t)
<1>1. /\ k.slot \in DOMAIN slots /\ slots[k.slot].first_shred_at <= t
      /\ k.slot \in DOMAIN slots'
      /\ slots'[k.slot].first_shred_at <= slots[k.slot].first_shred_at
  BY RegistryOnlyGrows DEF Covers
<1>2. slots[k.slot].first_shred_at \in Nat /\ slots'[k.slot].first_shred_at \in Nat
  BY <1>1, RegistryOnlyGrows, RegistryAssumption DEF ReportTypeOK, RegTypeOK, SlotRecord
<1> QED BY <1>1, <1>2 DEF Covers

LEMMA ArrivalTyped ==
    ASSUME NEW rec \in ShredRecord, NEW i \in DOMAIN rec.arrivals
    PROVE  rec.arrivals[i] \in Arrival /\ rec.arrivals[i].at \in Nat
<1>1. rec.arrivals \in Seq(Arrival)
  BY DEF ShredRecord
<1>2. rec.arrivals[i] \in Arrival
  BY <1>1
<1> QED BY <1>2, RegistryAssumption DEF Arrival

LEMMA OnlyPendingIsAheadNext ==
    ReportTypeOK /\ OnlyPendingIsAhead /\ [ReportNext]_reportVars => OnlyPendingIsAhead'
<1> SUFFICES ASSUME ReportTypeOK, OnlyPendingIsAhead, [ReportNext]_reportVars
             PROVE  OnlyPendingIsAhead'
  OBVIOUS
<1>1. RegTypeOK /\ \A k \in DOMAIN shreds : shreds[k] \in ShredRecord
  BY DEF ReportTypeOK, RegTypeOK
<1>2. ASSUME NEW k \in DOMAIN shreds, NEW i \in DOMAIN shreds[k].arrivals,
             Covers(slots, k, shreds[k].arrivals[i].at)
      PROVE  Covers(slots', k, shreds[k].arrivals[i].at)
  BY <1>1, <1>2, ArrivalTyped, CoversStays
<1>3. CASE \E e \in ShredEvent : RecordInShreds(e)
  <2>1. PICK e \in ShredEvent : RecordInShreds(e)
    BY <1>3
  <2>2. /\ DOMAIN shreds' = DOMAIN shreds \cup {e.key}
        /\ pending = <<>> /\ pending' = <<e>>
        /\ shreds'[e.key].arrivals[Len(shreds'[e.key].arrivals)] = ArrivalOf(e)
        /\ \A k \in DOMAIN shreds' : \A i \in DOMAIN shreds'[k].arrivals :
                 \/ /\ k \in DOMAIN shreds /\ i \in DOMAIN shreds[k].arrivals
                    /\ shreds'[k].arrivals[i] = shreds[k].arrivals[i]
                 \/ k = e.key /\ i = Len(shreds'[k].arrivals)
    BY <1>1, <2>1, FirstHalf
  <2>3. Head(pending') = e /\ pending' # <<>>
    BY <2>2
  <2>4. ASSUME NEW k \in DOMAIN shreds', NEW i \in DOMAIN shreds'[k].arrivals
        PROVE  \/ Covers(slots', k, shreds'[k].arrivals[i].at)
               \/ k = e.key /\ i = Len(shreds'[k].arrivals)
    BY <1>2, <2>2 DEF OnlyPendingIsAhead
  <2> QED BY <2>2, <2>3, <2>4 DEF OnlyPendingIsAhead, ArrivalOf, Covers
<1>4. CASE RecordInSlots
  <2>1. PICK e \in ShredEvent : pending = <<e>>
    BY <1>4 DEF RecordInSlots, ReportTypeOK
  <2>2. /\ pending' = <<>> /\ shreds' = shreds
        /\ Covers(slots', e.key, e.received_at)
    BY <1>1, <1>4, <2>1, SecondHalf
  <2>3. /\ Head(pending) = e /\ pending # <<>> /\ ArrivalOf(e).at = e.received_at
    BY <2>1 DEF ArrivalOf
  <2>4. ASSUME NEW k \in DOMAIN shreds, NEW i \in DOMAIN shreds[k].arrivals
        PROVE  Covers(slots', k, shreds[k].arrivals[i].at)
    <3>1. CASE Covers(slots, k, shreds[k].arrivals[i].at)
      BY <1>2, <3>1
    <3>2. CASE k = e.key /\ i = Len(shreds[k].arrivals)
      <4>1. shreds[k].arrivals[i].at = e.received_at
        BY <2>3, <3>2 DEF OnlyPendingIsAhead
      <4> QED BY <2>2, <3>2, <4>1
    <3> QED BY <2>3, <3>1, <3>2 DEF OnlyPendingIsAhead
  <2> QED BY <2>2, <2>4 DEF OnlyPendingIsAhead, Covers
<1>5. CASE UNCHANGED <<shreds, pending>>
  BY <1>2, <1>5 DEF OnlyPendingIsAhead, Covers, ArrivalOf
<1>6. CASE \/ \E e \in SlotEvent : RecordEntry(e)
           \/ \E e \in GrpcLatencyEvent : RecordGrpc(e)
  BY <1>1, <1>5, <1>6, OtherEvents
<1>7. CASE Reading \/ UNCHANGED reportVars
  BY <1>5, <1>7, ReadingLeavesRegistry
<1> QED BY <1>3, <1>4, <1>6, <1>7, ReportCases

\* The aggregator works on: what was read stays as it is.
LEMMA RecordingLeavesReads ==
    ASSUME ReportTypeOK, [ReportNext]_reportVars, ~Reading
    PROVE  UNCHANGED <<agg, pass, due, readVars>>
<1>1. RegTypeOK
  BY DEF ReportTypeOK
<1>2. ASSUME RecordInSlots PROVE UNCHANGED <<agg, pass, due, readVars>>
  BY <1>2 DEF RecordInSlots
<1>3. ASSUME NEW e \in ShredEvent, RecordInShreds(e)
      PROVE  UNCHANGED <<agg, pass, due, readVars>>
  BY <1>3 DEF RecordInShreds, AggNext
<1>4. UNCHANGED reportVars => UNCHANGED <<agg, pass, due, readVars>>
  BY DEF reportVars
<1>5. ASSUME \/ \E e \in SlotEvent : RecordEntry(e)
             \/ \E e \in GrpcLatencyEvent : RecordGrpc(e)
      PROVE  UNCHANGED <<agg, pass, due, readVars>>
  BY <1>1, <1>5, OtherEvents
<1> QED BY <1>2, <1>3, <1>4, <1>5, ReportCases

LEMMA ReadStaysPast ==
    ASSUME ReportTypeOK, [ReportNext]_reportVars, NEW map, ReadOf(map, shreds)
    PROVE  ReadOf(map, shreds')
<1> SUFFICES ASSUME NEW k \in DOMAIN map
             PROVE  /\ map[k] \in ShredRecord /\ k \in DOMAIN shreds'
                    /\ Earlier(map[k], shreds'[k])
  BY DEF ReadOf
<1>1. map[k] \in ShredRecord /\ k \in DOMAIN shreds /\ Earlier(map[k], shreds[k])
  BY DEF ReadOf
<1>2. k \in DOMAIN shreds' /\ Earlier(shreds[k], shreds'[k])
  BY <1>1, RegistryOnlyGrows
<1>3. shreds[k] \in ShredRecord /\ shreds'[k] \in ShredRecord
  BY <1>1, <1>2, RegistryOnlyGrows DEF ReportTypeOK, RegTypeOK
<1> QED BY <1>1, <1>2, <1>3, EarlierOrder

LEMMA ReadOneMore ==
    ASSUME ReportTypeOK, NEW map, ReadOf(map, shreds), NEW k \in DOMAIN shreds
    PROVE  /\ ReadOf(Upsert(map, k, shreds[k]), shreds)
           /\ DOMAIN Upsert(map, k, shreds[k]) = DOMAIN map \cup {k}
           /\ Upsert(map, k, shreds[k])[k] = shreds[k]
           /\ \A j \in DOMAIN map : j # k => Upsert(map, k, shreds[k])[j] = map[j]
           /\ Earlier(shreds[k], shreds[k])
<1>1. shreds[k] \in ShredRecord
  BY DEF ReportTypeOK, RegTypeOK
<1>2. Earlier(shreds[k], shreds[k])
  BY <1>1, EarlierOrder
<1> QED BY <1>1, <1>2 DEF ReadOf, Upsert

LEMMA ReadsArePastNext ==
    ReportTypeOK /\ ReadsArePast /\ [ReportNext]_reportVars => ReadsArePast'
<1> SUFFICES ASSUME ReportTypeOK, ReadsArePast, [ReportNext]_reportVars PROVE ReadsArePast'
  OBVIOUS
<1>1. ReadOf(seen_shreds, shreds') /\ ReadOf(logged, shreds')
  BY ReadStaysPast DEF ReadsArePast
<1>2. CASE UNCHANGED <<seen_shreds, logged>> /\ (pass' = pass /\ due' = due)
  BY <1>1, <1>2 DEF ReadsArePast, Earlier
<1>3. CASE ~Reading
  BY <1>2, <1>3, RecordingLeavesReads DEF readVars
<1>4. CASE JoinAggregator
  BY <1>1, <1>4 DEF JoinAggregator, readVars, ReadsArePast
<1>5. CASE ReadTotal
  BY <1>1, <1>5 DEF ReadTotal, ReadsArePast
<1>6. CASE VisitShred
  <2>1. PICK k \in DOMAIN shreds \ DOMAIN seen_shreds :
           seen_shreds' = Upsert(seen_shreds, k, shreds[k])
    BY <1>6 DEF VisitShred
  <2>2. /\ pass = "shreds" /\ pass' = pass /\ logged' = logged /\ shreds' = shreds
    BY <1>6 DEF VisitShred, aggVars, regVars
  <2>3. ReadOf(seen_shreds', shreds')
    BY <2>1, <2>2, ReadOneMore DEF ReadsArePast
  <2>4. DOMAIN logged = {}
    BY <2>2 DEF ReadsArePast
  <2> QED BY <1>1, <2>2, <2>3, <2>4 DEF ReadsArePast
<1>7. CASE ReadSlotTotal
  BY <1>1, <1>7 DEF ReadSlotTotal, ReadsArePast
<1>8. CASE VisitSlot
  BY <1>1, <1>8 DEF VisitSlot, ReadsArePast
<1>9. CASE ReadGrpc
  <2>1. /\ pass = "slots" /\ pass' = "log" /\ due' = DOMAIN shreds
        /\ UNCHANGED <<seen_shreds, logged>>
    BY <1>9 DEF ReadGrpc
  <2>2. DOMAIN seen_shreds \subseteq DOMAIN shreds
    BY DEF ReadsArePast, ReadOf
  <2> QED BY <1>1, <2>1, <2>2 DEF ReadsArePast
<1>10. CASE VisitForLog
  <2>1. PICK k \in DOMAIN shreds \ DOMAIN logged :
           logged' = Upsert(logged, k, shreds[k]) /\ due' = due \ {k}
    BY <1>10 DEF VisitForLog
  <2>2. /\ pass = "log" /\ pass' = pass /\ seen_shreds' = seen_shreds
        /\ shreds' = shreds
    BY <1>10 DEF VisitForLog, aggVars, regVars
  <2>3. /\ ReadOf(logged', shreds) /\ DOMAIN logged' = DOMAIN logged \cup {k}
        /\ logged'[k] = shreds[k]
        /\ \A j \in DOMAIN logged : logged'[j] = logged[j]
    <3> DEFINE more == Upsert(logged, k, shreds[k])
    <3>1. ReadOf(logged, shreds) /\ k \in DOMAIN shreds /\ k \notin DOMAIN logged
      BY <2>1 DEF ReadsArePast
    <3>2. /\ ReadOf(more, shreds) /\ DOMAIN more = DOMAIN logged \cup {k}
          /\ more[k] = shreds[k]
          /\ \A j \in DOMAIN logged : j # k => more[j] = logged[j]
      BY <3>1, ReadOneMore
    <3> HIDE DEF more
    <3> QED BY <2>1, <3>1, <3>2 DEF more
  <2>4. ASSUME NEW j \in DOMAIN seen_shreds \cap DOMAIN logged'
        PROVE  Earlier(seen_shreds[j], logged'[j])
    <3>1. CASE j = k
      BY <2>3, <2>4, <3>1 DEF ReadsArePast, ReadOf
    <3>2. CASE j # k
      BY <2>3, <2>4, <3>2 DEF ReadsArePast
    <3> QED BY <3>1, <3>2
  <2> QED BY <1>1, <2>1, <2>2, <2>3, <2>4 DEF ReadsArePast
<1>11. CASE LogWritten
  BY <1>1, <1>11 DEF LogWritten, readVars, ReadsArePast
<1> QED BY <1>3, <1>4, <1>5, <1>6, <1>7, <1>8, <1>9, <1>10, <1>11 DEF Reading

LEMMA TotalIsVisitedNext ==
    ReportTypeOK /\ ReadsArePast /\ TotalIsVisited /\ [ReportNext]_reportVars
        => TotalIsVisited'
<1> SUFFICES ASSUME ReportTypeOK, ReadsArePast, TotalIsVisited, [ReportNext]_reportVars
             PROVE  TotalIsVisited'
  OBVIOUS
<1> DEFINE Visited == DOMAIN seen_shreds \cup (IF pass = "shreds" THEN due ELSE {})
           Counts(D) == /\ total_unique_shreds = Cardinality(D)
                        /\ agg = "joined" => D = DOMAIN shreds
                        /\ D \subseteq Visited
<1>1. /\ DOMAIN shreds \subseteq DOMAIN shreds'
      /\ agg = "joined" => shreds' = shreds /\ agg' = "joined"
  BY RegistryOnlyGrows
<1>2. ASSUME total_unique_shreds' = total_unique_shreds, agg' = agg,
             pass \notin {"run", "total"}, Visited \subseteq Visited'
      PROVE  TotalIsVisited'
  <2>1. PICK D \in SUBSET DOMAIN shreds : Counts(D)
    BY <1>2 DEF TotalIsVisited
  <2> HIDE DEF Visited
  <2>2. D \in SUBSET DOMAIN shreds' /\ Counts(D)'
    BY <1>1, <1>2, <2>1
  <2> QED BY <2>2 DEF TotalIsVisited, Visited
<1>3. CASE ~Reading
  BY <1>2, <1>3, RecordingLeavesReads DEF readVars, TotalIsVisited
<1>4. CASE JoinAggregator
  BY <1>4 DEF JoinAggregator, TotalIsVisited
<1>5. CASE ReadTotal
  <2>1. /\ total_unique_shreds' = Cardinality(DOMAIN shreds)
        /\ pass' = "shreds" /\ due' = DOMAIN shreds /\ shreds' = shreds
    BY <1>5 DEF ReadTotal, aggVars, regVars
  <2> QED BY <2>1 DEF TotalIsVisited
<1>6. CASE VisitShred
  <2>1. PICK k \in DOMAIN shreds :
           seen_shreds' = Upsert(seen_shreds, k, shreds[k]) /\ due' = due \ {k}
    BY <1>6 DEF VisitShred
  <2>2. /\ pass = "shreds" /\ pass' = "shreds" /\ agg' = agg
        /\ total_unique_shreds' = total_unique_shreds
    BY <1>6 DEF VisitShred
  <2>3. DOMAIN seen_shreds' = DOMAIN seen_shreds \cup {k}
    BY <2>1 DEF Upsert
  <2> QED BY <1>2, <2>1, <2>2, <2>3
<1>7. CASE ReadSlotTotal
  BY <1>2, <1>7 DEF ReadSlotTotal
<1>8. CASE VisitSlot
  BY <1>2, <1>8 DEF VisitSlot
<1>9. CASE ReadGrpc
  BY <1>2, <1>9 DEF ReadGrpc
<1>10. CASE VisitForLog
  BY <1>2, <1>10 DEF VisitForLog
<1>11. CASE LogWritten
  BY <1>2, <1>11 DEF LogWritten, readVars
<1> QED BY <1>3, <1>4, <1>5, <1>6, <1>7, <1>8, <1>9, <1>10, <1>11 DEF Reading

-----------------------------------------------------------------------------
\* The position a of an arrival counted, and its time.
IsPosition(a) == \E k \in DOMAIN seen_shreds : a \in {k} \X DOMAIN seen_shreds[k].arrivals

LEMMA AheadOf ==
    ASSUME NEW a
    PROVE  LET t == seen_shreds[a[1]].arrivals[a[2]].at
           IN  a \in Ahead <=>
                  /\ IsPosition(a)
                  /\ ~Covers(seen_slots, a[1], t)
                  /\ pass = "slots" => ~(a[1].slot \in due /\ Covers(slots, a[1], t))
<1> DEFINE P == UNION {{k} \X DOMAIN seen_shreds[k].arrivals : k \in DOMAIN seen_shreds}
<1>1. a \in P <=> IsPosition(a)
  BY DEF IsPosition
<1> HIDE DEF P
<1>2. Ahead = {b \in P : LET t == seen_shreds[b[1]].arrivals[b[2]].at
                        IN  /\ ~Covers(seen_slots, b[1], t)
                            /\ pass = "slots"
                                 => ~(b[1].slot \in due /\ Covers(slots, b[1], t))}
  BY DEF Ahead, P
<1> QED BY <1>1, <1>2

LEMMA PositionTime ==
    ASSUME ReportTypeOK, ReadsArePast, NEW a, IsPosition(a)
    PROVE  /\ a[1] \in DOMAIN seen_shreds /\ a[2] \in DOMAIN seen_shreds[a[1]].arrivals
           /\ a = <<a[1], a[2]>>
           /\ seen_shreds[a[1]].arrivals[a[2]].at \in Nat
           /\ a[1] \in DOMAIN shreds /\ a[2] \in DOMAIN shreds[a[1]].arrivals
           /\ seen_shreds[a[1]].arrivals[a[2]] = shreds[a[1]].arrivals[a[2]]
<1>1. PICK k \in DOMAIN seen_shreds : a \in {k} \X DOMAIN seen_shreds[k].arrivals
  BY DEF IsPosition
<1>2. PICK i \in DOMAIN seen_shreds[k].arrivals : a = <<k, i>>
  BY <1>1
<1>3. /\ seen_shreds[k] \in ShredRecord /\ k \in DOMAIN shreds
      /\ Earlier(seen_shreds[k], shreds[k]) /\ shreds[k] \in ShredRecord
  BY DEF ReadsArePast, ReadOf, ReportTypeOK, RegTypeOK
<1> DEFINE u == seen_shreds[k].arrivals
           v == shreds[k].arrivals
<1>4. u \in Seq(Arrival) /\ v \in Seq(Arrival)
  BY <1>3 DEF ShredRecord
<1>5. Len(u) <= Len(v) /\ i \in DOMAIN u /\ u[i] = v[i]
  BY <1>2, <1>3 DEF Earlier
<1>6. u[i].at \in Nat
  BY <1>2, <1>3, ArrivalTyped
<1> HIDE DEF u, v
<1>7. i \in DOMAIN v
  <2>1. /\ DOMAIN u = 1..Len(u) /\ DOMAIN v = 1..Len(v)
        /\ Len(u) \in Nat /\ Len(v) \in Nat
    BY <1>4
  <2> QED BY <1>5, <2>1
<1>8. a[1] = k /\ a[2] = i
  BY <1>2
<1> QED BY <1>1, <1>2, <1>3, <1>5, <1>6, <1>7, <1>8 DEF u, v

\* Only the arrival between the two maps is ahead when the slots are read.
LEMMA AheadAtFirst ==
    ASSUME ReportTypeOK, OnlyPendingIsAhead, ReadsArePast,
           NEW a, IsPosition(a), ~Covers(slots, a[1], seen_shreds[a[1]].arrivals[a[2]].at)
    PROVE  /\ pending # <<>>
           /\ a = <<Head(pending).key, Len(shreds[Head(pending).key].arrivals)>>
  BY PositionTime DEF OnlyPendingIsAhead

LEMMA AtMostOneAheadNext ==
    ASSUME ReportTypeOK, OnlyPendingIsAhead, ReadsArePast, AtMostOneAhead,
           [ReportNext]_reportVars
    PROVE  AtMostOneAhead'
<1> DEFINE at(a) == seen_shreds[a[1]].arrivals[a[2]].at
\* A step that leaves the shreds as they were read adds nothing to Ahead.
<1>1. ASSUME Ahead' \subseteq Ahead, agg' = agg, pass \in {"slots", "log", "done"}
      PROVE  AtMostOneAhead'
  BY <1>1 DEF AtMostOneAhead
<1>2. ASSUME UNCHANGED <<seen_shreds, seen_slots, due, pass>> PROVE Ahead' \subseteq Ahead
  <2> SUFFICES ASSUME NEW a \in Ahead' PROVE a \in Ahead
    OBVIOUS
  <2>1. /\ IsPosition(a) /\ ~Covers(seen_slots, a[1], at(a))
        /\ pass = "slots" => ~(a[1].slot \in due /\ Covers(slots', a[1], at(a)))
    BY <1>2 DEF Ahead, IsPosition, Covers
  <2>2. Covers(slots, a[1], at(a)) => Covers(slots', a[1], at(a))
    BY <2>1, PositionTime, CoversStays
  <2> QED BY <2>1, <2>2, AheadOf
<1>3. CASE ~Reading
  <2>1. UNCHANGED <<agg, pass, due, readVars>>
    BY <1>3, RecordingLeavesReads
  <2>2. UNCHANGED <<seen_shreds, seen_slots, due, pass, agg>>
    BY <2>1 DEF readVars
  <2> QED BY <1>1, <1>2, <2>2 DEF AtMostOneAhead
<1>4. CASE JoinAggregator \/ ReadTotal \/ VisitShred
  BY <1>4 DEF JoinAggregator, ReadTotal, VisitShred, AtMostOneAhead
<1>5. CASE ReadSlotTotal
  <2>1. /\ pass' = "slots" /\ due' = DOMAIN slots /\ agg' = agg
        /\ UNCHANGED <<seen_shreds, seen_slots, slots>>
    BY <1>5 DEF ReadSlotTotal, aggVars, regVars
  <2>2. ASSUME NEW a \in Ahead'
        PROVE  /\ pending # <<>>
               /\ a = <<Head(pending).key, Len(shreds[Head(pending).key].arrivals)>>
    <3>1. IsPosition(a) /\ ~(a[1].slot \in DOMAIN slots /\ Covers(slots, a[1], at(a)))
      BY <2>1, <2>2 DEF Ahead, IsPosition, Covers
    <3> QED BY <3>1, AheadAtFirst DEF Covers
  <2>3. \A a, b \in Ahead' : a = b
    BY <2>2
  <2>4. agg' = "joined" => Ahead' = {}
    BY <2>1, <2>2 DEF ReportTypeOK
  <2> QED BY <2>3, <2>4 DEF AtMostOneAhead
<1>6. CASE VisitSlot
  <2>1. PICK s \in DOMAIN slots \ DOMAIN seen_slots :
           seen_slots' = Upsert(seen_slots, s, slots[s]) /\ due' = due \ {s}
    BY <1>6 DEF VisitSlot
  <2>2. /\ pass = "slots" /\ pass' = pass /\ agg' = agg
        /\ UNCHANGED <<seen_shreds, slots>>
    BY <1>6 DEF VisitSlot, aggVars, regVars
  <2>3. ASSUME NEW a \in Ahead' PROVE a \in Ahead
    <3>1. /\ IsPosition(a) /\ ~Covers(seen_slots', a[1], at(a))
          /\ ~(a[1].slot \in due' /\ Covers(slots, a[1], at(a)))
      BY <2>2, <2>3 DEF Ahead, IsPosition, Covers
    <3>2. Covers(seen_slots, a[1], at(a)) => Covers(seen_slots', a[1], at(a))
      BY <2>1 DEF Upsert, Covers
    <3>3. a[1].slot = s /\ Covers(slots, a[1], at(a)) => Covers(seen_slots', a[1], at(a))
      BY <2>1 DEF Upsert, Covers
    <3>4. ~(a[1].slot \in due /\ Covers(slots, a[1], at(a)))
      BY <2>1, <3>1, <3>3
    <3> QED BY <3>1, <3>2, <3>4, AheadOf
  <2> QED BY <1>1, <2>2, <2>3
<1>7. CASE ReadGrpc
  <2>1. /\ pass = "slots" /\ due = {} /\ pass' = "log" /\ agg' = agg
        /\ UNCHANGED <<seen_shreds, seen_slots>>
    BY <1>7 DEF ReadGrpc
  <2>2. Ahead' \subseteq Ahead
    BY <2>1, AheadOf DEF Ahead, IsPosition, Covers
  <2> QED BY <1>1, <2>1, <2>2
<1>8. CASE VisitForLog
  <2>1. /\ pass = "log" /\ pass' = "log" /\ agg' = agg
        /\ UNCHANGED <<seen_shreds, seen_slots>>
    BY <1>8 DEF VisitForLog
  <2>2. Ahead' \subseteq Ahead
    BY <2>1, AheadOf DEF Ahead, IsPosition, Covers
  <2> QED BY <1>1, <2>1, <2>2
<1>9. CASE LogWritten
  <2>1. /\ pass = "log" /\ pass' = "done" /\ agg' = agg
        /\ UNCHANGED <<seen_shreds, seen_slots>>
    BY <1>9 DEF LogWritten, readVars
  <2>2. Ahead' \subseteq Ahead
    BY <2>1, AheadOf DEF Ahead, IsPosition, Covers
  <2> QED BY <1>1, <2>1, <2>2
<1> QED BY <1>3, <1>4, <1>5, <1>6, <1>7, <1>8, <1>9 DEF Reading

LEMMA PassesInit == ReportInit => PassesInv
<1> SUFFICES ASSUME ReportInit PROVE PassesInv
  OBVIOUS
<1>1. DOMAIN EmptyMap = {}
  BY DEF EmptyMap
<1>2. /\ pending = <<>> /\ agg = "running" /\ pass = "run"
      /\ shreds = EmptyMap /\ slots = EmptyMap /\ grpc_latencies = EmptyMap
      /\ seen_shreds = EmptyMap /\ seen_slots = EmptyMap /\ logged = EmptyMap
  BY DEF ReportInit, RegInit
<1>3. ReportTypeOK
  BY <1>1, <1>2, FS_EmptySet DEF ReportTypeOK, RegTypeOK
<1>4. OnlyPendingIsAhead /\ ReadsArePast
  BY <1>1, <1>2 DEF OnlyPendingIsAhead, ReadsArePast, ReadOf
<1>5. TotalIsVisited /\ AtMostOneAhead
  BY <1>2 DEF TotalIsVisited, AtMostOneAhead
<1> QED BY <1>3, <1>4, <1>5 DEF PassesInv

LEMMA PassesNext == PassesInv /\ [ReportNext]_reportVars => PassesInv'
  BY ReportTypeNext, OnlyPendingIsAheadNext, ReadsArePastNext, TotalIsVisitedNext,
     AtMostOneAheadNext DEF PassesInv

LEMMA ReportPasses == ReportSpec => []PassesInv
  BY PassesInit, PassesNext, PTL DEF ReportSpec

-----------------------------------------------------------------------------
(* What is made of the shreds as read is a matter of Stats, and what is    *)
(* proved there of a record holds of the records read.                     *)
SP == INSTANCE StatsProofs WITH shreds <- seen_shreds, slots <- seen_slots,
                                grpc_latencies <- seen_grpc

LEMMA LogOfRead ==
    ASSUME NEW rec \in SP!ShredRecord
    PROVE  /\ DOMAIN SP!BySource(rec.arrivals)
                 = {src \in ShredSource : SP!ArrivalsFrom(rec, src) # {}}
           /\ \A src \in DOMAIN SP!BySource(rec.arrivals) :
                 SP!BySource(rec.arrivals)[src] = SP!EarliestFrom(rec, src)
  BY SP!LogOfRecord, RegistryAssumption, Zenon

LEMMA EarliestOfRead ==
    ASSUME NEW rec \in SP!ShredRecord, NEW src, SP!ArrivalsFrom(rec, src) # {}
    PROVE  /\ SP!EarliestFrom(rec, src) \in Nat
           /\ \A i \in SP!ArrivalsFrom(rec, src) :
                 SP!EarliestFrom(rec, src) <= rec.arrivals[i].at
  BY SP!EarliestFromFacts, RegistryAssumption, Zenon

LEMMA LeastOfRead ==
    ASSUME NEW S \in SUBSET Nat, S # {}
    PROVE  SP!Min(S) \in S /\ \A y \in S : SP!Min(S) <= y
  BY SP!MinFacts, RegistryAssumption, Zenon

LEMMA SameFigures ==
    /\ SP!ShredRecord = ShredRecord
    /\ \A r, src : SP!ArrivalsFrom(r, src) = Stat!ArrivalsFrom(r, src)
    /\ \A r, src : SP!EarliestFrom(r, src) = Stat!EarliestFrom(r, src)
    /\ \A r, src : Log!EarliestFrom(r, src) = Stat!EarliestFrom(r, src)
    /\ \A a : SP!BySource(a) = Log!BySource(a)
<1>1. SP!ShredRecord = ShredRecord
  BY DEF SP!ShredRecord, ShredRecord, SP!Arrival, Arrival
<1>2. \A r, src : SP!ArrivalsFrom(r, src) = Stat!ArrivalsFrom(r, src)
  BY DEF SP!ArrivalsFrom, Stat!ArrivalsFrom
<1>3. \A r, src : SP!EarliestFrom(r, src) = Stat!EarliestFrom(r, src)
  BY DEF SP!EarliestFrom, Stat!EarliestFrom, SP!ArrivalsFrom, Stat!ArrivalsFrom,
     SP!Min, Stat!Min
<1>4. \A r, src : Log!EarliestFrom(r, src) = Stat!EarliestFrom(r, src)
  BY DEF Log!EarliestFrom, Stat!EarliestFrom, Log!ArrivalsFrom, Stat!ArrivalsFrom,
     Log!Min, Stat!Min
<1>5. \A a : SP!BySource(a) = Log!BySource(a)
  BY Zenon DEF SP!BySource, Log!BySource, SP!EarliestPerSource, Log!EarliestPerSource,
     SP!Upsert, Log!Upsert, SP!NoEntries, Log!NoEntries
<1> QED BY <1>1, <1>2, <1>3, <1>4, <1>5

(* A record read again later has an earliest arrival of a source that is   *)
(* no later.                                                               *)
LEMMA EarliestOnlyFalls ==
    ASSUME NEW old \in ShredRecord, NEW new \in ShredRecord, Earlier(old, new),
           NEW src, Stat!ArrivalsFrom(old, src) # {}
    PROVE  /\ Stat!ArrivalsFrom(new, src) # {}
           /\ Stat!EarliestFrom(old, src) \in Nat /\ Stat!EarliestFrom(new, src) \in Nat
           /\ Stat!EarliestFrom(new, src) <= Stat!EarliestFrom(old, src)
<1> DEFINE u == old.arrivals
           v == new.arrivals
           times == {u[i].at : i \in Stat!ArrivalsFrom(old, src)}
<1>1. u \in Seq(Arrival) /\ v \in Seq(Arrival)
  BY DEF ShredRecord
<1>2. Len(u) <= Len(v) /\ \A i \in DOMAIN u : u[i] = v[i]
  BY DEF Earlier
<1>3. \A i \in Stat!ArrivalsFrom(old, src) : i \in DOMAIN u /\ u[i].source = src
  BY DEF Stat!ArrivalsFrom
<1>4. \A i : i \in DOMAIN v /\ v[i].source = src => i \in Stat!ArrivalsFrom(new, src)
  BY DEF Stat!ArrivalsFrom
<1>5. times # {} /\ times \in SUBSET Nat
  BY <1>3, ArrivalTyped
<1>6. Stat!EarliestFrom(old, src) = SP!Min(times)
  BY DEF Stat!EarliestFrom, Stat!Min, SP!Min
<1>7. SP!Min(times) \in times
  BY <1>5, LeastOfRead
<1>8. PICK i \in Stat!ArrivalsFrom(old, src) : Stat!EarliestFrom(old, src) = u[i].at
  BY <1>6, <1>7
<1> HIDE DEF u, v, times
<1>9. i \in DOMAIN v
  <2>1. /\ DOMAIN u = 1..Len(u) /\ DOMAIN v = 1..Len(v)
        /\ Len(u) \in Nat /\ Len(v) \in Nat
    BY <1>1
  <2> QED BY <1>2, <1>3, <2>1
<1>10. i \in Stat!ArrivalsFrom(new, src) /\ v[i].at = u[i].at
  BY <1>2, <1>3, <1>4, <1>9
<1>11. Stat!EarliestFrom(new, src) \in Nat /\ Stat!EarliestFrom(new, src) <= v[i].at
  BY <1>10, EarliestOfRead, SameFigures DEF v
<1>12. Stat!EarliestFrom(old, src) \in Nat
  BY EarliestOfRead, SameFigures
<1> QED BY <1>8, <1>10, <1>11, <1>12

(* The log has every shred of the tables, with the same winner and with no *)
(* larger delta.                                                           *)
LEMMA LogCoversTables ==
    ASSUME ReportTypeOK, ReadsArePast, pass = "done", NEW k \in DOMAIN seen_shreds
    PROVE  /\ k \in DOMAIN logged
           /\ logged[k].first_source = seen_shreds[k].first_source
           /\ \A src \in ShredSource : k \in Stat!ReceivedBy(src) =>
                 Log!LogEntry(k).deltas[src] <= Stat!SourceStats(src).latency_ns[k]
<1> DEFINE old == seen_shreds[k]
           new == logged[k]
<1>1. k \in DOMAIN logged
  BY DEF ReadsArePast
<1>2. old \in ShredRecord /\ new \in ShredRecord /\ Earlier(old, new)
  BY <1>1 DEF ReadsArePast, ReadOf
<1>3. new.first_source = old.first_source /\ new.first_seen = old.first_seen
  BY <1>2 DEF Earlier
<1>4. old.first_seen \in Nat
  BY <1>2, RegistryAssumption DEF ShredRecord
<1>5. ASSUME NEW src \in ShredSource, k \in Stat!ReceivedBy(src)
      PROVE  Log!LogEntry(k).deltas[src] <= Stat!SourceStats(src).latency_ns[k]
  <2>1. Stat!ArrivalsFrom(old, src) # {}
    BY <1>5 DEF Stat!ReceivedBy
  <2>2. Stat!SourceStats(src).latency_ns[k] = Stat!Delta(old, src)
    BY <1>5 DEF Stat!SourceStats
  <2> HIDE DEF old, new
  <2>3. /\ Stat!ArrivalsFrom(new, src) # {}
        /\ Stat!EarliestFrom(old, src) \in Nat /\ Stat!EarliestFrom(new, src) \in Nat
        /\ Stat!EarliestFrom(new, src) <= Stat!EarliestFrom(old, src)
    BY <1>2, <2>1, EarliestOnlyFalls
  <2>4. /\ src \in DOMAIN Log!BySource(new.arrivals)
        /\ Log!BySource(new.arrivals)[src] = Stat!EarliestFrom(new, src)
    <3>1. new \in SP!ShredRecord
      BY <1>2, SameFigures
    <3>2. DOMAIN SP!BySource(new.arrivals)
             = {s \in ShredSource : SP!ArrivalsFrom(new, s) # {}}
      BY <3>1, LogOfRead
    <3>3. src \in DOMAIN SP!BySource(new.arrivals)
      BY <2>3, <3>2, SameFigures
    <3>4. SP!BySource(new.arrivals)[src] = SP!EarliestFrom(new, src)
      BY <3>1, <3>3, LogOfRead
    <3> QED BY <3>3, <3>4, SameFigures
  <2>5. Log!LogEntry(k).deltas[src]
           = Log!duration_since(Stat!EarliestFrom(new, src), new.first_seen)
    BY <2>4 DEF Log!LogEntry, new
  <2>6. Stat!Delta(old, src) = Stat!duration_since(Stat!EarliestFrom(old, src),
                                                   old.first_seen)
    BY DEF Stat!Delta
  <2>7. Log!LogEntry(k).deltas[src] <= Stat!Delta(old, src)
    BY <1>3, <1>4, <2>3, <2>5, <2>6 DEF Log!duration_since, Stat!duration_since
  <2> QED BY <2>2, <2>7
<1> QED BY <1>1, <1>3, <1>5

(* What a source received and what it missed are the shreds visited.       *)
LEMMA ReceivedAndMissed ==
    ASSUME IsFiniteSet(DOMAIN seen_shreds), NEW src
    PROVE  /\ Stat!SourceStats(src).received \in Nat
           /\ Stat!SourceStats(src).missed \in Nat
           /\ Stat!SourceStats(src).received + Stat!SourceStats(src).missed
                 = Cardinality(DOMAIN seen_shreds)
<1> DEFINE D == DOMAIN seen_shreds
           R == Stat!ReceivedBy(src)
<1>1. R \subseteq D
  BY DEF Stat!ReceivedBy
<1>2. /\ Stat!SourceStats(src).received = Cardinality(R)
      /\ Stat!SourceStats(src).missed = Cardinality(D \ R)
  <2>1. \A S : Stat!Cardinality(S) = Cardinality(S)
    BY DEF Stat!Cardinality, Cardinality
  <2>2. /\ Stat!SourceStats(src).received = Stat!Cardinality(R)
        /\ Stat!SourceStats(src).missed = Stat!Cardinality(D \ R)
    BY DEF Stat!SourceStats
  <2> QED BY <2>1, <2>2
<1> HIDE DEF D, R
<1>3. IsFiniteSet(D)
  BY DEF D
<1>4. /\ IsFiniteSet(R) /\ IsFiniteSet(D \ R)
  BY <1>1, <1>3, FS_Subset
<1>5. Cardinality(R) \in Nat /\ Cardinality(D \ R) \in Nat
  BY <1>4, FS_CardinalityType
<1>6. Cardinality(D) = Cardinality(R) + Cardinality(D \ R)
  <2>1. D = R \cup (D \ R) /\ R \cap (D \ R) = {}
    BY <1>1
  <2>2. Cardinality(R \cup (D \ R))
           = Cardinality(R) + Cardinality(D \ R) - Cardinality(R \cap (D \ R))
    BY <1>4, FS_Union
  <2>3. Cardinality(R \cap (D \ R)) = 0
    BY <2>1, FS_EmptySet
  <2>4. Cardinality(D) = Cardinality(R \cup (D \ R))
    BY <2>1
  <2> QED BY <1>5, <2>2, <2>3, <2>4
<1> QED BY <1>2, <1>5, <1>6 DEF D

(* The header's total is the number of shreds visited, or less when more   *)
(* of them have arrived meanwhile.                                         *)
LEMMA TotalIsAtMostVisited ==
    ASSUME ReportTypeOK, ReadsArePast, TotalIsVisited, pass = "done"
    PROVE  /\ IsFiniteSet(DOMAIN seen_shreds)
           /\ total_unique_shreds \in Nat
           /\ Cardinality(DOMAIN seen_shreds) \in Nat
           /\ total_unique_shreds <= Cardinality(DOMAIN seen_shreds)
           /\ agg = "joined" => total_unique_shreds = Cardinality(DOMAIN seen_shreds)
<1>1. DOMAIN seen_shreds \subseteq DOMAIN shreds
  BY DEF ReadsArePast, ReadOf
<1>2. IsFiniteSet(DOMAIN seen_shreds)
  BY <1>1, FS_Subset DEF ReportTypeOK
<1>3. PICK D \in SUBSET DOMAIN shreds :
         /\ total_unique_shreds = Cardinality(D)
         /\ agg = "joined" => D = DOMAIN shreds
         /\ D \subseteq DOMAIN seen_shreds
  BY DEF TotalIsVisited
<1>4. /\ IsFiniteSet(D) /\ Cardinality(D) <= Cardinality(DOMAIN seen_shreds)
  BY <1>2, <1>3, FS_Subset
<1>5. Cardinality(D) \in Nat /\ Cardinality(DOMAIN seen_shreds) \in Nat
  BY <1>2, <1>4, FS_CardinalityType
<1>6. agg = "joined" => D = DOMAIN seen_shreds
  BY <1>1, <1>3
<1> QED BY <1>2, <1>3, <1>4, <1>5, <1>6

LEMMA RowOfSource ==
    ASSUME NEW n \in DOMAIN sources
    PROVE  \E src : sources[n] = Stat!SourceStats(src)
<1> DEFINE ids == SetToSeq(ShredSource)
<1>1. sources = [m \in DOMAIN ids |-> Stat!SourceStats(ids[m])]
  BY DEF sources
<1> HIDE DEF ids
<1> QED BY <1>1

(* At most one arrival counted is ahead of its slot.                       *)
LEMMA TornIsAhead ==
    ASSUME ReportTypeOK, ReadsArePast, AtMostOneAhead, pass = "done"
    PROVE  Cardinality(Torn) <= IF agg = "joined" THEN 0 ELSE 1
<1> DEFINE P == UNION {{k} \X DOMAIN seen_shreds[k].arrivals : k \in DOMAIN seen_shreds}
<1>1. Torn = {a \in P : a[1].slot \in DOMAIN seen_slots =>
                  seen_slots[a[1].slot].first_shred_at
                     > seen_shreds[a[1]].arrivals[a[2]].at}
  BY DEF Torn
<1>2. \A a : a \in P <=> IsPosition(a)
  BY DEF IsPosition
<1> HIDE DEF P
<1>3. ASSUME NEW a \in Torn PROVE a \in Ahead
  <2>1. /\ IsPosition(a)
        /\ a[1].slot \in DOMAIN seen_slots =>
              seen_slots[a[1].slot].first_shred_at > seen_shreds[a[1]].arrivals[a[2]].at
    BY <1>1, <1>2, <1>3
  <2>2. seen_shreds[a[1]].arrivals[a[2]].at \in Nat
    BY <2>1, PositionTime
  <2>3. a[1].slot \in DOMAIN seen_slots => seen_slots[a[1].slot].first_shred_at \in Nat
    BY RegistryAssumption DEF ReportTypeOK, SlotRecord
  <2>4. ~Covers(seen_slots, a[1], seen_shreds[a[1]].arrivals[a[2]].at)
    BY <2>1, <2>2, <2>3 DEF Covers
  <2> QED BY <2>1, <2>4, AheadOf
<1>4. /\ \A a, b \in Torn : a = b
      /\ agg = "joined" => Torn = {}
  BY <1>3 DEF AtMostOneAhead
<1> HIDE DEF Torn
<1>5. CASE Torn = {}
  BY <1>5, FS_EmptySet
<1>6. CASE Torn # {}
  <2>1. \E x : Torn = {x}
    BY <1>4, <1>6
  <2>2. Cardinality(Torn) = 1
    BY <2>1, FS_Singleton
  <2> QED BY <1>4, <1>6, <2>2
<1> QED BY <1>5, <1>6

LEMMA PassesAddUp == PassesInv => ReportAddsUp
<1> SUFFICES ASSUME PassesInv, pass = "done"
             PROVE  /\ \A n \in DOMAIN sources :
                          LET all == sources[n].received + sources[n].missed IN
                          /\ all >= total_unique_shreds
                          /\ agg = "joined" => all = total_unique_shreds
                    /\ Cardinality(Torn) <= IF agg = "joined" THEN 0 ELSE 1
                    /\ \A k \in DOMAIN seen_shreds :
                          /\ k \in DOMAIN logged
                          /\ logged[k].first_source = seen_shreds[k].first_source
                          /\ \A src \in ShredSource : k \in Stat!ReceivedBy(src) =>
                                Log!LogEntry(k).deltas[src]
                                    <= Stat!SourceStats(src).latency_ns[k]
  BY DEF ReportAddsUp
<1>1. ASSUME NEW n \in DOMAIN sources
      PROVE  /\ sources[n].received + sources[n].missed >= total_unique_shreds
             /\ agg = "joined" =>
                   sources[n].received + sources[n].missed = total_unique_shreds
  <2>1. PICK src : sources[n] = Stat!SourceStats(src)
    BY <1>1, RowOfSource
  <2>2. /\ IsFiniteSet(DOMAIN seen_shreds) /\ total_unique_shreds \in Nat
        /\ Cardinality(DOMAIN seen_shreds) \in Nat
        /\ total_unique_shreds <= Cardinality(DOMAIN seen_shreds)
        /\ agg = "joined" => total_unique_shreds = Cardinality(DOMAIN seen_shreds)
    BY TotalIsAtMostVisited DEF PassesInv
  <2>3. sources[n].received + sources[n].missed = Cardinality(DOMAIN seen_shreds)
    BY <2>1, <2>2, ReceivedAndMissed
  <2> QED BY <2>2, <2>3
<1>2. Cardinality(Torn) <= IF agg = "joined" THEN 0 ELSE 1
  BY TornIsAhead DEF PassesInv
<1>3. \A k \in DOMAIN seen_shreds :
         /\ k \in DOMAIN logged
         /\ logged[k].first_source = seen_shreds[k].first_source
         /\ \A src \in ShredSource : k \in Stat!ReceivedBy(src) =>
               Log!LogEntry(k).deltas[src] <= Stat!SourceStats(src).latency_ns[k]
  BY LogCoversTables DEF PassesInv
<1> QED BY <1>1, <1>2, <1>3

(* The report adds up, whenever and however its passes fall beside an      *)
(* aggregator that was left behind.                                        *)
THEOREM ReportFiguresAddUp == ReportSpec => []ReportAddsUp
  BY ReportPasses, PassesAddUp, PTL

-----------------------------------------------------------------------------
(* The least of some numbers, and the lesser of two.                       *)
LEMMA LeastFacts ==
    /\ \A S \in SUBSET Nat : S # {} => Min(S) \in S /\ \A y \in S : Min(S) <= y
    /\ \A m, n \in Nat : Min({m, n}) = IF m <= n THEN m ELSE n
<1>1. ASSUME NEW S \in SUBSET Nat, S # {}
      PROVE  Min(S) \in S /\ \A y \in S : Min(S) <= y
  <2>1. Min(S) = SP!Min(S)
    BY DEF Min, SP!Min
  <2> QED BY <1>1, <2>1, LeastOfRead
<1>2. ASSUME NEW m \in Nat, NEW n \in Nat
      PROVE  Min({m, n}) = IF m <= n THEN m ELSE n
  <2>1. Min({m, n}) \in {m, n} /\ \A y \in {m, n} : Min({m, n}) <= y
    BY <1>1
  <2> QED BY <2>1
<1> QED BY <1>1, <1>2

(* Sorting.  The rank of a position is the number of positions before it;  *)
(* as ranks differ, each is taken, and the sorted rows are the rows.       *)
RanksBefore(key, i) ==
    {j \in DOMAIN key : key[j] < key[i] \/ (key[j] = key[i] /\ j < i)}

LEMMA RanksDiffer ==
    ASSUME NEW I \in SUBSET Nat, IsFiniteSet(I), NEW key \in [I -> Int]
    PROVE  /\ \A i \in I : Cardinality(RanksBefore(key, i)) \in 0..(Cardinality(I) - 1)
           /\ \A i, j \in I :
                 Cardinality(RanksBefore(key, i)) = Cardinality(RanksBefore(key, j))
                    => i = j
<1>1. ASSUME NEW i \in I
      PROVE  /\ RanksBefore(key, i) \in SUBSET I /\ i \notin RanksBefore(key, i)
             /\ IsFiniteSet(RanksBefore(key, i))
             /\ Cardinality(RanksBefore(key, i)) \in 0..(Cardinality(I) - 1)
  <2>1. RanksBefore(key, i) \in SUBSET I /\ i \notin RanksBefore(key, i)
    BY DEF RanksBefore
  <2>2. /\ IsFiniteSet(RanksBefore(key, i))
        /\ Cardinality(RanksBefore(key, i)) <= Cardinality(I)
        /\ Cardinality(RanksBefore(key, i)) # Cardinality(I)
    BY <2>1, FS_Subset
  <2>3. Cardinality(RanksBefore(key, i)) \in Nat /\ Cardinality(I) \in Nat
    BY <2>2, FS_CardinalityType
  <2> QED BY <2>1, <2>2, <2>3
<1>2. ASSUME NEW i \in I, NEW j \in I, i \in RanksBefore(key, j)
      PROVE  Cardinality(RanksBefore(key, i)) # Cardinality(RanksBefore(key, j))
  <2>1. ASSUME NEW k \in RanksBefore(key, i) PROVE k \in RanksBefore(key, j)
    <3>1. /\ k \in I
          /\ key[k] < key[i] \/ (key[k] = key[i] /\ k < i)
          /\ key[i] < key[j] \/ (key[i] = key[j] /\ i < j)
      BY <1>2, <2>1 DEF RanksBefore
    <3>2. /\ key[i] \in Int /\ key[j] \in Int /\ key[k] \in Int
          /\ i \in Nat /\ j \in Nat /\ k \in Nat
      BY <3>1
    <3> QED BY <3>1, <3>2 DEF RanksBefore
  <2>2. RanksBefore(key, i) \in SUBSET RanksBefore(key, j)
    BY <2>1
  <2> QED BY <1>1, <1>2, <2>2, FS_Subset
<1>3. ASSUME NEW i \in I, NEW j \in I, i # j
      PROVE  i \in RanksBefore(key, j) \/ j \in RanksBefore(key, i)
  BY <1>3 DEF RanksBefore
<1> QED BY <1>1, <1>2, <1>3

LEMMA EachRankIsTaken ==
    ASSUME NEW I \in SUBSET Nat, IsFiniteSet(I), NEW key \in [I -> Int],
           NEW n \in 1..Cardinality(I)
    PROVE  \E i \in I : Cardinality(RanksBefore(key, i)) = n - 1
<1> DEFINE N == Cardinality(I)
           f == [i \in I |-> Cardinality(RanksBefore(key, i)) + 1]
<1>1. N \in Nat
  BY FS_CardinalityType
<1>2. /\ \A i \in I : Cardinality(RanksBefore(key, i)) \in 0..(N - 1)
      /\ \A i, j \in I :
            Cardinality(RanksBefore(key, i)) = Cardinality(RanksBefore(key, j)) => i = j
  BY RanksDiffer
<1>3. IsFiniteSet(1..N) /\ Cardinality(1..N) = N
  BY <1>1, FS_Interval
<1> HIDE DEF N
<1>4. \A i \in I : Cardinality(RanksBefore(key, i)) + 1 \in 1..N
  BY <1>1, <1>2
<1>5. \A i, j \in I : f[i] = f[j] => i = j
  BY <1>1, <1>2
<1>6. f \in [I -> 1..N]
  BY <1>4
<1>7. f \in Injection(I, 1..N)
  BY <1>5, <1>6 DEF Injection, IsInjective
<1>8. f \in Surjection(I, 1..N)
  BY <1>3, <1>7, FS_Injection DEF N
<1>9. PICK i \in I : f[i] = n
  BY <1>8 DEF Surjection, N
<1> QED BY <1>1, <1>2, <1>9 DEF N

LEMMA SortedRows ==
    ASSUME NEW I \in SUBSET Nat, IsFiniteSet(I), NEW key \in [I -> Int], NEW rows
    PROVE  ToSet(StableSort(rows, key)) = {rows[i] : i \in I}
<1> DEFINE N == Cardinality(I)
           At(n) == CHOOSE i \in I : Cardinality(RanksBefore(key, i)) = n - 1
<1>1. StableSort(rows, key) = [n \in 1..N |-> rows[At(n)]]
  BY DEF StableSort, RanksBefore
<1>2. ASSUME NEW n \in 1..N
      PROVE  At(n) \in I /\ Cardinality(RanksBefore(key, At(n))) = n - 1
  BY EachRankIsTaken
<1>3. ASSUME NEW i \in I PROVE \E n \in 1..N : At(n) = i
  <2> DEFINE n == Cardinality(RanksBefore(key, i)) + 1
  <2>1. N \in Nat /\ Cardinality(RanksBefore(key, i)) \in 0..(N - 1)
    BY RanksDiffer, FS_CardinalityType
  <2>2. n \in 1..N /\ n - 1 = Cardinality(RanksBefore(key, i))
    BY <2>1
  <2>3. At(n) \in I /\ Cardinality(RanksBefore(key, At(n)))
                         = Cardinality(RanksBefore(key, i))
    BY <1>2, <2>2
  <2> HIDE DEF n, At
  <2>4. At(n) = i
    BY <2>3, RanksDiffer
  <2> QED BY <2>2, <2>4
<1> HIDE DEF At, N
<1>4. /\ DOMAIN StableSort(rows, key) = 1..N
      /\ \A n \in 1..N : StableSort(rows, key)[n] = rows[At(n)]
  BY <1>1
<1>5. ToSet(StableSort(rows, key)) = {StableSort(rows, key)[n] : n \in 1..N}
  BY <1>4 DEF ToSet
<1>6. ASSUME NEW n \in 1..N PROVE StableSort(rows, key)[n] \in {rows[i] : i \in I}
  BY <1>2, <1>4
<1>7. ASSUME NEW i \in I PROVE rows[i] \in {StableSort(rows, key)[n] : n \in 1..N}
  BY <1>3, <1>4
<1> QED BY <1>5, <1>6, <1>7

(* The ids in a sequence: each of them at one place.                       *)
LEMMA IdsOf ==
    ASSUME NEW S, IsFiniteSet(S), NEW ids, ids = SetToSeq(S)
    PROVE  /\ IsFiniteSet(DOMAIN ids) /\ DOMAIN ids \in SUBSET Nat
           /\ \A n \in DOMAIN ids : ids[n] \in S
           /\ \A s \in S : \E n \in DOMAIN ids : ids[n] = s
           /\ \A m, n \in DOMAIN ids : ids[m] = ids[n] => m = n
<1> DEFINE N == Cardinality(S)
<1>1. N \in Nat /\ ExistsBijection(1..N, S)
  BY FS_CardinalityType
<1>2. \E f \in [1..N -> S] : IsInjective(f)
  BY <1>1 DEF ExistsBijection, Bijection, Injection, IsInjective
<1>3. ids \in [1..N -> S] /\ IsInjective(ids)
  BY <1>2 DEF SetToSeq
<1>4. IsFiniteSet(1..N) /\ Cardinality(1..N) = N
  BY <1>1, FS_Interval
<1>5. ids \in Injection(1..N, S)
  BY <1>3 DEF Injection, IsInjective
<1>6. ids \in Surjection(1..N, S)
  BY <1>4, <1>5, FS_Injection
<1> QED BY <1>1, <1>3, <1>4, <1>6 DEF Surjection, IsInjective

-----------------------------------------------------------------------------
(* Some member of a finite set has the greatest value.                     *)
LEMMA GreatestValue ==
    ASSUME NEW S, IsFiniteSet(S), S # {}, NEW f \in [S -> Nat]
    PROVE  \E x \in S : \A y \in S : f[y] <= f[x]
<1> DEFINE Above(x) == {y \in S : f[y] > f[x]}
           counts == {Cardinality(Above(x)) : x \in S}
<1>1. \A x \in S : IsFiniteSet(Above(x)) /\ Cardinality(Above(x)) \in Nat
  BY FS_Subset, FS_CardinalityType
<1>2. counts \in SUBSET Nat /\ counts # {}
  BY <1>1
<1>3. PICK x \in S : \A y \in S : Cardinality(Above(x)) <= Cardinality(Above(y))
  <2>1. Min(counts) \in counts /\ \A c \in counts : Min(counts) <= c
    BY <1>2, LeastFacts
  <2> QED BY <2>1, ZenonT(30)
<1>4. ASSUME NEW y \in S, f[y] > f[x] PROVE FALSE
  <2>1. f[x] \in Nat /\ f[y] \in Nat
    OBVIOUS
  <2>2. Above(y) \in SUBSET Above(x)
    BY <1>4, <2>1
  <2>3. y \in Above(x) /\ y \notin Above(y)
    BY <1>4, <2>1
  <2> HIDE DEF Above
  <2>4. /\ Cardinality(Above(y)) <= Cardinality(Above(x))
        /\ Cardinality(Above(y)) # Cardinality(Above(x))
    BY <1>1, <2>2, <2>3, FS_Subset
  <2> QED BY <1>1, <1>3, <2>4
<1>5. \A y \in S : f[y] \in Nat /\ f[x] \in Nat
  OBVIOUS
<1> QED BY <1>4, <1>5

(* The n-th value of a table in ascending order is one of its values, and  *)
(* it is zero exactly if at least n of them are.                           *)
LEMMA AscendingFacts ==
    ASSUME NEW S, IsFiniteSet(S), NEW f \in [S -> Nat]
    PROVE  /\ DOMAIN Ascending(f) = 1..Cardinality(S)
           /\ Ascending(f) \in Seq(Nat) /\ Len(Ascending(f)) = Cardinality(S)
           /\ \A n \in 1..Cardinality(S) :
                 /\ Ascending(f)[n] \in Range(f)
                 /\ Ascending(f)[n] = 0 <=> n <= Cardinality({x \in S : f[x] = 0})
<1> DEFINE N == Cardinality(S)
           AtMost(v) == {x \in S : f[x] <= v}
           Values(n) == {v \in Range(f) : Cardinality(AtMost(v)) >= n}
<1>1. N \in Nat
  BY FS_CardinalityType
<1>2. Ascending(f) = [n \in 1..N |-> Min(Values(n))]
  BY DEF Ascending
<1>3. Range(f) = {f[x] : x \in S} /\ Range(f) \in SUBSET Nat
  BY DEF Range
<1>4. ASSUME NEW n \in 1..N
      PROVE  Min(Values(n)) \in Values(n) /\ \A v \in Values(n) : Min(Values(n)) <= v
  <2>1. S # {}
    BY <1>1, FS_EmptySet
  <2>2. PICK x \in S : \A y \in S : f[y] <= f[x]
    BY <2>1, GreatestValue
  <2>3. AtMost(f[x]) = S
    BY <2>2
  <2>4. f[x] \in Values(n)
    BY <1>1, <1>3, <2>3
  <2>5. Values(n) \in SUBSET Nat /\ Values(n) # {}
    BY <1>3, <2>4
  <2> HIDE DEF Values
  <2> QED BY <2>5, LeastFacts
<1>5. AtMost(0) = {x \in S : f[x] = 0}
  OBVIOUS
<1>6. IsFiniteSet(AtMost(0)) /\ Cardinality(AtMost(0)) \in Nat
  BY FS_Subset, FS_CardinalityType
<1>7. ASSUME NEW n \in 1..N
      PROVE  /\ Min(Values(n)) \in Range(f)
             /\ Min(Values(n)) = 0 <=> n <= Cardinality(AtMost(0))
  <2>1. Min(Values(n)) \in Range(f) /\ Min(Values(n)) \in Nat
    BY <1>3, <1>4
  <2>2. ASSUME Min(Values(n)) = 0 PROVE n <= Cardinality(AtMost(0))
    <3>1. 0 \in Values(n)
      BY <1>4, <2>2
    <3> HIDE DEF AtMost
    <3>2. Cardinality(AtMost(0)) >= n
      BY <3>1
    <3> QED BY <1>1, <1>6, <3>2
  <2>3. ASSUME n <= Cardinality(AtMost(0)) PROVE Min(Values(n)) = 0
    <3>1. AtMost(0) # {}
      BY <1>1, <1>6, <2>3, FS_EmptySet
    <3>2. 0 \in Range(f)
      BY <1>3, <3>1
    <3> HIDE DEF AtMost
    <3>3. 0 \in Values(n)
      BY <1>1, <1>6, <2>3, <3>2
    <3> HIDE DEF Values
    <3> QED BY <1>4, <2>1, <3>3
  <2> QED BY <2>1, <2>2, <2>3
<1> HIDE DEF Values, N, AtMost
<1>8. DOMAIN Ascending(f) = 1..N /\ \A n \in 1..N : Ascending(f)[n] = Min(Values(n))
  BY <1>2
<1>9. \A n \in 1..N : Min(Values(n)) \in Nat
  BY <1>3, <1>7
<1>10. Ascending(f) \in Seq(Nat) /\ Len(Ascending(f)) = N
  <2>1. Ascending(f) \in [1..N -> Nat]
    BY <1>2, <1>9
  <2> QED BY <1>1, <2>1
<1> QED BY <1>5, <1>7, <1>8, <1>10 DEF N

(* The ranks of the median and of the ninetieth percentile.                *)
LEMMA PercentileRank ==
    ASSUME NEW n \in Nat \ {0}, NEW p \in {500, 900}
    PROVE  /\ PercentileIndex(n, p) + 1 \in 1..n
           /\ \A z \in 0..n : PercentileIndex(n, p) + 1 <= z <=> z * 1000 >= n * p
<1> DEFINE rank == (n * p + 999) \div 1000
<1>1. CASE p = 500
  <2>1. /\ rank \in 1..n
        /\ \A z \in 0..n : rank <= z <=> z * 1000 >= n * 500
    BY <1>1
  <2>2. PercentileIndex(n, p) = Min({IF rank = 0 THEN 0 ELSE rank - 1, n - 1})
    BY DEF PercentileIndex
  <2> HIDE DEF rank
  <2>3. PercentileIndex(n, p) = Min({rank - 1, n - 1})
    BY <2>1, <2>2
  <2>4. rank - 1 \in Nat /\ n - 1 \in Nat /\ rank - 1 <= n - 1
    BY <2>1
  <2>5. PercentileIndex(n, p) = rank - 1
    BY <2>3, <2>4, LeastFacts
  <2> QED BY <1>1, <2>1, <2>5
<1>2. CASE p = 900
  <2>1. /\ rank \in 1..n
        /\ \A z \in 0..n : rank <= z <=> z * 1000 >= n * 900
    BY <1>2
  <2>2. PercentileIndex(n, p) = Min({IF rank = 0 THEN 0 ELSE rank - 1, n - 1})
    BY DEF PercentileIndex
  <2> HIDE DEF rank
  <2>3. PercentileIndex(n, p) = Min({rank - 1, n - 1})
    BY <2>1, <2>2
  <2>4. rank - 1 \in Nat /\ n - 1 \in Nat /\ rank - 1 <= n - 1
    BY <2>1
  <2>5. PercentileIndex(n, p) = rank - 1
    BY <2>3, <2>4, LeastFacts
  <2> QED BY <1>2, <2>1, <2>5
<1> QED BY <1>1, <1>2

\* A percentile of some values is one of them.
LEMMA PercentileIsValue ==
    ASSUME NEW S, IsFiniteSet(S), S # {}, NEW f \in [S -> Nat]
    PROVE  \A p \in {500, 900} : percentile(Ascending(f), p) \in Range(f)
<1> DEFINE v == Ascending(f)
           n == Cardinality(S)
<1>1. n \in Nat \ {0}
  BY FS_CardinalityType, FS_EmptySet
<1>2. v \in Seq(Nat) /\ Len(v) = n /\ \A m \in 1..n : v[m] \in Range(f)
  BY AscendingFacts
<1> HIDE DEF v, n
<1>3. ASSUME NEW p \in {500, 900} PROVE percentile(v, p) \in Range(f)
  <2> DEFINE m == PercentileIndex(n, p) + 1
  <2>1. percentile(v, p) = v[m]
    BY <1>1, <1>2 DEF percentile
  <2>2. m \in 1..n
    BY <1>1, PercentileRank
  <2> HIDE DEF m
  <2> QED BY <1>2, <2>1, <2>2
<1> QED BY <1>3 DEF v

(* A percentile is zero exactly if that share of the values is.            *)
LEMMA PercentileFacts ==
    ASSUME NEW S, IsFiniteSet(S), S # {}, NEW f \in [S -> Nat]
    PROVE  LET n == Cardinality(S)
               z == Cardinality({x \in S : f[x] = 0})
           IN  /\ n \in Nat \ {0} /\ z \in 0..n
               /\ \A p \in {500, 900} :
                     percentile(Ascending(f), p) = 0 <=> z * 1000 >= n * p
               /\ Last(Ascending(f)) = 0 <=> z = n
               /\ Ascending(f) # <<>>
<1> DEFINE v == Ascending(f)
           Zeros == {x \in S : f[x] = 0}
           n == Cardinality(S)
           z == Cardinality(Zeros)
<1>1. n \in Nat \ {0}
  BY FS_CardinalityType, FS_EmptySet
<1>2. z \in 0..n
  <2>1. IsFiniteSet(Zeros) /\ Cardinality(Zeros) <= Cardinality(S)
    BY FS_Subset
  <2> QED BY <1>1, <2>1, FS_CardinalityType
<1>3. /\ v \in Seq(Nat) /\ Len(v) = n
      /\ \A m \in 1..n : v[m] = 0 <=> m <= z
  BY AscendingFacts
<1> HIDE DEF v, n, z
<1>4. v # <<>>
  BY <1>1, <1>3
<1>5. ASSUME NEW p \in {500, 900}
      PROVE  percentile(v, p) = 0 <=> z * 1000 >= n * p
  <2> DEFINE m == PercentileIndex(n, p) + 1
  <2>1. percentile(v, p) = v[m]
    BY <1>3, <1>4 DEF percentile
  <2>2. m \in 1..n /\ (m <= z <=> z * 1000 >= n * p)
    BY <1>1, <1>2, PercentileRank
  <2> HIDE DEF m
  <2> QED BY <1>3, <2>1, <2>2
<1>6. Last(v) = 0 <=> z = n
  <2>1. Last(v) = v[n]
    BY <1>3 DEF Last
  <2>2. v[n] = 0 <=> n <= z
    BY <1>1, <1>3
  <2> QED BY <1>1, <1>2, <2>1, <2>2
<1> QED BY <1>1, <1>2, <1>4, <1>5, <1>6 DEF v, n, z

(* A rate in tenths of a percent, rounded to the nearest, is on the same   *)
(* side of a whole number of tenths as the share itself, or at it.         *)
LEMMA RateFacts ==
    ASSUME NEW n \in Nat \ {0}, NEW z \in 0..n
    PROVE  /\ \A k \in {500, 900, 1000} :
                 /\ z * 1000 >= n * k => Rate(z, n) >= k
                 /\ z * 1000 <= n * k => Rate(z, n) <= k
           /\ Rate(z, n) \in Nat
<1> DEFINE m == n * 2
           a == z * 2000 + n
           q == a \div m
           r == a % m
<1>1. a \in Nat /\ m \in Nat \ {0}
  OBVIOUS
<1>2. Rate(z, n) = q
  BY DEF Rate
<1> HIDE DEF a, m
<1>3. q \in Nat /\ r \in Nat /\ r < m /\ a = m * q + r
  BY <1>1
<1> HIDE DEF q, r
<1>4. ASSUME NEW k \in {500, 900, 1000}, z * 1000 >= n * k PROVE q >= k
  <2>1. a >= m * k
    BY <1>4 DEF a, m
  <2>2. ASSUME q < k PROVE FALSE
    <3>1. k >= q + 1
      BY <1>3, <2>2
    <3>2. m * k >= m * q + m
      BY <1>1, <1>3, <3>1
    <3> QED BY <1>1, <1>3, <2>1, <3>2
  <2> QED BY <1>3, <2>2
<1>5. ASSUME NEW k \in {500, 900, 1000}, z * 1000 <= n * k PROVE q <= k
  <2>1. a < m * k + m
    BY <1>5 DEF a, m
  <2>2. ASSUME q > k PROVE FALSE
    <3>1. q >= k + 1
      BY <1>3, <2>2
    <3>2. m * q >= m * k + m
      BY <1>1, <1>3, <3>1
    <3> QED BY <1>1, <1>3, <2>1, <3>2
  <2> QED BY <1>3, <2>2
<1> QED BY <1>2, <1>3, <1>4, <1>5

-----------------------------------------------------------------------------
\* A latency is a number, also that of a source without one.
LEMMA MedianIsNumber ==
    ASSUME NEW S, IsFiniteSet(S), NEW f \in [S -> Nat]
    PROVE  compute_percentiles(f).p50 \in Nat
<1>1. compute_percentiles(f).p50 = percentile(Ascending(f), 500)
  BY DEF compute_percentiles
<1>2. CASE S = {}
  <2>1. Ascending(f) \in Seq(Nat) /\ Len(Ascending(f)) = 0
    BY <1>2, AscendingFacts, FS_EmptySet
  <2>2. Ascending(f) = <<>>
    BY <2>1
  <2> QED BY <1>1, <2>2 DEF percentile
<1>3. CASE S # {}
  <2>1. \A p \in {500, 900} : percentile(Ascending(f), p) \in Range(f)
    BY <1>3, PercentileIsValue
  <2>2. Range(f) \in SUBSET Nat
    BY DEF Range
  <2> QED BY <1>1, <2>1, <2>2
<1> QED BY <1>2, <1>3

(* The figures of a shred-level source: its latencies are those of the     *)
(* shreds it received, its wins the shreds with none.                      *)
LEMMA SourceFigures ==
    ASSUME ReportTypeOK, ReadsArePast, NEW src
    PROVE  LET st == Stat!SourceStats(src)
               R  == Stat!ReceivedBy(src)
           IN  /\ R \in SUBSET DOMAIN seen_shreds /\ IsFiniteSet(R)
               /\ st.id = src /\ st.received = Cardinality(R)
               /\ st.latency_ns \in [R -> Nat]
               /\ st.wins = Cardinality({k \in R : st.latency_ns[k] = 0})
               /\ st.wins \in Nat /\ st.received \in Nat
               /\ st.data_shreds + st.code_shreds = st.received
<1> DEFINE st == Stat!SourceStats(src)
           R  == Stat!ReceivedBy(src)
<1>1. \A k \in DOMAIN seen_shreds : k \in DOMAIN shreds /\ seen_shreds[k] \in ShredRecord
  BY DEF ReadsArePast, ReadOf
<1>2. IsFiniteSet(DOMAIN seen_shreds)
  BY <1>1, FS_Subset DEF ReportTypeOK
<1>3. R \in SUBSET DOMAIN seen_shreds /\ IsFiniteSet(R)
  <2>1. R \in SUBSET DOMAIN seen_shreds
    BY DEF Stat!ReceivedBy
  <2> QED BY <1>2, <2>1, FS_Subset
<1>4. /\ st.id = src
      /\ st.received = Stat!Cardinality(R)
      /\ st.data_shreds = Stat!Cardinality({k \in R : k.shred_type = "Data"})
      /\ st.code_shreds = Stat!Cardinality({k \in R : k.shred_type = "Code"})
      /\ st.wins = Stat!Cardinality(Stat!WinsOf(src))
      /\ st.latency_ns = [k \in R |-> Stat!Delta(seen_shreds[k], src)]
  BY DEF Stat!SourceStats
<1>5. \A S : Stat!Cardinality(S) = Cardinality(S)
  BY DEF Stat!Cardinality, Cardinality
<1>6. ASSUME NEW k \in R PROVE Stat!Delta(seen_shreds[k], src) \in Nat
  <2> DEFINE rec == seen_shreds[k]
  <2>1. rec \in ShredRecord /\ Stat!ArrivalsFrom(rec, src) # {}
    BY <1>1, <1>3 DEF Stat!ReceivedBy
  <2>2. rec.first_seen \in Nat
    BY <2>1, RegistryAssumption DEF ShredRecord
  <2> HIDE DEF rec
  <2>3. Stat!EarliestFrom(rec, src) \in Nat
    BY <2>1, EarliestOfRead, SameFigures
  <2>4. Stat!Delta(rec, src) = Stat!duration_since(Stat!EarliestFrom(rec, src), rec.first_seen)
    BY DEF Stat!Delta
  <2>5. Stat!Delta(rec, src) \in Nat
    BY <2>2, <2>3, <2>4 DEF Stat!duration_since
  <2> QED BY <2>5 DEF rec
<1>7. st.latency_ns \in [R -> Nat]
  BY <1>4, <1>6
<1>8. Stat!WinsOf(src) = {k \in R : st.latency_ns[k] = 0}
  BY <1>4 DEF Stat!WinsOf
<1>9. st.wins = Cardinality({k \in R : st.latency_ns[k] = 0}) /\ st.wins \in Nat
  <2>1. IsFiniteSet({k \in R : st.latency_ns[k] = 0})
    BY <1>3, FS_Subset
  <2> QED BY <1>4, <1>5, <1>8, <2>1, FS_CardinalityType
<1>10. st.received = Cardinality(R) /\ st.received \in Nat
  BY <1>3, <1>4, <1>5, FS_CardinalityType
<1>11. st.data_shreds + st.code_shreds = st.received
  <2> DEFINE A == {k \in R : k.shred_type = "Data"}
             B == {k \in R : k.shred_type = "Code"}
  <2>1. \A k \in R : k.shred_type \in {"Data", "Code"}
    BY <1>1, <1>3 DEF ReportTypeOK, RegTypeOK, ShredKey, ShredType
  <2>2. R = A \cup B /\ A \cap B = {}
    BY <2>1
  <2>3. /\ IsFiniteSet(A) /\ Cardinality(A) \in Nat
        /\ IsFiniteSet(B) /\ Cardinality(B) \in Nat
    BY <1>3, FS_Subset, FS_CardinalityType
  <2>4. st.data_shreds = Cardinality(A) /\ st.code_shreds = Cardinality(B)
    BY <1>4, <1>5
  <2> HIDE DEF A, B
  <2>5. Cardinality(A \cup B) = Cardinality(A) + Cardinality(B) - Cardinality(A \cap B)
    BY <2>3, FS_Union
  <2>6. Cardinality(A \cap B) = 0
    BY <2>2, FS_EmptySet
  <2>7. Cardinality(R) = Cardinality(A) + Cardinality(B)
    BY <2>2, <2>3, <2>5, <2>6
  <2> QED BY <1>10, <2>4, <2>7
<1> QED BY <1>3, <1>4, <1>7, <1>9, <1>10, <1>11

(* A table sorted by any key has the row of a source where one looks.      *)
LEMMA RowOf ==
    ASSUME NEW I \in SUBSET Nat, IsFiniteSet(I), NEW key \in [I -> Int],
           NEW rows, NEW i \in I,
           \A j \in I : rows[j].source = rows[i].source => j = i
    PROVE  Row(StableSort(rows, key), rows[i].source) = rows[i]
<1>1. ToSet(StableSort(rows, key)) = {rows[j] : j \in I}
  BY SortedRows
<1>2. \E r \in {rows[j] : j \in I} : r.source = rows[i].source
  OBVIOUS
<1>3. \A r \in {rows[j] : j \in I} : r.source = rows[i].source => r = rows[i]
  OBVIOUS
<1> QED BY <1>1, <1>2, <1>3 DEF Row

(* The rows of a source in the four tables of the shred-level sources.     *)
LEMMA RowsOfSource ==
    ASSUME ReportTypeOK, ReadsArePast, IsFiniteSet(ShredSource),
           NEW total, NEW src \in ShredSource, NEW st, st = Stat!SourceStats(src)
    PROVE  /\ Row(LatencyRows(sources), src) =
                 [source |-> src, shreds |-> st.received,
                  p |-> compute_percentiles(st.latency_ns)]
           /\ Row(WinRows(sources), src) =
                 [source         |-> src,
                  wins           |-> st.wins,
                  total_received |-> st.received,
                  win_rate       |-> IF st.received > 0 THEN Rate(st.wins, st.received)
                                     ELSE NotAvailable]
           /\ Row(CoverageRows(sources, total), src) =
                 [source   |-> src,
                  received |-> st.received,
                  coverage |-> IF total = 0 THEN NotAvailable
                               ELSE Rate(st.received, total),
                  dupes    |-> st.dupes,
                  missed   |-> st.missed]
           /\ \E pcts : Row(TypeRows(sources), src) =
                 [source   |-> src,
                  data     |-> st.data_shreds,
                  data_pct |-> pcts[1],
                  code     |-> st.code_shreds,
                  code_pct |-> pcts[2]]
<1> DEFINE ids == SetToSeq(ShredSource)
           I == DOMAIN ids
<1>1. /\ IsFiniteSet(I) /\ I \in SUBSET Nat
      /\ \A s \in ShredSource : \E n \in I : ids[n] = s
      /\ \A m, n \in I : ids[m] = ids[n] => m = n
  BY IdsOf
<1>2. sources = [n \in I |-> Stat!SourceStats(ids[n])]
  BY DEF sources
<1> HIDE DEF ids, I
<1>3. PICK i \in I : ids[i] = src
  BY <1>1
<1>4. /\ DOMAIN sources = I /\ sources[i] = st
      /\ \A n \in I : /\ sources[n].id = ids[n]
                      /\ sources[n].received \in Nat /\ sources[n].wins \in Nat
                      /\ compute_percentiles(sources[n].latency_ns).p50 \in Nat
  <2>1. DOMAIN sources = I /\ sources[i] = st
    BY <1>2, <1>3
  <2>2. ASSUME NEW n \in I
        PROVE  /\ sources[n].id = ids[n]
               /\ sources[n].received \in Nat /\ sources[n].wins \in Nat
               /\ compute_percentiles(sources[n].latency_ns).p50 \in Nat
    <3> DEFINE R == Stat!ReceivedBy(ids[n])
    <3>1. sources[n] = Stat!SourceStats(ids[n])
      BY <1>2
    <3>2. /\ sources[n].id = ids[n] /\ IsFiniteSet(R)
          /\ sources[n].received \in Nat /\ sources[n].wins \in Nat
          /\ sources[n].latency_ns \in [R -> Nat]
      BY <3>1, SourceFigures
    <3> QED BY <3>2, MedianIsNumber
  <2> QED BY <2>1, <2>2
<1>5. \A n \in I : sources[n].id = src => n = i
  BY <1>1, <1>3, <1>4
<1>6. st.id = src
  BY SourceFigures
<1> HIDE DEF sources
<1>7. Row(LatencyRows(sources), src) =
         [source |-> src, shreds |-> st.received, p |-> compute_percentiles(st.latency_ns)]
  <2> DEFINE rows == [n \in I |-> [source |-> sources[n].id,
                                   shreds |-> sources[n].received,
                                   p      |-> compute_percentiles(sources[n].latency_ns)]]
             key == [n \in I |-> rows[n].p.p50]
  <2>1. LatencyRows(sources) = StableSort(rows, key)
    BY <1>4 DEF LatencyRows, ByMedian
  <2>2. key \in [I -> Int]
    BY <1>4
  <2>3. \A j \in I : rows[j].source = rows[i].source => j = i
    BY <1>4, <1>5, <1>6
  <2>4. rows[i].source = src
    BY <1>4, <1>6
  <2>5. rows[i] = [source |-> src, shreds |-> st.received,
                   p |-> compute_percentiles(st.latency_ns)]
    BY <1>4, <1>6
  <2> HIDE DEF rows, key
  <2> QED BY <1>1, <2>1, <2>2, <2>3, <2>4, <2>5, RowOf
<1>8. Row(WinRows(sources), src) =
         [source         |-> src,
          wins           |-> st.wins,
          total_received |-> st.received,
          win_rate       |-> IF st.received > 0 THEN Rate(st.wins, st.received)
                             ELSE NotAvailable]
  <2> DEFINE rows == [n \in I |->
                         [source         |-> sources[n].id,
                          wins           |-> sources[n].wins,
                          total_received |-> sources[n].received,
                          win_rate       |-> IF sources[n].received > 0
                                             THEN Rate(sources[n].wins, sources[n].received)
                                             ELSE NotAvailable]]
             key == [n \in I |-> -rows[n].wins]
  <2>1. WinRows(sources) = StableSort(rows, key)
    BY <1>4 DEF WinRows
  <2>2. key \in [I -> Int]
    BY <1>4
  <2>3. \A j \in I : rows[j].source = rows[i].source => j = i
    BY <1>4, <1>5, <1>6
  <2>4. rows[i].source = src
    BY <1>4, <1>6
  <2>5. rows[i] = [source         |-> src,
                   wins           |-> st.wins,
                   total_received |-> st.received,
                   win_rate       |-> IF st.received > 0 THEN Rate(st.wins, st.received)
                                      ELSE NotAvailable]
    BY <1>4, <1>6
  <2> HIDE DEF rows, key
  <2> QED BY <1>1, <2>1, <2>2, <2>3, <2>4, <2>5, RowOf
<1>9. Row(CoverageRows(sources, total), src) =
         [source   |-> src,
          received |-> st.received,
          coverage |-> IF total = 0 THEN NotAvailable ELSE Rate(st.received, total),
          dupes    |-> st.dupes,
          missed   |-> st.missed]
  <2> DEFINE rows == [n \in I |->
                         [source   |-> sources[n].id,
                          received |-> sources[n].received,
                          coverage |-> IF total = 0 THEN NotAvailable
                                       ELSE Rate(sources[n].received, total),
                          dupes    |-> sources[n].dupes,
                          missed   |-> sources[n].missed]]
             key == [n \in I |-> -sources[n].received]
  <2>1. CoverageRows(sources, total) = StableSort(rows, key)
    BY <1>4 DEF CoverageRows, ByReceived
  <2>2. key \in [I -> Int]
    BY <1>4
  <2>3. \A j \in I : rows[j].source = rows[i].source => j = i
    BY <1>4, <1>5, <1>6
  <2>4. rows[i].source = src
    BY <1>4, <1>6
  <2>5. rows[i] = [source   |-> src,
                   received |-> st.received,
                   coverage |-> IF total = 0 THEN NotAvailable ELSE Rate(st.received, total),
                   dupes    |-> st.dupes,
                   missed   |-> st.missed]
    BY <1>4, <1>6
  <2> HIDE DEF rows, key
  <2> QED BY <1>1, <2>1, <2>2, <2>3, <2>4, <2>5, RowOf
<1>10. \E pcts : Row(TypeRows(sources), src) =
          [source   |-> src,
           data     |-> st.data_shreds,
           data_pct |-> pcts[1],
           code     |-> st.code_shreds,
           code_pct |-> pcts[2]]
  <2> DEFINE both(s) == s.data_shreds + s.code_shreds
             rows == [n \in I |->
                         [source   |-> sources[n].id,
                          data     |-> sources[n].data_shreds,
                          data_pct |-> Percent(sources[n].data_shreds, both(sources[n])),
                          code     |-> sources[n].code_shreds,
                          code_pct |-> Percent(sources[n].code_shreds, both(sources[n]))]]
             key == [n \in I |-> -sources[n].received]
             pcts == <<Percent(st.data_shreds, both(st)), Percent(st.code_shreds, both(st))>>
  <2>1. TypeRows(sources) = StableSort(rows, key)
    BY <1>4 DEF TypeRows, ByReceived
  <2>2. key \in [I -> Int]
    BY <1>4
  <2>3. \A j \in I : rows[j].source = rows[i].source => j = i
    BY <1>4, <1>5, <1>6
  <2>4. rows[i].source = src
    BY <1>4, <1>6
  <2>5. rows[i] = [source   |-> src,
                   data     |-> st.data_shreds,
                   data_pct |-> pcts[1],
                   code     |-> st.code_shreds,
                   code_pct |-> pcts[2]]
    BY <1>4, <1>6
  <2> HIDE DEF rows, key, pcts
  <2> QED BY <1>1, <2>1, <2>2, <2>3, <2>4, <2>5, RowOf
<1> QED BY <1>7, <1>8, <1>9, <1>10

-----------------------------------------------------------------------------
(* What else the tables rest on: the slots and samples read are finitely   *)
(* many and typed, and whoever reports has joined the aggregator or not.   *)
FigureTypeOK ==
    /\ agg \in {"running", "joined", "detached"}
    /\ pass # "run" => agg # "running"
    /\ IsFiniteSet(DOMAIN slots) /\ IsFiniteSet(DOMAIN seen_slots)
    /\ \A src \in DOMAIN seen_grpc : seen_grpc[src] \in Seq(Latency)

LEMMA FigureTypeInit == ReportInit => FigureTypeOK
  BY FS_EmptySet DEF ReportInit, RegInit, EmptyMap, FigureTypeOK

LEMMA FigureTypeNext ==
    ReportTypeOK /\ FigureTypeOK /\ [ReportNext]_reportVars => FigureTypeOK'
<1> SUFFICES ASSUME ReportTypeOK, FigureTypeOK, [ReportNext]_reportVars
             PROVE  FigureTypeOK'
  OBVIOUS
<1>1. CASE \E e \in ShredEvent : RecordInShreds(e)
  BY <1>1 DEF RecordInShreds, AggNext, readVars, FigureTypeOK
<1>2. CASE RecordInSlots
  <2>1. DOMAIN slots' = DOMAIN slots \cup {Head(pending).key.slot}
    BY <1>2, SlotsWithEffect DEF RecordInSlots
  <2>2. IsFiniteSet(DOMAIN slots')
    BY <2>1, FS_AddElement DEF FigureTypeOK
  <2> QED BY <1>2, <2>2 DEF RecordInSlots, readVars, FigureTypeOK
<1>3. CASE \E e \in SlotEvent : RecordEntry(e)
  <2>1. PICK e \in SlotEvent : RecordEntry(e)
    BY <1>3
  <2>2. DOMAIN slots' = DOMAIN slots \cup {e.slot}
    BY <2>1, RecordSlotEventEffect DEF RecordEntry
  <2>3. IsFiniteSet(DOMAIN slots')
    BY <2>2, FS_AddElement DEF FigureTypeOK
  <2> QED BY <2>1, <2>3 DEF RecordEntry, AggNext, readVars, FigureTypeOK
<1>4. CASE \E e \in GrpcLatencyEvent : RecordGrpc(e)
  BY <1>4 DEF RecordGrpc, record_grpc_latency, AggNext, readVars, FigureTypeOK
<1>5. CASE Reading \/ UNCHANGED reportVars
  <2>1. UNCHANGED <<slots, grpc_latencies>>
    BY <1>5, ReadingLeavesRegistry
  <2>2. CASE JoinAggregator
    BY <2>1, <2>2 DEF JoinAggregator, readVars, FigureTypeOK
  <2>3. CASE VisitSlot
    <3>1. PICK s \in DOMAIN slots : seen_slots' = Upsert(seen_slots, s, slots[s])
      BY <2>3 DEF VisitSlot
    <3>2. DOMAIN seen_slots' = DOMAIN seen_slots \cup {s}
      BY <3>1 DEF Upsert
    <3>3. IsFiniteSet(DOMAIN seen_slots')
      BY <3>2, FS_AddElement DEF FigureTypeOK
    <3> QED BY <2>1, <2>3, <3>3 DEF VisitSlot, FigureTypeOK
  <2>4. CASE ReadGrpc
    <3>1. \A src \in DOMAIN grpc_latencies : grpc_latencies[src] \in Seq(Latency)
      BY DEF ReportTypeOK, RegTypeOK
    <3> QED BY <2>1, <2>4, <3>1 DEF ReadGrpc, FigureTypeOK
  <2>5. CASE ReadTotal \/ VisitShred \/ ReadSlotTotal \/ VisitForLog \/ LogWritten
             \/ UNCHANGED reportVars
    BY <2>1, <2>5 DEF ReadTotal, VisitShred, ReadSlotTotal, VisitForLog, LogWritten,
       reportVars, readVars, FigureTypeOK
  <2> QED BY <1>5, <2>2, <2>3, <2>4, <2>5 DEF Reading
<1> QED BY <1>1, <1>2, <1>3, <1>4, <1>5, ReportCases

LEMMA ReportFigureTypes == ReportSpec => []FigureTypeOK
  BY FigureTypeInit, FigureTypeNext, ReportPasses, PTL DEF ReportSpec, PassesInv

(* A table shows the rows it is given, in its order, but for those it      *)
(* leaves out.                                                             *)
LEMMA ShownRows ==
    ASSUME NEW I \in SUBSET Nat, IsFiniteSet(I), NEW shown \in SUBSET I, NEW rows,
           \A n \in shown : rows[n].p.p50 \in Nat,
           NEW r \in ToSet(ByMedian(rows, shown))
    PROVE  \E n \in shown : r = rows[n]
<1> DEFINE key == [n \in shown |-> rows[n].p.p50]
<1>1. key \in [shown -> Int] /\ IsFiniteSet(shown) /\ shown \in SUBSET Nat
  <2>1. IsFiniteSet(shown)
    BY FS_Subset
  <2>2. key \in [shown -> Int] /\ shown \in SUBSET Nat
    OBVIOUS
  <2> QED BY <2>1, <2>2
<1>2. ByMedian(rows, shown) = StableSort(rows, key)
  BY DEF ByMedian
<1> HIDE DEF key
<1>3. ToSet(ByMedian(rows, shown)) = {rows[n] : n \in shown}
  BY <1>1, <1>2, SortedRows
<1> QED BY <1>3

\* The median of some figures is one of them.
LEMMA MedianIsMeasured ==
    ASSUME NEW S, IsFiniteSet(S), S # {}, NEW f \in [S -> Nat]
    PROVE  compute_percentiles(f).p50 \in Range(f)
<1>1. \A p \in {500, 900} : percentile(Ascending(f), p) \in Range(f)
  BY PercentileIsValue
<1> QED BY <1>1 DEF compute_percentiles

(* The slot table: only sources with slots, and with a median of theirs.   *)
LEMMA SlotRowsMeasured ==
    ASSUME ReportTypeOK, FigureTypeOK, IsFiniteSet(EntrySource),
           NEW r \in ToSet(SlotRows(entry_sources))
    PROVE  r.p.p50 \in Range(Stat!EntrySourceStats(r.source).latency_ns)
<1> DEFINE ids == SetToSeq(EntrySource)
           I == DOMAIN ids
           rows == [n \in I |->
                       [source |-> entry_sources[n].id,
                        slots  |-> entry_sources[n].slots_seen,
                        p      |-> compute_percentiles(entry_sources[n].latency_ns)]]
           shown == {n \in I : rows[n].slots > 0}
<1>1. IsFiniteSet(I) /\ I \in SUBSET Nat
  BY IdsOf
<1>2. entry_sources = [n \in I |-> Stat!EntrySourceStats(ids[n])]
  BY DEF entry_sources
<1> HIDE DEF ids, I
<1>3. SlotRows(entry_sources) = ByMedian(rows, shown)
  BY <1>2 DEF SlotRows
<1>4. ASSUME NEW n \in I
      PROVE  /\ rows[n].source = ids[n]
             /\ rows[n].p.p50 \in Nat
             /\ rows[n].slots > 0 =>
                   rows[n].p.p50 \in Range(Stat!EntrySourceStats(ids[n]).latency_ns)
  <2> DEFINE st == Stat!EntrySourceStats(ids[n])
             S == Stat!SlotsSeenBy(ids[n])
  <2>1. /\ rows[n].source = st.id /\ rows[n].slots = st.slots_seen
        /\ rows[n].p = compute_percentiles(st.latency_ns)
    BY <1>2
  <2>2. /\ st.id = ids[n] /\ st.slots_seen = Stat!Cardinality(S)
        /\ st.latency_ns = [s \in S |-> Stat!EntryDelta(seen_slots[s], ids[n])]
    BY DEF Stat!EntrySourceStats
  <2>3. Stat!Cardinality(S) = Cardinality(S)
    BY DEF Stat!Cardinality, Cardinality
  <2>4. S \in SUBSET DOMAIN seen_slots
        /\ \A s \in S : ids[n] \in DOMAIN seen_slots[s].entry_arrivals
    BY DEF Stat!SlotsSeenBy
  <2>5. IsFiniteSet(S)
    BY <2>4, FS_Subset DEF FigureTypeOK
  <2>6. ASSUME NEW s \in S PROVE Stat!EntryDelta(seen_slots[s], ids[n]) \in Nat
    <3>1. seen_slots[s] \in SlotRecord
      BY <2>4 DEF ReportTypeOK
    <3>2. seen_slots[s].first_shred_at \in Nat
      BY <3>1, RegistryAssumption DEF SlotRecord
    <3>3. seen_slots[s].entry_arrivals[ids[n]] \in Nat
      <4>1. \E T \in SUBSET EntrySource : seen_slots[s].entry_arrivals \in [T -> Time]
        BY <3>1 DEF SlotRecord
      <4> QED BY <2>4, <4>1, RegistryAssumption
    <3> QED BY <3>2, <3>3 DEF Stat!EntryDelta, Stat!duration_since
  <2> HIDE DEF st, S, rows
  <2>7. st.latency_ns \in [S -> Nat]
    BY <2>2, <2>6
  <2>8. rows[n].p.p50 \in Nat
    BY <2>1, <2>5, <2>7, MedianIsNumber
  <2>9. ASSUME rows[n].slots > 0 PROVE rows[n].p.p50 \in Range(st.latency_ns)
    <3>1. S # {}
      BY <2>1, <2>2, <2>3, <2>9, FS_EmptySet
    <3> QED BY <2>1, <2>5, <2>7, <3>1, MedianIsMeasured
  <2> QED BY <2>1, <2>2, <2>8, <2>9 DEF st
<1>5. shown \in SUBSET I /\ \A n \in shown : rows[n].p.p50 \in Nat /\ rows[n].slots > 0
  BY <1>4
<1> HIDE DEF rows, shown
<1>6. PICK n \in shown : r = rows[n]
  BY <1>1, <1>3, <1>5, ShownRows
<1> QED BY <1>4, <1>5, <1>6

(* The overhead table: the same.                                           *)
LEMMA GrpcRowsMeasured ==
    ASSUME FigureTypeOK, IsFiniteSet(EntrySource),
           NEW r \in ToSet(GrpcRows(grpc_overhead))
    PROVE  r.p.p50 \in Range(seen_grpc[r.source])
<1> DEFINE G == Stat!GrpcOverheadSources
           ids == SetToSeq(G)
           I == DOMAIN ids
           rows == [n \in I |->
                       [source  |-> grpc_overhead[n].id,
                        samples |-> grpc_overhead[n].samples,
                        p       |-> compute_percentiles(grpc_overhead[n].latency_ns)]]
           shown == {n \in I : rows[n].samples > 0}
<1>1. G \in SUBSET EntrySource /\ G \in SUBSET DOMAIN seen_grpc /\ IsFiniteSet(G)
  BY FS_Subset DEF Stat!GrpcOverheadSources
<1>2. IsFiniteSet(I) /\ I \in SUBSET Nat /\ \A n \in I : ids[n] \in G
  BY <1>1, IdsOf
<1>3. grpc_overhead = [n \in I |-> [id         |-> ids[n],
                                    samples    |-> Len(seen_grpc[ids[n]]),
                                    latency_ns |-> seen_grpc[ids[n]]]]
  BY DEF grpc_overhead
<1> HIDE DEF ids, I, G
<1>4. GrpcRows(grpc_overhead) = ByMedian(rows, shown)
  BY <1>3 DEF GrpcRows
<1>5. ASSUME NEW n \in I
      PROVE  /\ rows[n].source = ids[n]
             /\ rows[n].p.p50 \in Nat
             /\ rows[n].samples > 0 => rows[n].p.p50 \in Range(seen_grpc[ids[n]])
  <2> DEFINE f == seen_grpc[ids[n]]
             S == 1..Len(f)
  <2>1. /\ rows[n].source = ids[n] /\ rows[n].samples = Len(f)
        /\ rows[n].p = compute_percentiles(f)
    BY <1>3
  <2>2. f \in Seq(Latency)
    BY <1>1, <1>2 DEF FigureTypeOK
  <2> HIDE DEF f, rows
  <2>3. f \in [S -> Nat] /\ Len(f) \in Nat
    <3>1. Len(f) \in Nat /\ f \in [1..Len(f) -> Latency]
      BY <2>2
    <3>2. Latency \subseteq Nat
      BY RegistryAssumption
    <3> QED BY <3>1, <3>2
  <2>4. IsFiniteSet(S)
    BY <2>3, FS_Interval
  <2>5. rows[n].samples > 0 => S # {}
    BY <2>1, <2>3
  <2> HIDE DEF S
  <2> QED BY <2>1, <2>3, <2>4, <2>5, MedianIsNumber, MedianIsMeasured DEF f
<1>6. shown \in SUBSET I /\ \A n \in shown : rows[n].p.p50 \in Nat /\ rows[n].samples > 0
  BY <1>5
<1> HIDE DEF rows, shown
<1>7. PICK n \in shown : r = rows[n]
  <2>1. r \in ToSet(ByMedian(rows, shown))
    BY <1>4
  <2>2. IsFiniteSet(I) /\ I \in SUBSET Nat /\ shown \in SUBSET I
    BY <1>2, <1>6
  <2>3. \A n \in shown : rows[n].p.p50 \in Nat
    BY <1>6
  <2> QED BY <2>1, <2>2, <2>3, ShownRows
<1> QED BY <1>5, <1>6, <1>7

(* What the tables say of a shred-level source.                            *)
LEMMA SourceTellsOneStory ==
    ASSUME PassesInv, FigureTypeOK, pass = "done", IsFiniteSet(ShredSource),
           NEW src \in ShredSource
    PROVE  OneStory(src)
<1> DEFINE st == Stat!SourceStats(src)
           R == Stat!ReceivedBy(src)
           p == compute_percentiles(st.latency_ns)
           lat == Row(LatencyRows(sources), src)
           win == Row(WinRows(sources), src)
           cov == Row(CoverageRows(sources, total_unique_shreds), src)
           typ == Row(TypeRows(sources), src)
<1>1. ReportTypeOK /\ ReadsArePast /\ TotalIsVisited
  BY DEF PassesInv
<1>2. /\ lat = [source |-> src, shreds |-> st.received, p |-> p]
      /\ win = [source         |-> src,
                wins           |-> st.wins,
                total_received |-> st.received,
                win_rate       |-> IF st.received > 0 THEN Rate(st.wins, st.received)
                                   ELSE NotAvailable]
      /\ cov = [source   |-> src,
                received |-> st.received,
                coverage |-> IF total_unique_shreds = 0 THEN NotAvailable
                             ELSE Rate(st.received, total_unique_shreds),
                dupes    |-> st.dupes,
                missed   |-> st.missed]
      /\ \E pcts : typ = [source   |-> src,
                          data     |-> st.data_shreds,
                          data_pct |-> pcts[1],
                          code     |-> st.code_shreds,
                          code_pct |-> pcts[2]]
  BY <1>1, RowsOfSource
<1>3. /\ lat.shreds = st.received /\ lat.p = p
      /\ win.total_received = st.received /\ win.wins = st.wins
      /\ st.received > 0 => win.win_rate = Rate(st.wins, st.received)
      /\ cov.missed = st.missed /\ cov.received = st.received
      /\ cov.coverage = IF total_unique_shreds = 0 THEN NotAvailable
                        ELSE Rate(st.received, total_unique_shreds)
      /\ typ.data = st.data_shreds /\ typ.code = st.code_shreds
  BY <1>2
<1>4. /\ IsFiniteSet(R) /\ st.received = Cardinality(R)
      /\ st.latency_ns \in [R -> Nat]
      /\ st.wins = Cardinality({k \in R : st.latency_ns[k] = 0})
      /\ st.wins \in Nat /\ st.received \in Nat
      /\ st.data_shreds + st.code_shreds = st.received
  BY <1>1, SourceFigures
<1> HIDE DEF lat, win, cov, typ
<1>5. ASSUME st.received > 0
      PROVE  SharesAgree(p, st.wins, st.received, win.win_rate)
  <2> DEFINE f == st.latency_ns
             n == st.received
             z == st.wins
  <2>1. R # {}
    BY <1>4, <1>5, FS_EmptySet
  <2>2. /\ p.p50 = percentile(Ascending(f), 500)
        /\ p.p90 = percentile(Ascending(f), 900)
        /\ p.max = IF Ascending(f) = <<>> THEN 0 ELSE Last(Ascending(f))
    BY DEF compute_percentiles
  <2> HIDE DEF st, R, f, n, z
  <2>3. f \in [R -> Nat] /\ n = Cardinality(R) /\ z = Cardinality({x \in R : f[x] = 0})
    BY <1>4 DEF f, n, z
  <2>4. /\ n \in Nat \ {0} /\ z \in 0..n
        /\ \A q \in {500, 900} : percentile(Ascending(f), q) = 0 <=> z * 1000 >= n * q
        /\ Last(Ascending(f)) = 0 <=> z = n
        /\ Ascending(f) # <<>>
    BY <1>4, <2>1, <2>3, PercentileFacts
  <2>0. n \in Nat \ {0} /\ z \in 0..n
    BY <2>4
  <2>5. /\ \A k \in {500, 900, 1000} :
              /\ z * 1000 >= n * k => Rate(z, n) >= k
              /\ z * 1000 <= n * k => Rate(z, n) <= k
        /\ Rate(z, n) \in Nat
    BY <2>0, RateFacts
  <2>6. win.win_rate = Rate(z, n)
    BY <1>3, <1>5 DEF z, n
  <2> HIDE DEF p
  <2>7. /\ p.p50 = 0 <=> z * 1000 >= n * 500
        /\ p.p90 = 0 <=> z * 1000 >= n * 900
        /\ p.max = 0 <=> z = n
    BY <2>2, <2>4
  <2> DEFINE w == win.win_rate
  <2>8. /\ z * 1000 >= n * 500 => w >= 500
        /\ z * 1000 <= n * 500 => w <= 500
        /\ z * 1000 >= n * 900 => w >= 900
        /\ z * 1000 <= n * 900 => w <= 900
        /\ z * 1000 >= n * 1000 => w >= 1000
        /\ z * 1000 <= n * 1000 => w <= 1000
        /\ w \in Nat
    BY <2>5, <2>6
  <2> HIDE DEF w
  <2>9. SharesAgree(p, z, n, w)
    BY <2>0, <2>7, <2>8 DEF SharesAgree
  <2> QED BY <2>9 DEF z, n, w
<1>6. st.received + st.missed = Cardinality(DOMAIN seen_shreds) /\ st.missed \in Nat
  <2>1. IsFiniteSet(DOMAIN seen_shreds)
    BY <1>1, TotalIsAtMostVisited
  <2> QED BY <2>1, ReceivedAndMissed
<1>7. agg = "joined" =>
         /\ st.received <= total_unique_shreds
         /\ total_unique_shreds > 0 => cov.coverage \in Nat /\ cov.coverage <= 1000
  <2> DEFINE n == total_unique_shreds
             m == st.received
  <2> HAVE agg = "joined"
  <2>1. n \in Nat /\ n = Cardinality(DOMAIN seen_shreds)
    BY <1>1, TotalIsAtMostVisited
  <2>2. m + st.missed = n /\ m \in Nat /\ st.missed \in Nat
    BY <1>4, <1>6, <2>1
  <2>3. n > 0 => cov.coverage = Rate(m, n)
    BY <1>3, <2>1
  <2> HIDE DEF st, m, n
  <2>4. m \in 0..n
    BY <2>1, <2>2
  <2>5. n > 0 => Rate(m, n) \in Nat /\ Rate(m, n) <= 1000
    BY <2>1, <2>4, RateFacts
  <2> QED BY <2>3, <2>4, <2>5 DEF m, n
<1>8. agg \in {"joined", "detached"}
  BY DEF FigureTypeOK
<1> HIDE DEF st, p
<1>9. /\ lat.shreds = st.received /\ lat.p = p
      /\ win.total_received = st.received /\ win.wins = st.wins
      /\ cov.missed = st.missed /\ cov.received = st.received
      /\ typ.data = st.data_shreds /\ typ.code = st.code_shreds
  BY <1>3
<1>10. lat.shreds > 0 =>
          SharesAgree(lat.p, win.wins, win.total_received, win.win_rate)
  BY <1>5, <1>9
<1>11. /\ lat.shreds = win.total_received
       /\ lat.shreds = typ.data + typ.code
       /\ lat.shreds + cov.missed = Cardinality(DOMAIN seen_shreds)
  BY <1>4, <1>6, <1>9
<1>12. /\ cov.received > total_unique_shreds => agg = "detached"
       /\ total_unique_shreds > 0 /\ cov.coverage > 1000 => agg = "detached"
  <2>1. CASE agg = "detached"
    BY <2>1
  <2>2. CASE agg = "joined"
    <3>1. total_unique_shreds \in Nat /\ st.received \in Nat
      BY <1>1, <1>4, TotalIsAtMostVisited
    <3>2. cov.received <= total_unique_shreds /\ cov.received \in Nat
      BY <1>7, <1>9, <2>2, <3>1
    <3>3. total_unique_shreds > 0 => ~(cov.coverage > 1000)
      BY <1>7, <2>2
    <3> QED BY <3>1, <3>2, <3>3
  <2> QED BY <1>8, <2>1, <2>2
<1> QED BY <1>10, <1>11, <1>12 DEF lat, win, cov, typ, OneStory

(* The tables of any report tell one story of each source, with any number *)
(* of sources, shreds and slots, and beside an aggregator that goes on.    *)
THEOREM ReportTablesTellOneStory ==
    ASSUME IsFiniteSet(ShredSource), IsFiniteSet(EntrySource)
    PROVE  ReportSpec => []TablesTellOneStory
<1>1. PassesInv /\ FigureTypeOK => TablesTellOneStory
  <2> HAVE PassesInv /\ FigureTypeOK
  <2>1. \A r \in ToSet(SlotRows(entry_sources)) :
           r.p.p50 \in Range(Stat!EntrySourceStats(r.source).latency_ns)
    BY SlotRowsMeasured DEF PassesInv
  <2>2. \A r \in ToSet(GrpcRows(grpc_overhead)) :
           r.p.p50 \in Range(seen_grpc[r.source])
    BY GrpcRowsMeasured
  <2>3. CASE pass = "done"
    BY <2>1, <2>2, <2>3, SourceTellsOneStory, Zenon DEF TablesTellOneStory
  <2>4. CASE pass # "done"
    BY <2>4 DEF TablesTellOneStory
  <2> QED BY <2>3, <2>4
<1> QED BY <1>1, ReportPasses, ReportFigureTypes, PTL
=============================================================================
