-------------------------- MODULE YellowstoneProofs --------------------------
(***************************************************************************)
(* TLAPS proofs about a Yellowstone subscription: what the window of entry *)
(* times holds, and what a gRPC overhead sample can be worth, for every    *)
(* set of slots, every window and every order of entries, account updates, *)
(* failures and reconnections.                                             *)
(***************************************************************************)
EXTENDS Yellowstone, WellFoundedInduction, TLAPS

(* A set of clock readings that are not in the future has a newest one.    *)
LEMMA NewestReading ==
    ASSUME NEW n \in Nat, NEW S \in SUBSET Nat, S # {}, \A t \in S : t <= n
    PROVE  Max(S) \in S /\ \A t \in S : t <= Max(S)
<1> DEFINE ages == {n - t : t \in S}
<1>1. ages \in SUBSET Nat /\ ages # {}
  <2>1. \A t \in S : n - t \in Nat
    OBVIOUS
  <2> QED BY <2>1
<1>2. PICK least \in ages : \A y \in ages : ~(<<y, least>> \in OpToRel(<, Nat))
  BY <1>1, NatLessThanWellFounded, WFMin
<1>3. PICK newest \in S : least = n - newest
  OBVIOUS
<1>4. ASSUME NEW t \in S PROVE newest >= t
  <2>1. n - t \in Nat /\ n - newest \in Nat /\ newest \in Nat /\ t \in Nat
    OBVIOUS
  <2>2. ~(n - t < n - newest)
    BY <1>2, <1>3, <2>1 DEF OpToRel
  <2> QED BY <2>1, <2>2
<1>5. \E x \in S : \A y \in S : x >= y
  BY <1>4
<1>6. Max(S) \in S /\ \A y \in S : Max(S) >= y
  BY <1>5 DEF Max
<1> QED BY <1>6

LEMMA NewerOfTwo ==
    ASSUME NEW m \in Nat, NEW n \in Nat
    PROVE  Max({m, n}) = IF m >= n THEN m ELSE n
<1>1. \E x \in {m, n} : \A y \in {m, n} : x >= y
  OBVIOUS
<1>2. Max({m, n}) \in {m, n} /\ \A y \in {m, n} : Max({m, n}) >= y
  BY <1>1 DEF Max
<1> QED BY <1>2

-----------------------------------------------------------------------------
(* The inductive invariant.  The clock bounds what the history holds ...   *)
Clocked ==
    /\ now \in Nat /\ connected_at \in Nat /\ connected_at <= now
    /\ max_slot_seen \in Nat
    /\ \A e \in entries : e.slot \in Nat /\ e.at \in Nat /\ e.at <= now

(* ... and the map holds slots, with times of this connection alone.       *)
MapOfThisConnection ==
    \A s \in DOMAIN entry_map :
        /\ s \in Nat
        /\ entry_map[s] \subseteq connected_at..now

YellowInv ==
    /\ Clocked
    /\ MapOfThisConnection
    /\ WindowBounded
    /\ WindowComplete

LEMMA YellowInvInit == YellowInit => YellowInv
  BY DEF YellowInit, YellowInv, Clocked, MapOfThisConnection, WindowBounded,
         WindowComplete, NoEntry

(* Retained keeps the times of a slot or drops the slot.                   *)
LEMMA WhatIsRetained ==
    ASSUME NEW map, NEW newest \in Nat, NEW slot,
           \A s \in DOMAIN map : s \in Nat
    PROVE  LET kept == Retained(map, newest, slot) IN
           /\ DOMAIN kept = {s \in DOMAIN map : newest > Window
                                                   => s + Window >= newest}
           /\ \A s \in DOMAIN kept : kept[s] = map[s]
<1>1. Window \in Nat
  BY YellowstoneAssumption
<1>2. CASE newest > Window
  <2>1. Retained(map, newest, slot)
           = [s \in {x \in DOMAIN map : x >= newest - Window} |-> map[s]]
    BY <1>2 DEF Retained
  <2>2. \A s \in DOMAIN map : s >= newest - Window <=> s + Window >= newest
    BY <1>1
  <2> QED BY <1>2, <2>1, <2>2
<1>3. CASE ~(newest > Window)
  BY <1>3 DEF Retained
<1> QED BY <1>2, <1>3

(* The map an entry leaves behind.                                         *)
LEMMA MapAfterEntry ==
    ASSUME NEW slot \in Slot, YellowInv, EntryUpdate(slot)
    PROVE  /\ max_slot_seen' \in Nat /\ slot \in Nat
           /\ max_slot_seen <= max_slot_seen' /\ slot <= max_slot_seen'
           /\ DOMAIN entry_map' =
                 {s \in DOMAIN entry_map \cup {slot} :
                     max_slot_seen' > Window => s + Window >= max_slot_seen'}
           /\ \A s \in DOMAIN entry_map' :
                 entry_map'[s] = Times(entry_map, s)
                                    \cup (IF s = slot THEN {now} ELSE {})
<1> DEFINE map == WithEntry(entry_map, slot, now)
<1>1. slot \in Nat /\ max_slot_seen \in Nat
  BY YellowstoneAssumption DEF YellowInv, Clocked
<1>2. max_slot_seen' = IF max_slot_seen >= slot THEN max_slot_seen ELSE slot
  BY <1>1, NewerOfTwo DEF EntryUpdate
<1>3. /\ DOMAIN map = DOMAIN entry_map \cup {slot}
      /\ \A s \in DOMAIN map :
            map[s] = Times(entry_map, s) \cup (IF s = slot THEN {now} ELSE {})
  BY DEF WithEntry
<1>4. \A s \in DOMAIN map : s \in Nat
  BY <1>1, <1>3 DEF YellowInv, MapOfThisConnection
<1>5. entry_map' = Retained(map, max_slot_seen', slot)
  BY DEF EntryUpdate
<1>6. max_slot_seen' \in Nat
  BY <1>1, <1>2
<1> HIDE DEF map
<1>7. /\ DOMAIN entry_map' = {s \in DOMAIN map :
             max_slot_seen' > Window => s + Window >= max_slot_seen'}
      /\ \A s \in DOMAIN entry_map' : entry_map'[s] = map[s]
  BY <1>4, <1>5, <1>6, WhatIsRetained
<1> QED BY <1>1, <1>2, <1>3, <1>6, <1>7

LEMMA EntryKeepsInv ==
    ASSUME NEW slot \in Slot, YellowInv, EntryUpdate(slot)
    PROVE  YellowInv'
<1> USE YellowstoneAssumption DEF YellowInv
<1>0. /\ max_slot_seen' \in Nat /\ slot \in Nat
      /\ max_slot_seen <= max_slot_seen' /\ slot <= max_slot_seen'
      /\ DOMAIN entry_map' =
            {s \in DOMAIN entry_map \cup {slot} :
                max_slot_seen' > Window => s + Window >= max_slot_seen'}
      /\ \A s \in DOMAIN entry_map' :
            entry_map'[s] = Times(entry_map, s)
                               \cup (IF s = slot THEN {now} ELSE {})
  BY MapAfterEntry
<1> USE <1>0
<1>1. UNCHANGED <<now, connected_at, conn>>
      /\ entries' = entries \cup {[slot |-> slot, at |-> now]}
  BY DEF EntryUpdate
<1>2. Clocked'
  BY <1>1 DEF Clocked
<1>3. ASSUME NEW s \in DOMAIN entry_map'
      PROVE  s \in Nat /\ entry_map'[s] \subseteq connected_at..now
  <2>1. Times(entry_map, s) \subseteq connected_at..now
    BY DEF Times, MapOfThisConnection
  <2>2. now \in connected_at..now
    BY DEF Clocked
  <2> QED BY <2>1, <2>2 DEF MapOfThisConnection
<1>4. MapOfThisConnection'
  BY <1>1, <1>3 DEF MapOfThisConnection
<1>5. WindowBounded'
  <2> SUFFICES ASSUME NEW s \in DOMAIN entry_map'
               PROVE  /\ s <= max_slot_seen'
                      /\ max_slot_seen' > Window => s + Window >= max_slot_seen'
    BY DEF WindowBounded
  <2>1. s = slot \/ (s \in DOMAIN entry_map /\ s \in Nat /\ s <= max_slot_seen)
    BY DEF WindowBounded, MapOfThisConnection
  <2>2. max_slot_seen \in Nat
    BY DEF Clocked
  <2> QED BY <2>1, <2>2
<1>6. WindowComplete'
  <2> SUFFICES ASSUME NEW e \in entries', conn = "streaming",
                      e.at > connected_at, e.slot + Window >= max_slot_seen'
               PROVE  e.at \in Times(entry_map', e.slot)
    BY <1>1 DEF WindowComplete
  <2>1. CASE e = [slot |-> slot, at |-> now]
    <3>1. slot \in DOMAIN entry_map'
      BY <2>1
    <3>2. now \in entry_map'[slot]
      BY <3>1
    <3> QED BY <2>1, <3>1, <3>2 DEF Times
  <2>2. CASE e \in entries
    <3>1. e.slot \in Nat /\ max_slot_seen \in Nat
      BY <2>2 DEF Clocked
    <3>2. e.at \in Times(entry_map, e.slot)
      BY <2>2, <3>1 DEF WindowComplete
    <3>3. e.slot \in DOMAIN entry_map'
      BY <3>2 DEF Times
    <3> QED BY <3>2, <3>3 DEF Times
  <2> QED BY <1>1, <2>1, <2>2
<1> QED BY <1>2, <1>4, <1>5, <1>6

LEMMA YellowInvNext == YellowInv /\ [YellowNext]_yellowVars => YellowInv'
<1> SUFFICES ASSUME YellowInv, [YellowNext]_yellowVars PROVE YellowInv'
  OBVIOUS
<1> USE DEF YellowInv, Clocked, MapOfThisConnection, WindowBounded, WindowComplete
<1>1. CASE Tick
  <2>1. \A s \in DOMAIN entry_map : connected_at..now \subseteq connected_at..now'
    BY <1>1 DEF Tick
  <2> QED BY <1>1, <2>1 DEF Tick
<1>2. CASE Cancel
  BY <1>2 DEF Cancel
<1>3. CASE Connect
  BY <1>3 DEF Connect, FreshMap, NoEntry
<1>4. CASE StreamError
  BY <1>4 DEF StreamError
<1>5. CASE Retry
  BY <1>5 DEF Retry
<1>6. CASE StreamDone
  BY <1>6 DEF StreamDone
<1>7. ASSUME NEW slot \in Slot, EntryUpdate(slot) PROVE YellowInv'
  BY <1>7, EntryKeepsInv
<1>8. ASSUME NEW e \in entries, NEW is_startup \in BOOLEAN,
             AccountUpdate(e.slot, e.at, is_startup)
      PROVE  YellowInv'
  BY <1>8 DEF AccountUpdate
<1>9. CASE UNCHANGED yellowVars
  BY <1>9 DEF yellowVars
<1> QED BY <1>1, <1>2, <1>3, <1>4, <1>5, <1>6, <1>7, <1>8, <1>9 DEF YellowNext

LEMMA YellowInvariant == YellowSpec => []YellowInv
  BY YellowInvInit, YellowInvNext, PTL DEF YellowSpec

(* entry_map is bounded by the window, in whatever order slots arrive and  *)
(* however often the stream breaks: nothing in the code caps it otherwise. *)
THEOREM YellowWindowBounded == YellowSpec => []WindowBounded
  BY YellowInvariant, PTL DEF YellowInv

(* No entry of the open connection that is inside the window is forgotten. *)
THEOREM YellowWindowComplete == YellowSpec => []WindowComplete
  BY YellowInvariant, PTL DEF YellowInv

-----------------------------------------------------------------------------
(* A sample that was taken is the time since the newest entry kept of the  *)
(* slot.                                                                   *)
LEMMA WhatIsSampled ==
    ASSUME YellowInv, [YellowNext]_yellowVars, sample' # sample, sample'.taken
    PROVE  \E e \in entries : \E newest \in Times(entry_map, e.slot) :
              /\ sample'.at = now /\ sample'.cause = e.at
              /\ sample'.latency_ns = now - newest
              /\ \A t \in Times(entry_map, e.slot) : t <= newest
<1>1. PICK e \in entries, is_startup \in BOOLEAN :
           AccountUpdate(e.slot, e.at, is_startup)
  BY DEF YellowNext, yellowVars, Tick, Cancel, Connect, StreamError, Retry,
         StreamDone, EntryUpdate
<1> DEFINE times == {t \in Times(entry_map, e.slot) : t <= now}
<1>2. /\ now \in Nat /\ connected_at \in Nat
      /\ Times(entry_map, e.slot) \subseteq connected_at..now
  BY DEF YellowInv, Clocked, MapOfThisConnection, Times
<1>3. times = Times(entry_map, e.slot) /\ times \in SUBSET Nat
      /\ \A t \in times : t <= now
  BY <1>2
<1>4. /\ sample'.at = now /\ sample'.cause = e.at /\ sample'.taken = (times # {})
      /\ sample'.latency_ns = IF times = {} THEN 0 ELSE now - Baseline(times)
  BY <1>1 DEF AccountUpdate
<1> HIDE DEF times
<1>5. Max(times) \in times /\ \A t \in times : t <= Max(times)
  BY <1>2, <1>3, <1>4, NewestReading
<1> QED BY <1>3, <1>4, <1>5 DEF Baseline

(* No sample is measured across an outage.                                 *)
THEOREM YellowSampleWithinConnection == YellowSpec => SampleWithinConnection
<1>1. ASSUME YellowInv, [YellowNext]_yellowVars, sample' # sample, sample'.taken
      PROVE  sample'.at - sample'.latency_ns >= connected_at
  <2>0. PICK e \in entries : \E newest \in Times(entry_map, e.slot) :
             /\ sample'.at = now /\ sample'.cause = e.at
             /\ sample'.latency_ns = now - newest
             /\ \A t \in Times(entry_map, e.slot) : t <= newest
    BY <1>1, WhatIsSampled
  <2>1. PICK newest \in Times(entry_map, e.slot) :
             sample'.at = now /\ sample'.latency_ns = now - newest
    BY <2>0
  <2>2. newest \in connected_at..now /\ now \in Nat /\ connected_at \in Nat
    BY <1>1 DEF YellowInv, Clocked, MapOfThisConnection, Times
  <2> QED BY <2>1, <2>2
<1>2. YellowInv /\ [YellowNext]_yellowVars
         => [sample' # sample /\ sample'.taken
               => sample'.at - sample'.latency_ns >= connected_at]_yellowVars
  BY <1>1
<1> QED BY <1>2, YellowInvariant, PTL DEF YellowSpec, SampleWithinConnection

(* No sample exceeds the time since the entry that caused the update,      *)
(* unless that entry is older than the connection: an update that comes    *)
(* after the window has passed its slot yields no sample at all.           *)
THEOREM YellowSampleNotOverstated == YellowSpec => SampleNotOverstated
<1>1. ASSUME YellowInv, [YellowNext]_yellowVars, sample' # sample, sample'.taken
      PROVE  \/ sample'.latency_ns <= sample'.at - sample'.cause
             \/ sample'.cause <= connected_at
  <2>0. PICK e \in entries : \E newest \in Times(entry_map, e.slot) :
             /\ sample'.at = now /\ sample'.cause = e.at
             /\ sample'.latency_ns = now - newest
             /\ \A t \in Times(entry_map, e.slot) : t <= newest
    BY <1>1, WhatIsSampled
  <2>1. PICK newest \in Times(entry_map, e.slot) :
             /\ sample'.at = now /\ sample'.cause = e.at
             /\ sample'.latency_ns = now - newest
             /\ \A t \in Times(entry_map, e.slot) : t <= newest
    BY <2>0
  <2>2. /\ newest \in Nat /\ now \in Nat /\ connected_at \in Nat /\ e.at \in Nat
        /\ max_slot_seen \in Nat /\ Window \in Nat /\ e.slot \in Nat
    BY <1>1, YellowstoneAssumption
       DEF YellowInv, Clocked, MapOfThisConnection, Times
  <2>3. e.slot + Window >= max_slot_seen
    BY <1>1, <2>2 DEF YellowInv, WindowBounded, Times
  <2>4. CASE e.at > connected_at
    <3>1. conn = "streaming"
      BY <1>1 DEF YellowNext, yellowVars, Tick, Cancel, Connect, StreamError,
                  Retry, StreamDone, EntryUpdate, AccountUpdate
    <3>2. e.at \in Times(entry_map, e.slot)
      BY <1>1, <2>3, <2>4, <3>1 DEF YellowInv, WindowComplete
    <3> QED BY <2>1, <2>2, <3>2
  <2> QED BY <2>1, <2>2, <2>4
<1>2. YellowInv /\ [YellowNext]_yellowVars
         => [sample' # sample /\ sample'.taken
               => \/ sample'.latency_ns <= sample'.at - sample'.cause
                  \/ sample'.cause <= connected_at]_yellowVars
  BY <1>1
<1> QED BY <1>2, YellowInvariant, PTL DEF YellowSpec, SampleNotOverstated
=============================================================================
