----------------------------- MODULE Yellowstone -----------------------------
(***************************************************************************)
(* One Yellowstone subscription with an account filter, as                 *)
(* src/src/sources/yellowstone.rs runs it: connect, stream, reconnect; the *)
(* window of entry times kept per slot (entry_map), and the gRPC overhead  *)
(* sample computed from it when an account update arrives.                 *)
(*                                                                         *)
(* The server is external: it delivers entries of any slot, and account    *)
(* updates caused by an entry it has delivered (in any connection) or by   *)
(* its startup snapshot.                                                   *)
(***************************************************************************)
EXTENDS Naturals, FiniteSets, FiniteSetsExt

CONSTANTS
    Slot,       \* slots the server reports
    Window,     \* slots kept behind the newest one (300 in the code)
    MaxTime,    \* bound of the model: the clock stops here
    MaxEntries  \* bound of the model: entries the server produces

ASSUME YellowstoneAssumption ==
    Slot \subseteq Nat /\ Window \in Nat /\ MaxTime \in Nat /\ MaxEntries \in Nat

VARIABLES
    now,
    conn,           \* "connecting", "streaming", "backoff", "stopped"
    cancelled,
    entry_map,      \* slot -> times of the entries kept
    max_slot_seen,
    \* history:
    entries,        \* every entry delivered: [slot, at, since]
    connected_at,   \* when the current connection was made
    sample          \* the last account update and its sample

yellowVars == <<now, conn, cancelled, entry_map, max_slot_seen, entries,
                connected_at, sample>>

NoEntry  == [s \in {} |-> {}]
NoSample == [slot |-> 0, at |-> 0, cause |-> 0, taken |-> FALSE,
             latency_ns |-> 0]

YellowInit ==
    /\ now = 0
    /\ conn = "connecting"
    /\ cancelled = FALSE
    /\ entry_map = NoEntry
    /\ max_slot_seen = 0
    /\ entries = {}
    /\ connected_at = 0
    /\ sample = NoSample

Tick ==
    /\ now < MaxTime
    /\ now' = now + 1
    /\ UNCHANGED <<conn, cancelled, entry_map, max_slot_seen, entries,
                   connected_at, sample>>

Cancel ==
    /\ cancelled' = TRUE
    /\ UNCHANGED <<now, conn, entry_map, max_slot_seen, entries, connected_at,
                   sample>>

-----------------------------------------------------------------------------
\* Mutant: the map outlives the connection.
FreshMap_Kept == entry_map

FreshMap == NoEntry

\* connect_and_stream: the map and the maximum are locals of one connection.
Connect ==
    /\ conn = "connecting"
    /\ conn' = "streaming"
    /\ entry_map' = FreshMap
    /\ max_slot_seen' = 0
    /\ connected_at' = now
    /\ UNCHANGED <<now, cancelled, entries, sample>>

\* connect, subscribe or the stream fails.
StreamError ==
    /\ conn \in {"connecting", "streaming"}
    /\ conn' = "backoff"
    /\ UNCHANGED <<now, cancelled, entry_map, max_slot_seen, entries,
                   connected_at, sample>>

\* After 2 s, or at once when the token is cancelled.
Retry ==
    /\ conn = "backoff"
    /\ conn' = IF cancelled THEN "stopped" ELSE "connecting"
    /\ UNCHANGED <<now, cancelled, entry_map, max_slot_seen, entries,
                   connected_at, sample>>

\* The server ends the stream, or the select! sees the token: Ok(()), and the
\* task ends.
StreamDone ==
    /\ conn = "streaming"
    /\ conn' = "stopped"
    /\ UNCHANGED <<now, cancelled, entry_map, max_slot_seen, entries,
                   connected_at, sample>>

-----------------------------------------------------------------------------
Times(map, slot) == IF slot \in DOMAIN map THEN map[slot] ELSE {}

WithEntry(map, slot, t) ==
    [s \in DOMAIN map \cup {slot} |->
        Times(map, s) \cup (IF s = slot THEN {t} ELSE {})]

\* Mutant: the window is measured from the slot of the entry at hand.
Retained_FromThis(map, newest, slot) ==
    IF slot > Window
    THEN [s \in {x \in DOMAIN map : x >= slot - Window} |-> map[s]]
    ELSE map

\* Mutant: the oldest slot of the window is dropped too.
Retained_OffByOne(map, newest, slot) ==
    IF newest > Window
    THEN [s \in {x \in DOMAIN map : x > newest - Window} |-> map[s]]
    ELSE map

Retained(map, newest, slot) ==
    IF newest > Window
    THEN [s \in {x \in DOMAIN map : x >= newest - Window} |-> map[s]]
    ELSE map

EntryUpdate(slot) ==
    LET newest == Max({max_slot_seen, slot}) IN
    /\ conn = "streaming"
    /\ Cardinality(entries) < MaxEntries
    /\ max_slot_seen' = newest
    /\ entry_map' = Retained(WithEntry(entry_map, slot, now), newest, slot)
    /\ entries' = entries \cup {[slot |-> slot, at |-> now]}
    /\ UNCHANGED <<now, conn, cancelled, connected_at, sample>>

\* Mutant: the first entry of the slot is the baseline.
Baseline_First(times) == Min(times)

Baseline(times) == Max(times)

\* An account update caused by the entry delivered at time cause.  Startup
\* snapshots are skipped.
AccountUpdate(slot, cause, is_startup) ==
    LET times == {t \in Times(entry_map, slot) : t <= now} IN
    /\ conn = "streaming"
    /\ ~is_startup
    /\ sample' = [slot |-> slot, at |-> now, cause |-> cause,
                  taken |-> times # {},
                  latency_ns |-> IF times = {} THEN 0
                                 ELSE now - Baseline(times)]
    /\ UNCHANGED <<now, conn, cancelled, entry_map, max_slot_seen, entries,
                   connected_at>>

YellowNext ==
    \/ Tick \/ Cancel
    \/ Connect \/ StreamError \/ Retry \/ StreamDone
    \/ \E slot \in Slot : EntryUpdate(slot)
    \/ \E e \in entries, is_startup \in BOOLEAN :
          AccountUpdate(e.slot, e.at, is_startup)

YellowSpec == YellowInit /\ [][YellowNext]_yellowVars

-----------------------------------------------------------------------------
(* The map never holds more than Window + 1 slots behind the newest one,   *)
(* in whatever order the slots come; nor does it hold a slot above it.     *)
WindowBounded ==
    \A s \in DOMAIN entry_map :
        s <= max_slot_seen /\ (max_slot_seen > Window => s + Window >= max_slot_seen)

(* A slot inside the window has lost none of its entries of this           *)
(* connection: the newest kept is the newest delivered.                    *)
WindowComplete ==
    conn = "streaming" =>
        \A e \in entries :
            e.at > connected_at /\ e.slot + Window >= max_slot_seen
                => e.at \in Times(entry_map, e.slot)

(* A sample never spans an outage: its baseline is an entry received over  *)
(* the connection that delivered the account update.                       *)
SampleWithinConnection ==
    [][sample' # sample /\ sample'.taken
          => sample'.at - sample'.latency_ns >= connected_at]_yellowVars

(* A sample never overstates the overhead: it does not exceed the time     *)
(* since the entry that caused the account update.                         *)
SampleNotOverstated ==
    [][sample' # sample /\ sample'.taken
          => \/ sample'.latency_ns <= sample'.at - sample'.cause
             \/ sample'.cause <= connected_at]_yellowVars
=============================================================================
