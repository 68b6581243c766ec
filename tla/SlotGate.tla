------------------------------ MODULE SlotGate ------------------------------
(***************************************************************************)
(* What the aggregator task of src/src/main.rs decides about an event from *)
(* its slot alone: the configured slot range, the check that the start of  *)
(* the range was not missed, the leader filter, and the flags it shares    *)
(* with the silence monitor (activity), with the task of the grace period  *)
(* (spawned when range_end_triggered is set) and with everyone (cancelled, *)
(* the CancellationToken).                                                 *)
(***************************************************************************)
EXTENDS Naturals

CONSTANTS
    None,           \* an option that the configuration leaves unset
    StartSlot,      \* config.start_slot, or None
    EndSlot,        \* config.end_slot, or None
    LeaderSlots     \* slots of leader_pubkey, or None: no filter

ASSUME SlotGateAssumption ==
    /\ None \notin Nat
    /\ StartSlot \in Nat \cup {None}
    /\ EndSlot \in Nat \cup {None}

VARIABLES
    start_slot_checked,     \* a shred at or after the start was seen
    range_end_triggered,    \* a shred beyond the end was seen
    activity,               \* set by events, cleared by the silence monitor
    cancelled               \* the CancellationToken

gateVars == <<start_slot_checked, range_end_triggered, activity, cancelled>>

start_slot_configured == StartSlot # None
slot_range_mode       == start_slot_configured \/ EndSlot # None
start_slot            == IF start_slot_configured THEN StartSlot ELSE 0

GateInit ==
    /\ start_slot_checked = FALSE
    /\ range_end_triggered = FALSE
    /\ activity = TRUE
    /\ cancelled = FALSE

-----------------------------------------------------------------------------
\* An unset end is u64::MAX, which no slot exceeds.
PastEnd(slot)  == EndSlot # None /\ slot > EndSlot
OfLeader(slot) == LeaderSlots # None => slot \in LeaderSlots

\* What the configuration says of a slot: at or after start_slot, not beyond
\* end_slot, and one of the leader's.
Wanted(slot) ==
    /\ start_slot_configured => slot >= StartSlot
    /\ EndSlot # None => slot <= EndSlot
    /\ OfLeader(slot)

(* Each arm has checks of its own.  "early": before the range; "missed":   *)
(* the first shred at or after the start is already past it; "beyond": past *)
(* the end; "other": not one of the leader's; "record": it is recorded.    *)
ShredArm(slot) ==
    IF slot < start_slot THEN "early"
    ELSE IF ~start_slot_checked /\ start_slot_configured /\ slot > start_slot
         THEN "missed"
    ELSE IF PastEnd(slot) THEN "beyond"
    ELSE IF OfLeader(slot) THEN "record" ELSE "other"

\* Mutant: the copy for slot events has no leader filter.
SlotArm_NoLeader(slot) ==
    IF slot < start_slot THEN "early"
    ELSE IF PastEnd(slot) THEN "beyond"
    ELSE "record"

SlotArm(slot) ==
    IF slot < start_slot THEN "early"
    ELSE IF PastEnd(slot) THEN "beyond"
    ELSE IF OfLeader(slot) THEN "record" ELSE "other"

NoteActivity ==
    /\ activity' = TRUE
    /\ UNCHANGED <<range_end_triggered, cancelled>>

\* The first event past the end of a range spawns the task of the grace period.
PassEnd ==
    /\ range_end_triggered' = (range_end_triggered \/ slot_range_mode)
    /\ UNCHANGED <<activity, cancelled>>

\* Mutant: the run is not cancelled.
AbortMissedStart_GoesOn ==
    /\ start_slot_checked' = TRUE
    /\ UNCHANGED <<range_end_triggered, activity, cancelled>>

AbortMissedStart ==
    /\ start_slot_checked' = TRUE
    /\ cancelled' = TRUE
    /\ UNCHANGED <<range_end_triggered, activity>>

\* The flags after a shred event for slot.
GateShred(slot) ==
    \/ ShredArm(slot) = "early" /\ NoteActivity /\ UNCHANGED start_slot_checked
    \/ ShredArm(slot) = "missed" /\ AbortMissedStart
    \/ ShredArm(slot) = "beyond" /\ PassEnd /\ start_slot_checked' = TRUE
    \/ ShredArm(slot) \in {"other", "record"} /\ NoteActivity
       /\ start_slot_checked' = TRUE

\* The flags after an entry-level event for slot.
GateSlotEvent(slot) ==
    /\ \/ SlotArm(slot) = "beyond" /\ PassEnd
       \/ SlotArm(slot) \in {"early", "other", "record"} /\ NoteActivity
    /\ UNCHANGED start_slot_checked

ShredPasses(slot) == ShredArm(slot) = "record"
SlotPasses(slot)  == SlotArm(slot) = "record"
=============================================================================
