--------------------------- MODULE LeaderSchedule ---------------------------
(***************************************************************************)
(* The leader filter of src/src/leader.rs: two RPCs, getLeaderSchedule for *)
(* the indices of the leader's slots within the current epoch and then     *)
(* getEpochInfo for the epoch's first slot, while the cluster moves on.    *)
(***************************************************************************)
EXTENDS Naturals

CONSTANTS
    EpochLength,    \* slots per epoch
    LastSlot        \* bound of the model: the cluster stops advancing here

ASSUME LeaderScheduleAssumption ==
    EpochLength \in Nat \ {0} /\ LastSlot \in Nat

VARIABLES
    cluster_slot,   \* the slot the cluster is at
    led,            \* the slots that leader_pubkey really leads
    pc,             \* "schedule", "epoch", "loaded" or "failed"
    slot_indices,   \* result of the first call
    leader_slots,   \* result of the function
    asked_in        \* history: the epoch in which the first call was served

schedVars == <<cluster_slot, led, pc, slot_indices, leader_slots, asked_in>>

EpochOf(slot)    == slot \div EpochLength
SlotIndex(slot)  == slot % EpochLength
SlotsOf(epoch)   == {s \in led : EpochOf(s) = epoch}

SchedInit ==
    /\ cluster_slot \in 0..LastSlot
    /\ led \in SUBSET (0..LastSlot)
    /\ pc = "schedule"
    /\ slot_indices = {}
    /\ leader_slots = {}
    /\ asked_in = 0

ClusterAdvances ==
    /\ cluster_slot < LastSlot
    /\ cluster_slot' = cluster_slot + 1
    /\ UNCHANGED <<led, pc, slot_indices, leader_slots, asked_in>>

\* An unreachable server, an RPC error or a malformed answer.
RpcFails ==
    /\ pc \in {"schedule", "epoch"}
    /\ pc' = "failed"
    /\ UNCHANGED <<cluster_slot, led, slot_indices, leader_slots, asked_in>>

GetLeaderSchedule ==
    LET indices == {SlotIndex(s) : s \in SlotsOf(EpochOf(cluster_slot))} IN
    /\ pc = "schedule"
    /\ slot_indices' = indices
    /\ asked_in' = EpochOf(cluster_slot)
    /\ pc' = IF indices = {} THEN "failed" ELSE "epoch"
    /\ UNCHANGED <<cluster_slot, led, leader_slots>>

\* Mutant: the indices are counted from the current slot.
Absolute_FromCurrent(absolute_slot) ==
    {absolute_slot + idx : idx \in slot_indices}

Absolute(absolute_slot) ==
    {absolute_slot - SlotIndex(absolute_slot) + idx : idx \in slot_indices}

Upcoming(slots, absolute_slot) == {s \in slots : s > absolute_slot}

GetEpochInfo ==
    LET slots == Absolute(cluster_slot) IN
    /\ pc = "epoch"
    /\ IF Upcoming(slots, cluster_slot) = {}
       THEN pc' = "failed" /\ UNCHANGED leader_slots
       ELSE pc' = "loaded" /\ leader_slots' = slots
    /\ UNCHANGED <<cluster_slot, led, slot_indices, asked_in>>

SchedNext == ClusterAdvances \/ RpcFails \/ GetLeaderSchedule \/ GetEpochInfo

SchedSpec == SchedInit /\ [][SchedNext]_schedVars

-----------------------------------------------------------------------------
(* leader.rs: "return the set of slots assigned to `leader_pubkey` for the *)
(* current epoch".  It is exactly that set when both calls are served in   *)
(* the same epoch, however far the cluster moves on in between.            *)
FilterIsExactWithinEpoch ==
    \A e \in {EpochOf(s) : s \in leader_slots} :
        e = asked_in => leader_slots = SlotsOf(e)
=============================================================================
