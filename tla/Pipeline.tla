------------------------------ MODULE Pipeline ------------------------------
(***************************************************************************)
(* How an arrival gets from a socket into the registry.                    *)
(*                                                                         *)
(*   listener threads (raw_udp.rs, jito.rs, doublezero.rs, pcap.rs)        *)
(*       check the token; read a packet or time out; stamp it; send one    *)
(*       ShredEvent per matching route                                     *)
(*   stream tasks (yellowstone.rs, jito.rs)                                *)
(*       wait for an update or the token; stamp it; send a SlotEvent and,  *)
(*       for an account update, perhaps a GrpcLatencyEvent                 *)
(*   three unbounded FIFO channels                                         *)
(*   the aggregator task (main.rs)                                         *)
(*       takes an event from any channel that holds one, passes it through *)
(*       the gate and records it                                           *)
(*                                                                         *)
(* Stamping and sending are separate steps of a thread, so the order of    *)
(* the events in a channel is not the order of their stamps.  A report is  *)
(* computed from the registry of some reachable state.                     *)
(***************************************************************************)
EXTENDS Stats, SlotGate, SequencesExt

CONSTANTS
    Listener,       \* blocking threads, one per socket
    Stream,         \* gRPC subscriptions
    Routes,         \* listener -> sequence of the sources it feeds
    StreamSource,   \* stream -> the source of its slot (or entry) updates
    AccountSource,  \* stream -> the source of its account updates, or None
    Network         \* the shreds that reach this machine's sockets

Thread == Listener \cup Stream

\* The threads are those of the configuration; each route has an id of its own.
ASSUME PipelineAssumption ==
    /\ IsFiniteSet(Listener)
    /\ Listener \cap Stream = {}
    /\ Network \subseteq ShredKey
    /\ Routes \in [Listener -> Seq(ShredSource)]
    /\ \A l \in Listener : IsInjective(Routes[l])
    /\ StreamSource \in [Stream -> EntrySource]
    /\ AccountSource \in [Stream -> EntrySource \cup {None}]

VARIABLES
    now,        \* the monotonic clock
    pc,         \* thread -> where it is in its loop
    outbox,     \* thread -> events stamped and not sent yet, with their channel
    chan,       \* channel -> its queue
    \* history:
    stamped,    \* shred source -> the packets stamped for it: <<key, stamp>>
    late        \* thread -> packets it stamped after the token was cancelled

threadVars == <<now, pc, outbox, stamped, late>>
pipeVars == <<threadVars, chan, regVars, gateVars>>

Channel == {"shred", "slot", "grpc"}

PipeInit ==
    /\ RegInit
    /\ GateInit
    /\ now \in Time /\ \A t \in Time : now <= t
    /\ pc = [t \in Thread |-> IF t \in Listener THEN "check" ELSE "wait"]
    /\ outbox = [t \in Thread |-> <<>>]
    /\ chan = [c \in Channel |-> <<>>]
    /\ stamped = [s \in ShredSource |-> <<>>]
    /\ late = [t \in Thread |-> 0]

-----------------------------------------------------------------------------
Tick ==
    /\ now + 1 \in Time
    /\ now' = now + 1
    /\ UNCHANGED <<pc, outbox, stamped, late, chan, regVars, gateVars>>

\* Top of a listener's loop.
ListenerCheck(l) ==
    /\ pc[l] = "check"
    /\ pc' = [pc EXCEPT ![l] = IF cancelled THEN "stopped" ELSE "recv"]
    /\ UNCHANGED <<now, outbox, stamped, late, chan, regVars, gateVars>>

\* The read times out, fails, or returns no parseable shred.
ListenerIdle(l) ==
    /\ pc[l] = "recv"
    /\ pc' = [pc EXCEPT ![l] = "check"]
    /\ UNCHANGED <<now, outbox, stamped, late, chan, regVars, gateVars>>

\* The elements of seq that are in S, in their order (SelectSeq, as a function
\* that can be reasoned about).
Kept(seq, S) ==
    LET upTo[n \in 0..Len(seq)] ==
          IF n = 0 THEN <<>>
          ELSE IF seq[n] \in S THEN Append(upTo[n - 1], seq[n])
          ELSE upTo[n - 1]
    IN  upTo[Len(seq)]

ShredEvents(sources, key) ==
    [i \in DOMAIN sources |->
        [to |-> "shred",
         event |-> [source |-> sources[i], key |-> key, received_at |-> now]]]

\* Mutant: the thread goes back to reading without looking at the token.
AfterSend_NoCheck(t) == IF t \in Listener THEN "recv" ELSE "wait"

AfterSend(t) == IF t \in Listener THEN "check" ELSE "wait"

\* A packet with a shred is read and stamped, once; matched are the routes
\* of the socket that take it (all of a plain socket's single route).
ListenerRecv(l, key, matched) ==
    LET sources == Kept(Routes[l], matched) IN
    /\ pc[l] = "recv"
    /\ sources # <<>>
    /\ pc' = [pc EXCEPT ![l] = "send"]
    /\ outbox' = [outbox EXCEPT ![l] = ShredEvents(sources, key)]
    /\ stamped' = [s \in ShredSource |->
                     IF s \in Range(sources)
                     THEN Append(stamped[s], <<key, now>>)
                     ELSE stamped[s]]
    /\ late' = [late EXCEPT ![l] = IF cancelled THEN @ + 1 ELSE @]
    /\ UNCHANGED <<now, chan, regVars, gateVars>>

SlotUpdate(source, slot) ==
    [to |-> "slot",
     event |-> [source |-> source, slot |-> slot, received_at |-> now]]

\* A stream delivers an update: a slot status or entry batch, or an account
\* update, whose gRPC overhead sample exists only if an entry of the slot
\* was seen before.  The select! may pick it although the token is set.
StreamRecv(s, slot) ==
    /\ pc[s] = "wait"
    /\ pc' = [pc EXCEPT ![s] = "send"]
    /\ \/ outbox' = [outbox EXCEPT ![s] = <<SlotUpdate(StreamSource[s], slot)>>]
       \/ /\ AccountSource[s] # None
          /\ \E samples \in {<<>>} \cup {<<ns>> : ns \in Latency} :
                outbox' = [outbox EXCEPT ![s] =
                    <<SlotUpdate(AccountSource[s], slot)>> \o
                    [i \in DOMAIN samples |->
                        [to |-> "grpc",
                         event |-> [source |-> AccountSource[s],
                                    latency_ns |-> samples[i]]]]]
    /\ UNCHANGED <<now, stamped, late, chan, regVars, gateVars>>

\* The stream ends, or the select! picks the token.
StreamStop(s) ==
    /\ pc[s] = "wait"
    /\ pc' = [pc EXCEPT ![s] = "stopped"]
    /\ UNCHANGED <<now, outbox, stamped, late, chan, regVars, gateVars>>

\* Mutant: the newest event overtakes the queue.
Enqueue_Front(queue, event) == <<event>> \o queue

Enqueue(queue, event) == Append(queue, event)

Send(t) ==
    /\ pc[t] = "send"
    /\ LET m == Head(outbox[t]) IN
       chan' = [chan EXCEPT ![m.to] = Enqueue(@, m.event)]
    /\ outbox' = [outbox EXCEPT ![t] = Tail(@)]
    /\ pc' = [pc EXCEPT ![t] = IF Len(outbox[t]) = 1 THEN AfterSend(t) ELSE "send"]
    /\ UNCHANGED <<now, stamped, late, regVars, gateVars>>

-----------------------------------------------------------------------------
(* The aggregator: one arm of its select! per channel.                     *)
AggShred ==
    /\ chan["shred"] # <<>>
    /\ LET e == Head(chan["shred"]) IN
       /\ GateShred(e.key.slot)
       /\ IF ShredPasses(e.key.slot) THEN record_shred(e) ELSE UNCHANGED regVars
    /\ chan' = [chan EXCEPT !["shred"] = Tail(@)]
    /\ UNCHANGED threadVars

AggSlot ==
    /\ chan["slot"] # <<>>
    /\ LET e == Head(chan["slot"]) IN
       /\ GateSlotEvent(e.slot)
       /\ IF SlotPasses(e.slot) THEN record_slot_event(e) ELSE UNCHANGED regVars
    /\ chan' = [chan EXCEPT !["slot"] = Tail(@)]
    /\ UNCHANGED threadVars

AggGrpc ==
    /\ chan["grpc"] # <<>>
    /\ record_grpc_latency(Head(chan["grpc"]))
    /\ chan' = [chan EXCEPT !["grpc"] = Tail(@)]
    /\ UNCHANGED <<threadVars, gateVars>>

\* The run ends: Ctrl-C, its duration, silence, or the end of the grace
\* period (BenchmarkRun says when).
Cancel ==
    /\ ~cancelled
    /\ cancelled' = TRUE
    /\ UNCHANGED <<start_slot_checked, range_end_triggered, activity>>
    /\ UNCHANGED <<threadVars, chan, regVars>>

PipeNext ==
    \/ Tick
    \/ Cancel
    \/ \E l \in Listener :
          \/ ListenerCheck(l)
          \/ ListenerIdle(l)
          \/ \E key \in Network, matched \in SUBSET ToSet(Routes[l]) :
                ListenerRecv(l, key, matched)
    \/ \E s \in Stream :
          \/ \E slot \in Slot : StreamRecv(s, slot)
          \/ StreamStop(s)
    \/ \E t \in Thread : Send(t)
    \/ AggShred
    \/ AggSlot
    \/ AggGrpc

PipeSpec == PipeInit /\ [][PipeNext]_pipeVars

-----------------------------------------------------------------------------
Feeders(src) == {l \in Listener : src \in ToSet(Routes[l])}

\* The stamps of key by src, at each stage of its way.
StampsOf(src, key) ==
    LET mine == Kept(stamped[src], {key} \X Time)
    IN  [i \in DOMAIN mine |-> mine[i][2]]

EventsFor(queue, src, key) ==
    LET mine == Kept(queue, [source : {src}, key : {key}, received_at : Time])
    IN  [i \in DOMAIN mine |-> mine[i].received_at]

RecordedFor(src, key) ==
    IF key \notin DOMAIN shreds THEN <<>>
    ELSE LET mine == Kept(shreds[key].arrivals, [source : {src}, at : Time])
         IN  [i \in DOMAIN mine |-> mine[i].at]

Unsent(l) == [i \in DOMAIN outbox[l] |-> outbox[l][i].event]

(* Nothing is lost, duplicated or reordered between a socket and the       *)
(* registry: for a source fed by one socket and a shred of a wanted slot,  *)
(* the stamps taken are those recorded, then those in the channel, then    *)
(* those not sent yet.  (With a start slot the first shred may be dropped  *)
(* with the whole run: the property is about runs without one.)            *)
NothingLostOrReordered ==
    StartSlot = None =>
        \A src \in ShredSource, key \in Network, l \in Listener :
            Wanted(key.slot) /\ Feeders(src) = {l} =>
                StampsOf(src, key) =
                    RecordedFor(src, key)
                    \o EventsFor(chan["shred"], src, key)
                    \o EventsFor(Unsent(l), src, key)

(* Once the token is cancelled a listener stamps at most one more packet:  *)
(* the one whose read it had entered before.                               *)
AtMostOneLatePacket == \A l \in Listener : late[l] <= 1

(* The registry holds what was asked for and nothing else: each arm of the  *)
(* aggregator has range checks and a leader filter of its own, and both    *)
(* let through only slots the configuration wants.  A range that is        *)
(* entered in the middle stops the run: as long as it goes on nothing is   *)
(* on record with the start slot still to be seen.  (After that, until the *)
(* aggregator ends, shreds of the range are recorded all the same.)        *)
RecordedAsAsked ==
    /\ \A k \in DOMAIN shreds : Wanted(k.slot)
    /\ \A s \in DOMAIN slots : Wanted(s)
    /\ start_slot_configured /\ DOMAIN shreds # {} /\ ~cancelled =>
          \E src \in ShredSource : \E p \in ToSet(stamped[src]) :
              p[1].slot = StartSlot

\* How many of a sequence of events carry key.
Carrying(events, key) == Cardinality({i \in DOMAIN events : events[i].key = key})

\* How often key was stamped, by any source, and how often it is on record,
\* queued or waiting to be sent.
TimesStamped(key) ==
    MapThenSumSet(LAMBDA src : Len(StampsOf(src, key)), ShredSource)

TimesFound(key) ==
    (IF key \in DOMAIN shreds THEN Len(shreds[key].arrivals) ELSE 0)
    + Carrying(chan["shred"], key)
    + MapThenSumSet(LAMBDA l : Carrying(Unsent(l), key), Listener)

(* Nothing is lost or doubled between the sockets and the registry however *)
(* many threads feed a source (a Jito source may have two, one of them     *)
(* started late): while the run goes on, every stamp of a wanted shred is  *)
(* found on record or on its way.  Only the check of the start slot drops  *)
(* one: a single one, and the run with it.                                 *)
OnlyStartCheckDrops ==
    LET wanted  == {key \in Network : Wanted(key.slot)}
        dropped == MapThenSumSet(LAMBDA key : TimesStamped(key) - TimesFound(key),
                                 wanted)
    IN  /\ \A key \in wanted : TimesFound(key) <= TimesStamped(key)
        /\ dropped <= 1
        /\ dropped = 1 => cancelled /\ start_slot_configured

(* README: "All latency numbers are relative - measured against the        *)
(* earliest arrival across all running sources on the same machine."  The  *)
(* base of every delta is first_seen.                                      *)
FirstSeenIsEarliest ==
    \A k \in DOMAIN shreds : \A i \in DOMAIN shreds[k].arrivals :
        shreds[k].first_seen <= shreds[k].arrivals[i].at

SocketsOf(key) ==
    {l \in Listener : \E i \in DOMAIN shreds[key].arrivals :
        shreds[key].arrivals[i].source \in ToSet(Routes[l])}

(* The same holds for a shred that came in by one socket only, whatever    *)
(* the number of sources that share the socket (pcap groups sources by     *)
(* port and interface): the threads, not the sources, are what races.      *)
FirstSeenIsEarliestOfSocket ==
    \A k \in DOMAIN shreds : Cardinality(SocketsOf(k)) = 1 =>
        \A i \in DOMAIN shreds[k].arrivals :
            shreds[k].first_seen <= shreds[k].arrivals[i].at
=============================================================================
