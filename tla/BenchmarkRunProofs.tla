-------------------------- MODULE BenchmarkRunProofs --------------------------
(***************************************************************************)
(* TLAPS proofs about BenchmarkRun, for any listeners, streams, slots,     *)
(* range, duration, silence timeout and queue bound.                       *)
(***************************************************************************)
EXTENDS BenchmarkRun, TLAPS

LEMMA TimerTypes ==
    /\ SilenceTimeout \in Nat /\ Duration \in Nat
    /\ \A n \in Nat : Less(n) \in Nat
    /\ \A n \in Nat : More(n) \in Nat
  BY BenchmarkRunAssumption DEF Less, More

(* What a gate step may do to the flags.                                   *)
LEMMA GateFlagTypes ==
    ASSUME RunShape, NEW slot, GateShred(slot) \/ GateSlotEvent(slot)
    PROVE  /\ start_slot_checked' \in BOOLEAN
           /\ range_end_triggered' \in BOOLEAN
           /\ activity' \in BOOLEAN
           /\ cancelled' \in BOOLEAN
  BY DEF RunShape, GateShred, GateSlotEvent, NoteActivity, PassEnd,
         AbortMissedStart

LEMMA RunShapeInit == RunInit => RunShape
<1> SUFFICES ASSUME RunInit PROVE RunShape
  OBVIOUS
<1>1. queue \in [Channel -> Seq(Slot \cup {0})]
  BY DEF RunInit
<1>2. task \in [Task -> TaskState]
  <2>1. \A t \in Task : FirstState(t) \in TaskState
    BY DEF FirstState, TaskState
  <2> QED BY <2>1 DEF RunInit
<1> QED
  BY <1>1, <1>2, BenchmarkRunAssumption
  DEF RunInit, GateInit, RunShape, GraceSecs, JoinSecs

LEMMA RunShapeNext == RunShape /\ [RunNext]_runVars => RunShape'
<1> SUFFICES ASSUME RunShape, [RunNext]_runVars PROVE RunShape'
  OBVIOUS
<1> USE DEF monVars, timers, gateVars
<1>1. ASSUME Tick PROVE RunShape'
  BY <1>1, TimerTypes DEF Tick, RunShape
<1>2. ASSUME NEW l \in Listener, ListenerRead(l) PROVE RunShape'
  <2>1. task' \in [Task -> TaskState]
    BY <1>2 DEF ListenerRead, AfterRead, RunShape, TaskState
  <2>2. queue' \in [Channel -> Seq(Slot \cup {0})]
    <3>1. CASE UNCHANGED queue
      BY <3>1 DEF RunShape
    <3>2. ASSUME NEW s \in Slot, Deliver("shred", s)
          PROVE  queue' \in [Channel -> Seq(Slot \cup {0})]
      <4>1. queue["shred"] \in Seq(Slot \cup {0})
        BY DEF RunShape, Channel
      <4>2. Append(queue["shred"], s) \in Seq(Slot \cup {0})
        BY <4>1
      <4> QED BY <3>2, <4>2 DEF Deliver, RunShape
    <3> QED BY <1>2, <3>1, <3>2 DEF ListenerRead
  <2> QED BY <1>2, <2>1, <2>2 DEF ListenerRead, RunShape
<1>3. ASSUME NEW s \in Stream, NEW from,
             NEW to \in {"connecting", "streaming", "backoff", "stopped"},
             StreamGoes(s, from, to)
      PROVE  RunShape'
  BY <1>3, ZenonT(30) DEF StreamGoes, RunShape, TaskState
<1>4. ASSUME NEW s \in Stream, StreamUpdate(s) PROVE RunShape'
  <2>0. PICK c \in Holds(s) : \E p \in Payload(c) : Deliver(c, p)
    BY <1>4 DEF StreamUpdate
  <2>1. PICK p \in Payload(c) : Deliver(c, p)
    BY <2>0
  <2>2. c \in Channel /\ p \in Slot \cup {0}
    BY BenchmarkRunAssumption DEF Holds, Channel, Payload
  <2>3. queue[c] \in Seq(Slot \cup {0})
    BY <2>2 DEF RunShape
  <2>4. Append(queue[c], p) \in Seq(Slot \cup {0})
    BY <2>2, <2>3
  <2>5. queue' \in [Channel -> Seq(Slot \cup {0})]
    BY <2>1, <2>4 DEF Deliver, RunShape
  <2> QED BY <1>4, <2>5 DEF StreamUpdate, RunShape
<1>5. ASSUME NEW c \in Channel, AggTakes(c)
      PROVE  queue' \in [Channel -> Seq(Slot \cup {0})]
  <2>1. queue[c] \in Seq(Slot \cup {0}) /\ queue[c] # <<>>
    BY <1>5 DEF AggTakes, RunShape
  <2>2. Tail(queue[c]) \in Seq(Slot \cup {0})
    BY <2>1
  <2> QED BY <1>5, <2>2 DEF AggTakes, RunShape
<1>6. CASE AggShred
  <2>1. AggTakes("shred") /\ GateShred(Head(queue["shred"]))
    BY <1>6 DEF AggShred
  <2>2. quiet' \in Nat
    BY <1>6 DEF AggShred, Notes, RunShape
  <2>3. queue' \in [Channel -> Seq(Slot \cup {0})]
    BY <1>5, <2>1 DEF Channel
  <2> QED BY <2>1, <2>2, <2>3, GateFlagTypes DEF AggTakes, RunShape
<1>7. CASE AggSlot
  <2>1. AggTakes("slot") /\ GateSlotEvent(Head(queue["slot"]))
    BY <1>7 DEF AggSlot
  <2>2. quiet' \in Nat
    BY <1>7 DEF AggSlot, Notes, RunShape
  <2>3. queue' \in [Channel -> Seq(Slot \cup {0})]
    BY <1>5, <2>1 DEF Channel
  <2> QED BY <2>1, <2>2, <2>3, GateFlagTypes DEF AggTakes, RunShape
<1>8. CASE AggGrpc
  <2>1. queue' \in [Channel -> Seq(Slot \cup {0})]
    BY <1>5, <1>8 DEF AggGrpc, Channel
  <2> QED BY <1>8, <2>1 DEF AggGrpc, AggTakes, RunShape
<1>9. CASE AggBreak
  BY <1>9 DEF AggBreak, RunShape
<1>10. CASE MonitorWake
  <2>1. /\ monitor' \in {"asleep", "stopped"}
        /\ UNCHANGED <<main, task, queue, agg, join_timed_out, timers, quiet>>
        /\ UNCHANGED <<start_slot_checked, range_end_triggered>>
    BY <1>10 DEF MonitorWake, SetToken
  <2>2. /\ silent_secs' \in {silent_secs, 0, silent_secs + 1}
        /\ activity' \in {activity, FALSE}
        /\ cancelled' \in {cancelled, TRUE}
    BY <1>10 DEF MonitorWake, SetToken, AfterActivity, ActivityAfterSwap
  <2>3. silent_secs' \in Nat
    BY <2>2 DEF RunShape
  <2>4. activity' \in BOOLEAN /\ cancelled' \in BOOLEAN
    <3>1. activity \in BOOLEAN /\ cancelled \in BOOLEAN
      BY DEF RunShape
    <3> QED BY <2>2, <3>1
  <2> QED BY <2>1, <2>3, <2>4 DEF RunShape
<1>11. CASE GraceEnds
  BY <1>11 DEF GraceEnds, SetToken, RunShape
<1>12. CASE MainStops
  BY <1>12 DEF MainStops, SetToken, RunShape
<1>13. CASE DrainEnds \/ Joined \/ JoinTimesOut \/ Report \/ Exit
  BY <1>13, ZenonT(30)
  DEF DrainEnds, Joined, JoinTimesOut, Report, Exit, MainGoes, RunShape
<1>14. CASE UNCHANGED runVars
  BY <1>14 DEF runVars, RunShape
<1>15. ASSUME NEW s \in Stream,
              StreamConnect(s) \/ StreamFail(s) \/ StreamEnd(s) \/ StreamRetry(s)
       PROVE  RunShape'
  BY <1>3, <1>15 DEF StreamConnect, StreamFail, StreamEnd, StreamRetry, Resumes
<1>16. ASSUME NEW d \in Direct, DirectStarts(d) PROVE RunShape'
  <2>1. task' \in [Task -> TaskState]
    <3>1. \A t \in Task : task[t] \in TaskState
      BY DEF RunShape
    <3> QED BY <1>16, <3>1 DEF DirectStarts, AfterRead, TaskState
  <2> QED BY <1>16, <2>1 DEF DirectStarts, RunShape
<1> QED
  BY <1>1, <1>2, <1>4, <1>6, <1>7, <1>8, <1>9, <1>10, <1>11, <1>12, <1>13,
     <1>14, <1>15, <1>16
  DEF RunNext, AggStep, MainStep, MainSeesStop, CtrlC, Exited

LEMMA RunShapes == RunSpec => []RunShape
  BY RunShapeInit, RunShapeNext, PTL DEF RunSpec

\* Only its own DirectStarts takes a direct task to its heartbeats, and no
\* listener that was started becomes unborn again.
LEMMA HeartbeatsNext ==
    HeartbeatsWithListener /\ [RunNext]_runVars => HeartbeatsWithListener'
<1> SUFFICES ASSUME HeartbeatsWithListener, [RunNext]_runVars
             PROVE  HeartbeatsWithListener'
  OBVIOUS
<1>0. /\ Direct \subseteq Stream /\ Stream \cap Listener = {}
      /\ \A d \in Direct : Spawns[d] \subseteq Listener
  BY BenchmarkRunAssumption
<1>1. CASE UNCHANGED task
  BY <1>1 DEF HeartbeatsWithListener
<1>2. ASSUME NEW l \in Listener, ListenerRead(l) PROVE HeartbeatsWithListener'
  <2>1. \A t : task'[t] = task[t] \/ (t = l /\ task'[t] \in {"stopped", "reading"})
    BY <1>2 DEF ListenerRead, AfterRead, Task, HeartbeatsWithListener
  <2> QED BY <1>0, <2>1 DEF HeartbeatsWithListener
<1>3. ASSUME NEW s \in Stream,
             StreamConnect(s) \/ StreamFail(s) \/ StreamEnd(s) \/ StreamRetry(s)
      PROVE  HeartbeatsWithListener'
  <2>1. PICK from, to :
           /\ StreamGoes(s, from, to)
           /\ to # "unborn"
           /\ s \in Direct /\ to \in {"streaming", "backoff"}
                 => from \in {"streaming", "backoff"}
    <3>1. CASE StreamConnect(s)
      BY <3>1 DEF StreamConnect
    <3>2. CASE StreamFail(s)
      BY <3>2 DEF StreamFail
    <3>3. CASE StreamEnd(s)
      BY <3>3 DEF StreamEnd
    <3>4. CASE StreamRetry(s)
      BY <3>4 DEF StreamRetry, Resumes
    <3> QED BY <1>3, <3>1, <3>2, <3>3, <3>4
  <2>2. task[s] = from /\ task' = [task EXCEPT ![s] = to]
    BY <2>1 DEF StreamGoes
  <2> QED BY <1>0, <2>1, <2>2 DEF HeartbeatsWithListener
<1>4. ASSUME NEW d \in Direct, DirectStarts(d) PROVE HeartbeatsWithListener'
  <2>1. \A l \in Spawns[d] : task'[l] # "unborn"
    BY <1>0, <1>4 DEF DirectStarts, AfterRead, Task
  <2>2. \A t \in Task \ (Spawns[d] \cup {d}) : task'[t] = task[t]
    BY <1>4 DEF DirectStarts
  <2> QED BY <1>0, <2>1, <2>2 DEF HeartbeatsWithListener, Task
<1>5. Tick \/ MonitorWake \/ GraceEnds \/ MainStops \/ Exited
        \/ DrainEnds \/ Joined \/ JoinTimesOut \/ Report \/ Exit
        \/ AggBreak \/ UNCHANGED runVars => UNCHANGED task
  BY DEF Tick, MonitorWake, GraceEnds, MainStops, Exited, DrainEnds, Joined,
         JoinTimesOut, Report, Exit, MainGoes, AggBreak, runVars
<1>6. AggShred \/ AggSlot \/ AggGrpc => UNCHANGED task
  BY DEF AggShred, AggSlot, AggGrpc, AggTakes
<1>7. \A s \in Stream : StreamUpdate(s) => UNCHANGED task
  BY DEF StreamUpdate
<1> QED
  BY <1>1, <1>2, <1>3, <1>4, <1>5, <1>6, <1>7
  DEF RunNext, AggStep, MainStep, MainSeesStop, CtrlC

(* The variables of a run keep their types, and a direct task, however its *)
(* set-up and its calls fail, is in its heartbeat loop only with its       *)
(* listener started.                                                       *)
THEOREM RunTypes == RunSpec => []RunTypeOK
<1>1. RunInit => HeartbeatsWithListener
  <2>1. \A d \in Direct : d \in Task /\ FirstState(d) = "connecting"
    BY BenchmarkRunAssumption DEF FirstState, Task
  <2> QED BY <2>1 DEF RunInit, HeartbeatsWithListener
<1> QED
  BY <1>1, HeartbeatsNext, RunShapes, PTL DEF RunSpec, RunTypeOK

-----------------------------------------------------------------------------
LEMMA AggOutlivesRunNext ==
    AggOutlivesRun /\ [RunNext]_runVars => AggOutlivesRun'
<1> SUFFICES ASSUME AggOutlivesRun, [RunNext]_runVars PROVE AggOutlivesRun'
  OBVIOUS
<1>1. CASE AggBreak
  BY <1>1 DEF AggBreak, SenderAlive, AggOutlivesRun
<1>2. CASE MainStops
  <2>1. main = "waiting" /\ UNCHANGED agg
    BY <1>2 DEF MainStops
  <2> QED BY <2>1 DEF AggOutlivesRun
<1>3. CASE DrainEnds \/ Joined \/ JoinTimesOut \/ Report \/ Exit
  BY <1>3
  DEF DrainEnds, Joined, JoinTimesOut, Report, Exit, MainGoes, AggOutlivesRun
<1>4. CASE UNCHANGED <<main, agg>>
  BY <1>4 DEF AggOutlivesRun
<1>5. Tick \/ MonitorWake \/ GraceEnds \/ Exited \/ UNCHANGED runVars
        => UNCHANGED <<main, agg>>
  BY DEF Tick, MonitorWake, GraceEnds, Exited, runVars
<1>6. \A l \in Listener : ListenerRead(l) => UNCHANGED <<main, agg>>
  BY DEF ListenerRead
<1>7. \A s \in Stream :
        StreamConnect(s) \/ StreamFail(s) \/ StreamEnd(s) \/ StreamRetry(s)
        \/ StreamUpdate(s) => UNCHANGED <<main, agg>>
  BY DEF StreamConnect, StreamFail, StreamEnd, StreamRetry, StreamGoes,
         StreamUpdate
<1>8. AggShred \/ AggSlot \/ AggGrpc => UNCHANGED <<main, agg>>
  BY DEF AggShred, AggSlot, AggGrpc, AggTakes
<1>9. \A d \in Direct : DirectStarts(d) => UNCHANGED <<main, agg>>
  BY DEF DirectStarts
<1> QED
  BY <1>1, <1>2, <1>3, <1>4, <1>5, <1>6, <1>7, <1>8, <1>9
  DEF RunNext, AggStep, MainStep, MainSeesStop, CtrlC

(* The aggregator keeps receiving for as long as the run is on, whichever  *)
(* sources are configured and however they fail.                           *)
THEOREM RunAggOutlives == RunSpec => []AggOutlivesRun
<1>1. RunInit => AggOutlivesRun
  BY DEF RunInit, AggOutlivesRun
<1> QED BY <1>1, AggOutlivesRunNext, PTL DEF RunSpec

-----------------------------------------------------------------------------
\* Once the report is made the aggregator has ended, or was given up on.
ReportReadsFrozenRegistry ==
    main \in {"reporting", "returned", "exited"} => agg = "done" \/ join_timed_out

LEMMA ReportFrozenNext ==
    RunShape /\ ReportReadsFrozenRegistry /\ [RunNext]_runVars
        => ReportReadsFrozenRegistry'
<1> SUFFICES ASSUME RunShape, ReportReadsFrozenRegistry, [RunNext]_runVars
             PROVE  ReportReadsFrozenRegistry'
  OBVIOUS
<1>1. CASE AggBreak
  BY <1>1 DEF AggBreak, ReportReadsFrozenRegistry
<1>2. CASE MainStops
  BY <1>2 DEF MainStops, ReportReadsFrozenRegistry
<1>3. CASE DrainEnds
  BY <1>3 DEF DrainEnds, MainGoes, ReportReadsFrozenRegistry
<1>4. CASE Joined
  BY <1>4 DEF Joined, JoinReady, MainGoes, ReportReadsFrozenRegistry
<1>5. CASE JoinTimesOut
  BY <1>5 DEF JoinTimesOut, MainGoes, ReportReadsFrozenRegistry
<1>6. CASE Report \/ Exit
  BY <1>6 DEF Report, Exit, MainGoes, ReportReadsFrozenRegistry
<1>7. CASE UNCHANGED <<main, agg, join_timed_out>>
  BY <1>7 DEF ReportReadsFrozenRegistry
<1>8. Tick \/ MonitorWake \/ GraceEnds \/ Exited \/ UNCHANGED runVars
        => UNCHANGED <<main, agg, join_timed_out>>
  BY DEF Tick, MonitorWake, GraceEnds, Exited, runVars
<1>9. \A l \in Listener :
        ListenerRead(l) => UNCHANGED <<main, agg, join_timed_out>>
  BY DEF ListenerRead
<1>10. \A s \in Stream :
        StreamConnect(s) \/ StreamFail(s) \/ StreamEnd(s) \/ StreamRetry(s)
        \/ StreamUpdate(s) => UNCHANGED <<main, agg, join_timed_out>>
  BY DEF StreamConnect, StreamFail, StreamEnd, StreamRetry, StreamGoes,
         StreamUpdate
<1>11. AggShred \/ AggSlot \/ AggGrpc => UNCHANGED <<main, agg, join_timed_out>>
  BY DEF AggShred, AggSlot, AggGrpc, AggTakes
<1>12. \A d \in Direct :
        DirectStarts(d) => UNCHANGED <<main, agg, join_timed_out>>
  BY DEF DirectStarts
<1> QED
  BY <1>1, <1>2, <1>3, <1>4, <1>5, <1>6, <1>7, <1>8, <1>9, <1>10, <1>11, <1>12
  DEF RunNext, AggStep, MainStep, MainSeesStop, CtrlC

LEMMA RunReportFrozen == RunSpec => []ReportReadsFrozenRegistry
<1>1. RunInit => ReportReadsFrozenRegistry
  BY DEF RunInit, ReportReadsFrozenRegistry
<1> QED BY <1>1, ReportFrozenNext, RunShapes, PTL DEF RunSpec

-----------------------------------------------------------------------------
(* An event the aggregator takes leaves the monitor's count in order: it   *)
(* sets the flag, or it leaves flag and quiet time alone.                  *)
LEMMA EventKeepsCount ==
    ASSUME RunShape, MonitorKeepsCount, UNCHANGED monVars,
           \/ activity' = TRUE
           \/ activity' = activity /\ quiet' = quiet
    PROVE  MonitorKeepsCount'
  BY DEF monVars, MonitorKeepsCount, RunShape

LEMMA MonitorKeepsCountNext ==
    RunShape /\ MonitorKeepsCount /\ [RunNext]_runVars => MonitorKeepsCount'
<1> SUFFICES ASSUME RunShape, MonitorKeepsCount, [RunNext]_runVars
             PROVE  MonitorKeepsCount'
  OBVIOUS
<1>1. CASE Tick
  <2>1. /\ quiet' = More(quiet) /\ silent_secs' = silent_secs
        /\ activity' = activity
        /\ monitor' = IF monitor = "asleep" THEN "due" ELSE monitor
    BY <1>1 DEF Tick, gateVars
  <2>2. quiet \in Nat /\ silent_secs \in Nat /\ SilenceTimeout \in Nat
    BY BenchmarkRunAssumption DEF RunShape
  <2>3. CASE monitor = "asleep"
    <3>1. silent_secs <= SilenceTimeout
      BY <2>2, <2>3 DEF MonitorKeepsCount
    <3>2. ~activity => silent_secs + 1 <= More(quiet)
      BY <2>2, <2>3, <3>1 DEF MonitorKeepsCount, More
    <3>3. silent_secs = 0 \/ silent_secs < SilenceTimeout
      BY <2>3 DEF MonitorKeepsCount
    <3> QED BY <2>1, <2>3, <3>2, <3>3 DEF MonitorKeepsCount
  <2>4. CASE monitor # "asleep"
    <3>1. quiet <= More(quiet) /\ More(quiet) \in Nat
      BY <2>2 DEF More
    <3>2. ~activity /\ monitor = "due" => silent_secs + 1 <= More(quiet)
      BY <2>2, <3>1 DEF MonitorKeepsCount
    <3>3. monitor # "stopped" => silent_secs = 0 \/ silent_secs < SilenceTimeout
      BY DEF MonitorKeepsCount
    <3> QED BY <2>1, <2>4, <3>2, <3>3 DEF MonitorKeepsCount
  <2> QED BY <2>3, <2>4
<1>2. CASE MonitorWake
  <2>1. quiet' = quiet /\ monitor = "due"
    BY <1>2 DEF MonitorWake
  <2>2. quiet \in Nat /\ silent_secs \in Nat /\ SilenceTimeout \in Nat
    BY BenchmarkRunAssumption DEF RunShape
  <2>3. CASE monitor' = "stopped"
    BY <2>3 DEF MonitorKeepsCount
  <2>4. CASE monitor' # "stopped"
    <3>1. /\ ~cancelled
          /\ monitor' = "asleep"
          /\ silent_secs' = IF activity THEN 0 ELSE silent_secs + 1
          /\ activity \/ ~SilenceOver(silent_secs')
      BY <1>2, <2>4 DEF MonitorWake, AfterActivity
    <3>2. CASE activity
      BY <2>1, <2>2, <3>1, <3>2 DEF MonitorKeepsCount
    <3>3. CASE ~activity
      <4>1. silent_secs' = silent_secs + 1 /\ ~(silent_secs' >= SilenceTimeout)
        BY <3>1, <3>3 DEF SilenceOver
      <4>2. silent_secs + 1 <= quiet
        BY <2>1, <3>3 DEF MonitorKeepsCount
      <4>3. silent_secs' <= quiet' /\ silent_secs' < SilenceTimeout
        BY <2>1, <2>2, <4>1, <4>2
      <4> QED BY <3>1, <4>3 DEF MonitorKeepsCount
    <3> QED BY <3>2, <3>3
  <2> QED BY <2>3, <2>4
<1>3. CASE AggShred
  <2>1. UNCHANGED monVars
    BY <1>3 DEF AggShred, AggTakes
  <2> DEFINE slot == Head(queue["shred"])
  <2>2. /\ GateShred(slot)
        /\ quiet' = IF ShredArm(slot) \notin {"missed", "beyond"} THEN 0 ELSE quiet
    BY <1>3 DEF AggShred, Notes
  <2>3. activity' = TRUE \/ (activity' = activity /\ quiet' = quiet)
    BY <2>2 DEF GateShred, NoteActivity, AbortMissedStart, PassEnd
  <2> QED BY <2>1, <2>3, EventKeepsCount
<1>4. CASE AggSlot
  <2>1. UNCHANGED monVars
    BY <1>4 DEF AggSlot, AggTakes
  <2> DEFINE slot == Head(queue["slot"])
  <2>2. /\ GateSlotEvent(slot)
        /\ quiet' = IF SlotArm(slot) # "beyond" THEN 0 ELSE quiet
    BY <1>4 DEF AggSlot, Notes
  <2>3. activity' = TRUE \/ (activity' = activity /\ quiet' = quiet)
    BY <2>2 DEF GateSlotEvent, NoteActivity, PassEnd
  <2> QED BY <2>1, <2>3, EventKeepsCount
<1>5. CASE UNCHANGED <<monVars, quiet, activity>>
  BY <1>5 DEF monVars, MonitorKeepsCount
<1>6. AggGrpc \/ AggBreak \/ GraceEnds \/ MainStops \/ Exited
        \/ DrainEnds \/ Joined \/ JoinTimesOut \/ Report \/ Exit
        \/ UNCHANGED runVars
        => UNCHANGED <<monVars, quiet, activity>>
  BY DEF AggGrpc, AggTakes, AggBreak, GraceEnds, MainStops, Exited, DrainEnds,
         Joined, JoinTimesOut, Report, Exit, MainGoes, runVars, gateVars
<1>7. \A l \in Listener :
        ListenerRead(l) => UNCHANGED <<monVars, quiet, activity>>
  BY DEF ListenerRead, gateVars
<1>8. \A s \in Stream :
        StreamConnect(s) \/ StreamFail(s) \/ StreamEnd(s) \/ StreamRetry(s)
        \/ StreamUpdate(s) => UNCHANGED <<monVars, quiet, activity>>
  BY DEF StreamConnect, StreamFail, StreamEnd, StreamRetry, StreamGoes,
         StreamUpdate, gateVars
<1>9. \A d \in Direct : DirectStarts(d) => UNCHANGED <<monVars, quiet, activity>>
  BY DEF DirectStarts, gateVars
<1> QED
  BY <1>1, <1>2, <1>3, <1>4, <1>5, <1>6, <1>7, <1>8, <1>9
  DEF RunNext, AggStep, MainStep, MainSeesStop, CtrlC

(* The count of silent seconds never exceeds the time without activity.    *)
THEOREM RunMonitorKeepsCount == RunSpec => []MonitorKeepsCount
<1>1. RunInit => MonitorKeepsCount
  BY DEF RunInit, GateInit, MonitorKeepsCount
<1> QED BY <1>1, MonitorKeepsCountNext, RunShapes, PTL DEF RunSpec

LEMMA SilenceStep ==
    RunShape /\ MonitorKeepsCount /\ [RunNext]_runVars
        => [MonitorFires => quiet >= SilenceTimeout /\ quiet >= 1]_runVars
<1> SUFFICES ASSUME RunShape, MonitorKeepsCount, [RunNext]_runVars,
                    MonitorFires
             PROVE  quiet >= SilenceTimeout /\ quiet >= 1
  OBVIOUS
<1>1. MonitorWake
  <2>1. monitor' # monitor
    BY DEF MonitorFires
  <2>2. monitor = "due" /\ monitor' = "stopped"
    BY DEF MonitorFires
  <2>3. ~Tick
    BY <2>2 DEF Tick
  <2>4. ~UNCHANGED monitor
    BY <2>1
  <2>5. AggStep \/ GraceEnds \/ MainStep \/ CtrlC \/ Exited \/ UNCHANGED runVars
          => UNCHANGED monitor
    BY DEF AggStep, AggShred, AggSlot, AggGrpc, AggTakes, AggBreak, GraceEnds,
           MainStep, MainSeesStop, CtrlC, MainStops, Exited, DrainEnds, Joined,
           JoinTimesOut, Report, Exit, MainGoes, runVars, monVars
  <2>6. \A l \in Listener : ListenerRead(l) => UNCHANGED monitor
    BY DEF ListenerRead, monVars
  <2>7. \A s \in Stream :
          StreamConnect(s) \/ StreamFail(s) \/ StreamEnd(s) \/ StreamRetry(s)
          \/ StreamUpdate(s) => UNCHANGED monitor
    BY DEF StreamConnect, StreamFail, StreamEnd, StreamRetry, StreamGoes,
           StreamUpdate, monVars
  <2>8. \A d \in Direct : DirectStarts(d) => UNCHANGED monitor
    BY DEF DirectStarts, monVars
  <2> QED BY <2>3, <2>4, <2>5, <2>6, <2>7, <2>8 DEF RunNext
<1>2. ~activity /\ monitor = "due"
      /\ silent_secs' = silent_secs + 1 /\ silent_secs' >= SilenceTimeout
  <2>1. ~cancelled /\ cancelled'
    BY DEF MonitorFires
  <2>2. ~activity /\ SilenceOver(silent_secs')
    BY <1>1, <2>1 DEF MonitorWake, SetToken
  <2> QED BY <1>1, <2>1, <2>2 DEF MonitorWake, SilenceOver
<1>3. silent_secs + 1 <= quiet
  BY <1>2 DEF MonitorKeepsCount
<1>4. quiet \in Nat /\ silent_secs \in Nat /\ SilenceTimeout \in Nat
  BY BenchmarkRunAssumption DEF RunShape
<1> QED BY <1>2, <1>3, <1>4

(* The silence monitor never stops a run early: when it fires there was no *)
(* activity for the whole timeout.                                         *)
THEOREM RunSilenceNotPremature == RunSpec => SilenceNotPremature
  BY SilenceStep, RunMonitorKeepsCount, RunShapes, PTL
  DEF RunSpec, SilenceNotPremature

-----------------------------------------------------------------------------
(* Main leaves its wait with the token set, and gives up on the aggregator *)
(* only after that.                                                        *)
StopIsSet ==
    /\ main # "waiting" => cancelled
    /\ join_timed_out => main \notin {"waiting", "draining", "joining"}

(* Every other step leaves main's progress alone and never clears the token. *)
LEMMA ElsewherePhasesStay ==
    ASSUME [RunNext]_runVars,
           ~(AggBreak \/ MainStops \/ DrainEnds \/ Joined \/ JoinTimesOut
             \/ Report \/ Exit)
    PROVE  UNCHANGED <<main, agg, join_timed_out>> /\ (cancelled => cancelled')
<1>1. Tick \/ AggGrpc \/ Exited \/ UNCHANGED runVars
        => UNCHANGED <<main, agg, join_timed_out, cancelled>>
  BY DEF Tick, AggGrpc, AggTakes, Exited, runVars, gateVars
<1>2. \A l \in Listener :
        ListenerRead(l) => UNCHANGED <<main, agg, join_timed_out, cancelled>>
  BY DEF ListenerRead, gateVars
<1>3. \A s \in Stream :
        StreamConnect(s) \/ StreamFail(s) \/ StreamEnd(s) \/ StreamRetry(s)
        \/ StreamUpdate(s)
          => UNCHANGED <<main, agg, join_timed_out, cancelled>>
  BY DEF StreamConnect, StreamFail, StreamEnd, StreamRetry, StreamGoes,
         StreamUpdate, gateVars
<1>4. AggShred \/ AggSlot
        => UNCHANGED <<main, agg, join_timed_out>> /\ (cancelled => cancelled')
  BY DEF AggShred, AggSlot, AggTakes, GateShred, GateSlotEvent, NoteActivity,
         AbortMissedStart, PassEnd
<1>5. MonitorWake \/ GraceEnds
        => UNCHANGED <<main, agg, join_timed_out>> /\ (cancelled => cancelled')
  BY DEF MonitorWake, GraceEnds, SetToken, gateVars
<1>6. \A d \in Direct :
        DirectStarts(d) => UNCHANGED <<main, agg, join_timed_out, cancelled>>
  BY DEF DirectStarts, gateVars
<1> QED
  BY <1>1, <1>2, <1>3, <1>4, <1>5, <1>6
  DEF RunNext, AggStep, MainStep, MainSeesStop, CtrlC

LEMMA StopIsSetNext ==
    StopIsSet /\ [RunNext]_runVars => StopIsSet'
<1> SUFFICES ASSUME StopIsSet, [RunNext]_runVars PROVE StopIsSet'
  OBVIOUS
<1>1. ASSUME UNCHANGED <<main, agg, join_timed_out>>, cancelled => cancelled'
      PROVE  StopIsSet'
  BY <1>1 DEF StopIsSet
<1>2. AggBreak => StopIsSet'
  BY DEF AggBreak, gateVars, StopIsSet
<1>3. MainStops => StopIsSet'
  BY DEF MainStops, SetToken, StopIsSet
<1>4. DrainEnds \/ Joined \/ JoinTimesOut \/ Report \/ Exit => StopIsSet'
  BY DEF DrainEnds, Joined, JoinTimesOut, Report, Exit, MainGoes, gateVars,
         StopIsSet
<1> QED BY <1>1, <1>2, <1>3, <1>4, ElsewherePhasesStay

LEMMA RunStopIsSet == RunSpec => []StopIsSet
<1>1. RunInit => StopIsSet
  BY DEF RunInit, StopIsSet
<1> QED BY <1>1, StopIsSetNext, PTL DEF RunSpec

(* The abstract state, by the value of the concrete one.                   *)
LEMMA PhaseCases ==
    ASSUME RunShape
    PROVE  /\ main = "exited" => PhaseOf = "exited"
           /\ main = "returned" => PhaseOf = "reported"
           /\ main \notin {"returned", "exited"} /\ cancelled
                => PhaseOf = "stopping"
           /\ main \notin {"returned", "exited"} /\ ~cancelled
                => PhaseOf = "running"
           /\ agg = "done" => WritesOf = "frozen"
           /\ agg = "running" /\ join_timed_out => WritesOf = "abandoned"
           /\ agg = "running" /\ ~join_timed_out => WritesOf = "open"
<1>1. main = "exited" => PhaseOf = "exited"
  BY DEF PhaseOf
<1>2. main = "returned" => PhaseOf = "reported"
  BY DEF PhaseOf
<1>3. main \notin {"returned", "exited"}
        => PhaseOf = IF cancelled THEN "stopping" ELSE "running"
  BY DEF PhaseOf
<1>4. agg = "done" => WritesOf = "frozen"
  BY DEF WritesOf
<1>5. agg = "running" /\ join_timed_out => WritesOf = "abandoned"
  BY DEF WritesOf
<1>6. agg = "running" /\ ~join_timed_out => WritesOf = "open"
  BY DEF WritesOf
<1> QED BY <1>1, <1>2, <1>3, <1>4, <1>5, <1>6

(* Two states that agree on what the mapping reads are the same to it.     *)
LEMMA PhasesDependOn ==
    ASSUME UNCHANGED <<main, agg, join_timed_out>>,
           main \in {"returned", "exited"} \/ UNCHANGED cancelled
    PROVE  UNCHANGED <<PhaseOf, WritesOf>>
<1>1. WritesOf' = WritesOf
  BY DEF WritesOf
<1>2. CASE UNCHANGED cancelled
  BY <1>1, <1>2 DEF PhaseOf
<1>3. CASE main \in {"returned", "exited"}
  <2>1. PhaseOf' = PhaseOf
    <3>1. CASE main = "exited"
      <4>1. main' = "exited"
        BY <3>1
      <4> QED BY <3>1, <4>1 DEF PhaseOf
    <3>2. CASE main = "returned"
      <4>1. main' = "returned"
        BY <3>2
      <4> QED BY <3>2, <4>1 DEF PhaseOf
    <3> QED BY <1>3, <3>1, <3>2
  <2> QED BY <1>1, <2>1
<1> QED BY <1>2, <1>3

LEMMA PhaseStep ==
    ASSUME RunShape, RunShape', StopIsSet, StopIsSet', AggOutlivesRun,
           ReportReadsFrozenRegistry, [RunNext]_runVars
    PROVE  [Phases!PhaseNext]_<<PhaseOf, WritesOf>>
<1> DEFINE Goal == [Phases!PhaseNext]_<<PhaseOf, WritesOf>>
<1> USE DEF Phases!PhaseNext
<1>1. ASSUME UNCHANGED <<main, agg, join_timed_out>>, cancelled => cancelled'
      PROVE  Goal
  <2>1. CASE main \in {"returned", "exited"} \/ UNCHANGED cancelled
    BY <1>1, <2>1, PhasesDependOn
  <2>2. CASE main \notin {"returned", "exited"} /\ cancelled' # cancelled
    <3>1. ~cancelled /\ cancelled'
      BY <1>1, <2>2 DEF RunShape
    <3>2. PhaseOf = "running"
      BY <2>2, <3>1, PhaseCases
    <3>3. PhaseOf' = "stopping"
      <4>1. main' \notin {"returned", "exited"}
        BY <1>1, <2>2
      <4> QED BY <3>1, <4>1 DEF PhaseOf
    <3>4. WritesOf' = WritesOf
      BY <1>1 DEF WritesOf
    <3> QED BY <3>2, <3>3, <3>4 DEF Phases!Stop
  <2> QED BY <2>1, <2>2
<1>2. CASE AggBreak
  <2>1. /\ agg = "running" /\ agg' = "done"
        /\ UNCHANGED <<main, join_timed_out, cancelled>>
        /\ main # "waiting"
    BY <1>2 DEF AggBreak, SenderAlive, gateVars
  <2>2. WritesOf \in {"open", "abandoned"} /\ WritesOf' = "frozen"
    BY <2>1, PhaseCases DEF WritesOf
  <2>3. PhaseOf # "running" /\ PhaseOf' = PhaseOf
    <3>1. cancelled /\ cancelled'
      BY <2>1 DEF StopIsSet
    <3>2. PhaseOf' = PhaseOf
      BY <2>1 DEF PhaseOf
    <3>3. main \in {"exited", "returned"} \/ main \notin {"exited", "returned"}
      OBVIOUS
    <3> QED BY <3>1, <3>2, <3>3, PhaseCases
  <2> QED BY <2>2, <2>3 DEF Phases!Freeze
<1>3. CASE MainStops
  <2>1. /\ main = "waiting" /\ main' = "draining" /\ cancelled'
        /\ UNCHANGED <<agg, join_timed_out>>
    BY <1>3 DEF MainStops, SetToken
  <2>2. PhaseOf \in {"running", "stopping"} /\ PhaseOf' = "stopping"
    BY <2>1 DEF PhaseOf
  <2>3. WritesOf' = WritesOf
    BY <2>1 DEF WritesOf
  <2> QED BY <2>2, <2>3 DEF Phases!Stop
<1>4. CASE DrainEnds \/ Joined
  <2>1. /\ main \in {"draining", "joining"} /\ main' \in {"joining", "reporting"}
        /\ UNCHANGED <<agg, join_timed_out, cancelled>>
    BY <1>4 DEF DrainEnds, Joined, MainGoes, gateVars
  <2>2. PhaseOf' = PhaseOf /\ WritesOf' = WritesOf
    BY <2>1 DEF PhaseOf, WritesOf
  <2> QED BY <2>2
<1>5. CASE JoinTimesOut
  <2>1. /\ main = "joining" /\ main' = "reporting"
        /\ agg # "done" /\ agg' = agg
        /\ join_timed_out' = TRUE
        /\ cancelled' = cancelled
    BY <1>5 DEF JoinTimesOut, MainGoes, gateVars
  <2>2. cancelled /\ ~join_timed_out
    BY <2>1 DEF StopIsSet
  <2>3. PhaseOf = "stopping" /\ PhaseOf' = PhaseOf
    BY <2>1, <2>2 DEF PhaseOf
  <2>4. WritesOf = "open" /\ WritesOf' = "abandoned"
    BY <2>1, <2>2 DEF WritesOf
  <2> QED BY <2>3, <2>4 DEF Phases!Abandon
<1>6. CASE Report
  <2>1. /\ main = "reporting" /\ main' = "returned"
        /\ UNCHANGED <<agg, join_timed_out, cancelled>>
    BY <1>6 DEF Report, MainGoes, gateVars
  <2>2. PhaseOf = "stopping" /\ PhaseOf' = "reported"
    BY <2>1 DEF PhaseOf, StopIsSet
  <2>3. WritesOf # "open" /\ WritesOf' = WritesOf
    BY <2>1 DEF WritesOf, ReportReadsFrozenRegistry
  <2> QED BY <2>2, <2>3 DEF Phases!Report
<1>7. CASE Exit
  <2>1. /\ main = "returned" /\ main' = "exited"
        /\ UNCHANGED <<agg, join_timed_out>>
    BY <1>7 DEF Exit, MainGoes
  <2>2. PhaseOf = "reported" /\ PhaseOf' = "exited"
    BY <2>1 DEF PhaseOf
  <2>3. WritesOf' = WritesOf
    BY <2>1 DEF WritesOf
  <2> QED BY <2>2, <2>3 DEF Phases!Exit
<1>8. CASE ~(AggBreak \/ MainStops \/ DrainEnds \/ Joined \/ JoinTimesOut
             \/ Report \/ Exit)
  BY <1>1, <1>8, ElsewherePhasesStay
<1> QED BY <1>2, <1>3, <1>4, <1>5, <1>6, <1>7, <1>8

(* The safety part of ImplementsRunPhases: a run passes from running to    *)
(* stopping to reported to exited, and reports only once the aggregator    *)
(* has ended or was given up on.                                           *)
THEOREM RunImplementsPhases ==
    RunSpec => Phases!PhaseInit /\ [][Phases!PhaseNext]_<<PhaseOf, WritesOf>>
<1>1. RunInit => Phases!PhaseInit
  BY DEF RunInit, GateInit, PhaseOf, WritesOf, Phases!PhaseInit
<1>2. /\ RunShape /\ RunShape' /\ StopIsSet /\ StopIsSet'
      /\ AggOutlivesRun /\ ReportReadsFrozenRegistry /\ [RunNext]_runVars
      => [Phases!PhaseNext]_<<PhaseOf, WritesOf>>
  BY PhaseStep
<1> QED
  BY <1>1, <1>2, RunShapes, RunStopIsSet, RunAggOutlives, RunReportFrozen, PTL
  DEF RunSpec
=============================================================================
