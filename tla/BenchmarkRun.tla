---------------------------- MODULE BenchmarkRun ----------------------------
(***************************************************************************)
(* The life of one run of src/src/main.rs, from "Benchmark running..." to  *)
(* the exit of the process: who may stop it, and how it winds down.        *)
(*                                                                         *)
(*   main        waiting -> draining -> joining -> reporting -> returned   *)
(*               -> exited (the runtime waits for the blocking threads)    *)
(*   monitor     the silence-timeout task, waking once a second            *)
(*   grace       the task spawned by the first event beyond the end slot   *)
(*   agg         the aggregator: ends when a channel is closed and empty   *)
(*   listeners   blocking threads with a 100 ms read timeout               *)
(*   streams     gRPC tasks that connect, stream, back off and reconnect,  *)
(*               among them the direct tasks of JitoDirect, which start a  *)
(*               listener once they are authenticated                      *)
(*                                                                         *)
(* A channel is closed when no one holds a sender of it.  Events are       *)
(* reduced to their slots; what the registry does with them is in          *)
(* Pipeline.  Tick is one second.  A timer whose time is up fires at some  *)
(* later step: the runtime promises no more.                               *)
(***************************************************************************)
EXTENDS SlotGate, Sequences, FiniteSets

CONSTANTS
    Listener, Stream,
    Yellowstone,        \* the streams that also hold a grpc sender
    Direct,             \* the streams that are Jito direct tasks
    Spawns,             \* direct task -> the listeners it starts (one or none)
    Slot,               \* slots the network delivers
    Duration,           \* config.duration_secs
    SilenceTimeout,     \* config.silence_timeout_secs
    QueueCap            \* bound of the model: events queued per channel

ASSUME BenchmarkRunAssumption ==
    /\ Slot \subseteq Nat
    /\ Duration \in Nat
    /\ SilenceTimeout \in Nat
    /\ QueueCap \in Nat
    /\ Listener \cap Stream = {}
    /\ Yellowstone \subseteq Stream
    /\ Direct \subseteq Stream \ Yellowstone
    /\ Spawns \in [Direct -> SUBSET Listener]

VARIABLES
    main,               \* phase of the main task
    task,               \* listener or stream -> its state
    queue,              \* channel -> slots of the queued events
    agg,                \* "running" or "done"
    join_timed_out,     \* main gave up waiting for the aggregator
    monitor,            \* the silence monitor: "asleep", "due", "stopped"
    silent_secs,
    duration_left, grace_left, join_left,   \* seconds until a timer is due
    \* history:
    quiet               \* seconds since the aggregator last saw activity

timers    == <<duration_left, grace_left, join_left>>
monVars   == <<monitor, silent_secs>>
runVars   == <<main, task, queue, agg, join_timed_out, monVars, timers,
               quiet, gateVars>>

Channel    == {"shred", "slot", "grpc"}
Task       == Listener \cup Stream
GraceSecs  == 2
JoinSecs   == 2

timed == Duration > 0 /\ ~slot_range_mode

Holds(t) == CASE t \in Listener \cup Direct -> {"shred"}
              [] t \in Yellowstone          -> {"slot", "grpc"}
              [] OTHER                      -> {"slot"}

\* A listener that waits for its direct task is "unborn".
SpawnedLate(l) == \E d \in Direct : l \in Spawns[d]

FirstState(t) == IF t \in Stream THEN "connecting"
                 ELSE IF SpawnedLate(t) THEN "unborn" ELSE "reading"

RunInit ==
    /\ GateInit
    /\ main = "waiting"
    /\ task = [t \in Task |-> FirstState(t)]
    /\ queue = [c \in Channel |-> <<>>]
    /\ agg = "running"
    /\ join_timed_out = FALSE
    /\ monitor = "asleep"
    /\ silent_secs = 0
    /\ duration_left = Duration
    /\ grace_left = GraceSecs
    /\ join_left = JoinSecs
    /\ quiet = 0

-----------------------------------------------------------------------------
Less(n) == IF n = 0 THEN 0 ELSE n - 1
\* A history counter; past the timeout its value does not matter.
More(n) == IF n > SilenceTimeout THEN n ELSE n + 1

\* One second passes.
Tick ==
    /\ main # "exited"
    /\ monitor' = IF monitor = "asleep" THEN "due" ELSE monitor
    /\ duration_left' = Less(duration_left)
    /\ grace_left' = IF range_end_triggered THEN Less(grace_left) ELSE grace_left
    /\ join_left' = IF main = "joining" THEN Less(join_left) ELSE join_left
    /\ quiet' = More(quiet)
    /\ UNCHANGED <<main, task, queue, agg, join_timed_out, silent_secs, gateVars>>

-----------------------------------------------------------------------------
(* Event producers.                                                        *)
CanSend(c) == Len(queue[c]) < QueueCap

Deliver(c, slot) == queue' = [queue EXCEPT ![c] = Append(@, slot)]

\* Mutant: the token is looked at only after a read that timed out.
AfterRead_IgnoresToken(gotPacket) ==
    IF cancelled /\ ~gotPacket THEN "stopped" ELSE "reading"

AfterRead(gotPacket) == IF cancelled THEN "stopped" ELSE "reading"

\* A blocking read returns a shred or times out; then the loop tests the token.
ListenerRead(l) ==
    /\ task[l] = "reading"
    /\ \E gotPacket \in BOOLEAN :
          /\ IF gotPacket
             THEN CanSend("shred") /\ \E s \in Slot : Deliver("shred", s)
             ELSE UNCHANGED queue
          /\ task' = [task EXCEPT ![l] = AfterRead(gotPacket)]
    /\ UNCHANGED <<main, agg, join_timed_out, monVars, timers, quiet, gateVars>>

StreamGoes(s, from, to) ==
    /\ task[s] = from
    /\ task' = [task EXCEPT ![s] = to]
    /\ UNCHANGED <<main, queue, agg, join_timed_out, monVars, timers, quiet,
                   gateVars>>

\* connect() and subscribe() do not watch the token.
StreamConnect(s) == s \notin Direct /\ StreamGoes(s, "connecting", "streaming")

\* Mutant: the set-up of a direct task is retried like any other connection.
StreamFail_AllRetried(s) ==
    \E from \in {"connecting", "streaming"} : StreamGoes(s, from, "backoff")

\* An error is retried, but for the set-up of a direct task.  (A direct task
\* is "streaming" in a call and in "backoff" between two heartbeats.)
StreamFail(s) ==
    \/ StreamGoes(s, "connecting", IF s \in Direct THEN "stopped" ELSE "backoff")
    \/ StreamGoes(s, "streaming", "backoff")

\* The server ends the stream, or the select! sees the token.
StreamEnd(s) == s \notin Direct /\ StreamGoes(s, "streaming", "stopped")

Resumes(s) == IF s \in Direct THEN "streaming" ELSE "connecting"

\* After the wait the loop tests the token; the token ends the wait too.
StreamRetry(s) ==
    StreamGoes(s, "backoff", IF cancelled THEN "stopped" ELSE Resumes(s))

\* A direct task is authenticated: it starts its listener (which tests the
\* token first, as its own loop does) and enters its heartbeat loop.
DirectStarts(d) ==
    /\ task[d] = "connecting"
    /\ task' = [t \in Task |->
                  IF t \in Spawns[d] THEN AfterRead(FALSE)
                  ELSE IF t = d THEN (IF cancelled THEN "stopped" ELSE "streaming")
                  ELSE task[t]]
    /\ UNCHANGED <<main, queue, agg, join_timed_out, monVars, timers, quiet,
                   gateVars>>

\* A gRPC overhead sample has no slot: 0 stands for it in its queue.
Payload(c) == IF c = "grpc" THEN {0} ELSE Slot

StreamUpdate(s) ==
    /\ s \notin Direct
    /\ task[s] = "streaming"
    /\ \E c \in Holds(s) : \E p \in Payload(c) : CanSend(c) /\ Deliver(c, p)
    /\ UNCHANGED <<main, task, agg, join_timed_out, monVars, timers, quiet,
                   gateVars>>

-----------------------------------------------------------------------------
(* The aggregator.                                                         *)
AggTakes(c) ==
    /\ agg = "running"
    /\ queue[c] # <<>>
    /\ queue' = [queue EXCEPT ![c] = Tail(@)]
    /\ UNCHANGED <<main, task, agg, join_timed_out, monVars, timers>>

Notes(activityNow) == quiet' = IF activityNow THEN 0 ELSE quiet

AggShred ==
    /\ AggTakes("shred")
    /\ LET slot == Head(queue["shred"]) IN
       /\ GateShred(slot)
       /\ Notes(ShredArm(slot) \notin {"missed", "beyond"})

AggSlot ==
    /\ AggTakes("slot")
    /\ LET slot == Head(queue["slot"]) IN
       /\ GateSlotEvent(slot)
       /\ Notes(SlotArm(slot) # "beyond")

AggGrpc == AggTakes("grpc") /\ UNCHANGED <<quiet, gateVars>>

Alive(t) == task[t] \notin {"unborn", "stopped"}

\* Mutant: main's own senders are forgotten.
SenderAlive_TasksOnly(c) == \E t \in Task : Alive(t) /\ c \in Holds(t)

SenderAlive(c) ==
    \/ main \in {"waiting", "draining"}
    \/ \E t \in Task : Alive(t) /\ c \in Holds(t)

\* recv() returns None: the first channel found closed and empty ends the loop.
AggBreak ==
    /\ agg = "running"
    /\ \E c \in Channel : queue[c] = <<>> /\ ~SenderAlive(c)
    /\ agg' = "done"
    /\ UNCHANGED <<main, task, queue, join_timed_out, monVars, timers, quiet,
                   gateVars>>

-----------------------------------------------------------------------------
(* Who may stop the run.                                                   *)
SetToken ==
    /\ cancelled' = TRUE
    /\ UNCHANGED <<start_slot_checked, range_end_triggered>>

\* Mutant: the count of silent seconds is not reset by activity.
AfterActivity_NoReset == silent_secs

AfterActivity == 0

\* Mutant: the timeout is compared before it has run out.
SilenceOver_Early(secs) == secs + 1 >= SilenceTimeout

SilenceOver(secs) == secs >= SilenceTimeout

\* Mutant: the flag is read and not cleared.
ActivityAfterSwap_Load == activity

ActivityAfterSwap == FALSE

MonitorWake ==
    /\ monitor = "due"
    /\ IF cancelled
       THEN monitor' = "stopped" /\ UNCHANGED <<silent_secs, gateVars>>
       ELSE /\ activity' = ActivityAfterSwap
            /\ silent_secs' = IF activity THEN AfterActivity ELSE silent_secs + 1
            /\ IF ~activity /\ SilenceOver(silent_secs')
               THEN monitor' = "stopped" /\ SetToken
               ELSE /\ monitor' = "asleep"
                    /\ UNCHANGED <<start_slot_checked, range_end_triggered,
                                   cancelled>>
    /\ UNCHANGED <<main, task, queue, agg, join_timed_out, timers, quiet>>

\* Mutant: the task spawned for the grace period never cancels.
GraceDue_Never == FALSE

GraceDue == range_end_triggered /\ grace_left = 0

GraceEnds ==
    /\ GraceDue
    /\ ~cancelled
    /\ SetToken
    /\ UNCHANGED <<activity, main, task, queue, agg, join_timed_out, monVars,
                   timers, quiet>>

\* Mutant: the duration is not waited for.
StopSeen_TokenOnly == cancelled

StopSeen == cancelled \/ (timed /\ duration_left = 0)

MainStops ==
    /\ main = "waiting"
    /\ main' = "draining"
    /\ SetToken
    /\ UNCHANGED <<activity, task, queue, agg, join_timed_out, monVars, timers,
                   quiet>>

MainSeesStop == StopSeen /\ MainStops
CtrlC        == MainStops

-----------------------------------------------------------------------------
(* Winding down.                                                           *)
MainGoes(from, to) ==
    /\ main = from
    /\ main' = to
    /\ UNCHANGED <<task, queue, agg, monVars, timers, quiet, gateVars>>

\* After 200 ms main drops its senders.
DrainEnds == MainGoes("draining", "joining") /\ UNCHANGED join_timed_out

\* Mutant: the aggregator is not waited for.
JoinReady_Always == TRUE

JoinReady == agg = "done"

Joined ==
    JoinReady /\ MainGoes("joining", "reporting") /\ UNCHANGED join_timed_out

JoinTimesOut ==
    /\ agg # "done" /\ join_left = 0
    /\ MainGoes("joining", "reporting")
    /\ join_timed_out' = TRUE

Report == MainGoes("reporting", "returned") /\ UNCHANGED join_timed_out

\* Dropping the runtime waits for the blocking threads, not for the tasks.
Exit ==
    /\ \A l \in Listener : ~Alive(l)
    /\ MainGoes("returned", "exited")
    /\ UNCHANGED join_timed_out

Exited == main = "exited" /\ UNCHANGED runVars

-----------------------------------------------------------------------------
Stepping == main # "exited"

MainStep == MainSeesStop \/ DrainEnds \/ Joined \/ JoinTimesOut \/ Report \/ Exit
AggStep  == AggShred \/ AggSlot \/ AggGrpc \/ AggBreak

RunNext ==
    \/ Tick
    \/ Stepping /\ \E l \in Listener : ListenerRead(l)
    \/ Stepping /\ \E s \in Stream :
          StreamConnect(s) \/ StreamFail(s) \/ StreamEnd(s) \/ StreamRetry(s)
          \/ StreamUpdate(s)
    \/ Stepping /\ \E d \in Direct : DirectStarts(d)
    \/ Stepping /\ AggStep
    \/ Stepping /\ MonitorWake
    \/ Stepping /\ GraceEnds
    \/ MainStep
    \/ CtrlC
    \/ Exited

\* Time passes, timers fire, woken tasks are scheduled and blocking reads
\* return within their timeout (a read that times out changes nothing until
\* the token is set).  Nothing is assumed of the network, of the servers or
\* of the user: no packet has to arrive.
RunFairness ==
    /\ WF_runVars(Tick)
    /\ WF_runVars(MonitorWake)
    /\ WF_runVars(GraceEnds)
    /\ WF_runVars(MainStep)
    /\ WF_runVars(AggStep)
    /\ \A l \in Listener : WF_runVars(cancelled /\ ListenerRead(l))

RunSpec == RunInit /\ [][RunNext]_runVars /\ RunFairness

-----------------------------------------------------------------------------
TaskState == {"unborn", "reading", "connecting", "streaming", "backoff", "stopped"}

RunShape ==
    /\ start_slot_checked \in BOOLEAN /\ range_end_triggered \in BOOLEAN
    /\ activity \in BOOLEAN /\ cancelled \in BOOLEAN
    /\ main \in {"waiting", "draining", "joining", "reporting", "returned",
                 "exited"}
    /\ task \in [Task -> TaskState]
    /\ queue \in [Channel -> Seq(Slot \cup {0})]
    /\ agg \in {"running", "done"}
    /\ join_timed_out \in BOOLEAN
    /\ monitor \in {"asleep", "due", "stopped"}
    /\ silent_secs \in Nat
    /\ duration_left \in Nat /\ grace_left \in Nat /\ join_left \in Nat
    /\ quiet \in Nat

\* A direct task is in its heartbeat loop only with its listener started.
HeartbeatsWithListener ==
    \A d \in Direct : task[d] \in {"streaming", "backoff"} =>
        \A l \in Spawns[d] : task[l] # "unborn"

(* The variables keep their types, and a direct task whose set-up fails    *)
(* ends: it never gets to its heartbeats without its listener.             *)
RunTypeOK == RunShape /\ HeartbeatsWithListener

(* What the run promises to its user, see RunPhases.                       *)
PhaseOf ==
    CASE main = "exited"   -> "exited"
      [] main = "returned" -> "reported"
      [] OTHER             -> IF cancelled THEN "stopping" ELSE "running"

WritesOf ==
    IF agg = "done" THEN "frozen"
    ELSE IF join_timed_out THEN "abandoned" ELSE "open"

Phases == INSTANCE RunPhases WITH phase <- PhaseOf, writes <- WritesOf

(* The run implements RunPhases: it passes from running to stopping,       *)
(* reports once and only after it has stopped and let go of the            *)
(* aggregator, and a run that was stopped always reports (even if every    *)
(* gRPC call hangs).                                                       *)
ImplementsRunPhases == Phases!PhaseSpec

(* The aggregator never leaves its loop while the run is on, whatever the  *)
(* streams and listeners do: "None => break" fires on any closed channel,  *)
(* and only main's own senders keep an unused channel open.                *)
AggOutlivesRun == agg = "done" => main \notin {"waiting", "draining"}

(* When the silence monitor stops the run, no activity was seen for the    *)
(* configured number of seconds (at least one), however late it woke up.   *)
MonitorFires == ~cancelled /\ cancelled' /\ monitor = "due" /\ monitor' = "stopped"

SilenceNotPremature ==
    [][MonitorFires => quiet >= SilenceTimeout /\ quiet >= 1]_runVars

(* Why it is so: the count of silent seconds never runs ahead of the time  *)
(* that passed without activity.  A second is counted only after a full    *)
(* sleep (monitor = "due"), the flag being clear says that no activity     *)
(* came since the last swap, and the monitor stops at the limit.           *)
MonitorKeepsCount ==
    /\ ~activity /\ monitor = "asleep" => silent_secs <= quiet
    /\ ~activity /\ monitor = "due" => silent_secs + 1 <= quiet
    /\ monitor # "stopped" => silent_secs = 0 \/ silent_secs < SilenceTimeout

(* A cancelled run gets to its exit, even if every gRPC call hangs: main   *)
(* waits for nothing without a limit, and no blocking thread stays in its  *)
(* loop and keeps the runtime alive.                                       *)
CancelledRunExits == cancelled ~> (main = "exited")

(* Once a shred beyond the end slot was seen the run is cancelled.         *)
RangeEndStopsRun == range_end_triggered ~> cancelled

(* A run with a duration stops, whatever arrives.                          *)
TimedRunStops == ~slot_range_mode => <>cancelled

(* A run on which nothing arrives any more stops by itself.                *)
EventArrives == \E c \in {"shred", "slot"} : Len(queue'[c]) > Len(queue[c])

SilentRunStops == []<><<EventArrives>>_runVars \/ <>cancelled
=============================================================================
