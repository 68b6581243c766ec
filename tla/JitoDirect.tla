----------------------------- MODULE JitoDirect -----------------------------
(***************************************************************************)
(* Jito direct mode (run_direct_mode of src/src/sources/jito.rs): the task *)
(* connects to a block engine, authenticates in two calls, starts its UDP  *)
(* listener, and then keeps its registration alive by heartbeats, renewing *)
(* the access token before it expires.                                     *)
(*                                                                         *)
(* The block engine is external and modelled by what the code expects of   *)
(* it: a registration lasts for the TTL of the last heartbeat that was     *)
(* accepted, and a heartbeat with an expired token is refused.  Both ends  *)
(* read the same clock.  Every time is kept as what is left of it, in      *)
(* units of one tick; a call is one phase of the task.                     *)
(***************************************************************************)
EXTENDS Naturals, FiniteSetsExt

CONSTANTS
    Margin,     \* a token is renewed when less than this is left: 60 s
    MinWait,    \* least pause between heartbeats: 500 ms
    Lifetime,   \* what the server may grant a token
    Ttl,        \* what the server may grant a registration
    CallLimit   \* a call that is open for longer counts as late

ASSUME JitoDirectAssumption ==
    /\ Margin \in Nat \ {0}
    /\ MinWait \in Nat \ {0}
    /\ Lifetime \subseteq Nat \ {0}
    /\ Ttl \subseteq Nat
    /\ CallLimit \in Nat \ {0}
    /\ CallLimit < Margin

VARIABLES
    phase,          \* what the task is doing: a call, or the pause
    access_left,    \* life left of tokens.access_token
    refresh_left,   \* life left of tokens.refresh_token
    stated,         \* which of the two came with an expires_at_utc
    pause_left,     \* of the sleep between two heartbeats
    listening,      \* the UDP listener was spawned
    cancelled,      \* the CancellationToken
    \* the block engine:
    registration,   \* "none", "live" or "lapsed"
    ttl, ttl_left,  \* granted last, and what is left of it
    \* the open call:
    call_left,      \* until CallLimit
    served,         \* a heartbeat: it was accepted and is not answered yet
    \* history:
    good_token,     \* the last renewal gave a token that outlives a call
    disturbed,      \* since the last accepted heartbeat one has failed, a call
                    \* was late, or the task was woken late
    late_beats      \* heartbeats sent after the token was cancelled

tokenVars  == <<access_left, refresh_left, stated, good_token>>
serverVars == <<registration, ttl, ttl_left>>
callVars   == <<phase, call_left, late_beats>>
directVars == <<tokenVars, serverVars, callVars, served, pause_left, listening,
                cancelled, disturbed>>

SetupCalls == {"connect", "challenge", "tokens"}
\* Renewal: by the refresh token, or from scratch.
RenewCalls == {"refresh", "rechallenge", "retokens"}
Calls      == SetupCalls \cup RenewCalls \cup {"heartbeat"}

DirectInit ==
    /\ phase = "connect"
    /\ access_left = 0 /\ refresh_left = 0 /\ stated = {}
    /\ pause_left = 0
    /\ listening = FALSE
    /\ cancelled = FALSE
    /\ registration = "none" /\ ttl = 0 /\ ttl_left = 0
    /\ call_left = CallLimit /\ served = FALSE
    /\ good_token = FALSE
    /\ disturbed = FALSE
    /\ late_beats = 0

-----------------------------------------------------------------------------
Less(n) == IF n = 0 THEN 0 ELSE n - 1

Overdue == \/ phase \in Calls /\ call_left = 0
           \/ phase = "pause" /\ pause_left = 0

Tick ==
    /\ access_left' = Less(access_left)
    /\ refresh_left' = Less(refresh_left)
    /\ pause_left' = Less(pause_left)
    /\ call_left' = Less(call_left)
    /\ ttl_left' = Less(ttl_left)
    /\ registration' =
          IF registration = "live" /\ ttl_left = 0 THEN "lapsed" ELSE registration
    /\ disturbed' = (disturbed \/ Overdue)
    /\ UNCHANGED <<phase, stated, listening, cancelled, ttl, served, good_token,
                   late_beats>>

Cancel ==
    /\ ~cancelled
    /\ cancelled' = TRUE
    /\ UNCHANGED <<tokenVars, serverVars, callVars, served, pause_left, listening,
                   disturbed>>

-----------------------------------------------------------------------------
(* The task.                                                               *)
Open(call) == phase' = call /\ call_left' = CallLimit
Enter(state) == phase' = state /\ call_left' = 0

SendHeartbeat ==
    /\ Open("heartbeat")
    /\ late_beats' = IF cancelled THEN late_beats + 1 ELSE late_beats

\* What the task takes to be left: a token without expires_at_utc is given
\* the expiry 1970-01-01.
Seen(token, left, told) == IF token \in told THEN left ELSE 0

\* Mutant: a token is renewed only once it has expired.
Expiring_TooLate(left) == left = 0

Expiring(left) == left < Margin

\* Mutant: the refresh token is used for ever.
Renewal_RefreshOnly(refresh_seen) == "refresh"

\* try_refresh: a refresh token that is expiring itself is not used.
Renewal(refresh_seen) ==
    IF Expiring(refresh_seen) THEN "rechallenge" ELSE "refresh"

\* Mutant: the token is looked at only when there is nothing to renew.
LoopTop_RenewsFirst(access_seen, refresh_seen) ==
    \/ cancelled /\ ~Expiring(access_seen) /\ Enter("stopped") /\ UNCHANGED late_beats
    \/ Expiring(access_seen) /\ Open(Renewal(refresh_seen)) /\ UNCHANGED late_beats
    \/ ~cancelled /\ ~Expiring(access_seen) /\ SendHeartbeat

\* Top of the heartbeat loop.
LoopTop(access_seen, refresh_seen) ==
    \/ cancelled /\ Enter("stopped") /\ UNCHANGED late_beats
    \/ ~cancelled /\ Expiring(access_seen) /\ Open(Renewal(refresh_seen))
       /\ UNCHANGED late_beats
    \/ ~cancelled /\ ~Expiring(access_seen) /\ SendHeartbeat

FollowUp == CASE phase = "connect"     -> "challenge"
              [] phase = "challenge"   -> "tokens"
              [] phase = "rechallenge" -> "retokens"

\* Mutant: the listener is started as soon as there is a connection.
NextCall_ListensAtOnce ==
    /\ phase \in {"connect", "challenge", "rechallenge"}
    /\ Open(FollowUp)
    /\ listening' = TRUE
    /\ UNCHANGED <<tokenVars, serverVars, late_beats, served, pause_left,
                   cancelled, disturbed>>

\* connect(), or a challenge, is answered; the next call follows.
NextCall ==
    /\ phase \in {"connect", "challenge", "rechallenge"}
    /\ Open(FollowUp)
    /\ UNCHANGED <<tokenVars, serverVars, late_beats, served, pause_left,
                   listening, cancelled, disturbed>>

\* The first error ends the task: the set-up is not retried.
SetupFails ==
    /\ phase \in SetupCalls
    /\ Enter("failed")
    /\ UNCHANGED <<tokenVars, serverVars, late_beats, served, pause_left,
                   listening, cancelled, disturbed>>

\* A new pair of tokens.
NewPair ==
    /\ access_left' \in Lifetime
    /\ refresh_left' \in Lifetime
    /\ stated' \in SUBSET {"access", "refresh"}
    /\ good_token' = (access_left' > CallLimit)

\* The first pair: spawn the listener and enter the heartbeat loop.
Authenticated ==
    /\ phase = "tokens"
    /\ NewPair
    /\ listening' = TRUE
    /\ LoopTop(Seen("access", access_left', stated'),
               Seen("refresh", refresh_left', stated'))
    /\ UNCHANGED <<serverVars, served, pause_left, cancelled, disturbed>>

\* The server knows a refresh token until it expires.
Refreshed ==
    /\ phase = "refresh"
    /\ refresh_left > 0
    /\ access_left' \in Lifetime
    /\ \E told \in SUBSET {"access"} : stated' = told \cup (stated \ {"access"})
    /\ good_token' = (access_left' > CallLimit)
    /\ SendHeartbeat
    /\ UNCHANGED <<refresh_left, serverVars, served, pause_left, listening,
                   cancelled, disturbed>>

Reauthenticated ==
    /\ phase = "retokens"
    /\ NewPair
    /\ SendHeartbeat
    /\ UNCHANGED <<serverVars, served, pause_left, listening, cancelled, disturbed>>

\* The old tokens are kept, and the heartbeat goes out with them.
RenewalFails ==
    /\ phase \in RenewCalls
    /\ good_token' = FALSE
    /\ SendHeartbeat
    /\ UNCHANGED <<access_left, refresh_left, stated, serverVars, served,
                   pause_left, listening, cancelled, disturbed>>

\* Mutant: the pause is the whole TTL.
Pause_WholeTtl(granted) == Max({granted, MinWait})

\* Half the TTL, and at least the minimum.
Pause(granted) == Max({granted \div 2, MinWait})

\* After an error the TTL is taken to be one second: twice the least pause.
RetryTtl == 2 * MinWait

PauseFor(granted) ==
    /\ Enter("pause")
    /\ pause_left' = Pause(granted)
    /\ served' = FALSE
    /\ UNCHANGED <<tokenVars, serverVars, late_beats, listening, cancelled>>

HeartbeatOk ==
    /\ phase = "heartbeat" /\ served
    /\ PauseFor(ttl)
    /\ UNCHANGED disturbed

\* Refused, or lost on the way there or back.
HeartbeatFails ==
    /\ phase = "heartbeat"
    /\ PauseFor(RetryTtl)
    /\ disturbed' = TRUE

\* The sleep is over, or the select! sees the token.
PauseEnds ==
    /\ phase = "pause"
    /\ \/ /\ pause_left = 0
          /\ LoopTop(Seen("access", access_left, stated),
                     Seen("refresh", refresh_left, stated))
       \/ cancelled /\ Enter("stopped") /\ UNCHANGED late_beats
    /\ pause_left' = 0
    /\ UNCHANGED <<tokenVars, serverVars, served, listening, cancelled, disturbed>>

-----------------------------------------------------------------------------
\* The block engine accepts a heartbeat that carries a live token.
HeartbeatServed ==
    /\ phase = "heartbeat" /\ ~served
    /\ access_left > 0
    /\ served' = TRUE
    /\ registration' = "live"
    /\ ttl' \in Ttl
    /\ ttl_left' = ttl'
    /\ disturbed' = FALSE
    /\ UNCHANGED <<tokenVars, callVars, pause_left, listening, cancelled>>

Ended == phase \in {"stopped", "failed"} /\ UNCHANGED directVars

CallEnds == NextCall \/ SetupFails \/ Authenticated \/ Refreshed
            \/ Reauthenticated \/ RenewalFails \/ HeartbeatOk \/ HeartbeatFails

DirectNext == Tick \/ Cancel \/ CallEnds \/ PauseEnds \/ HeartbeatServed \/ Ended

\* Time passes, the pause ends, and no call stays open for ever (an assumption
\* about the network: no call has a timeout).  Of the block engine:
\* authentication and a heartbeat that could succeed do so
\* sooner or later.  A refresh never has to: the server may have revoked
\* the refresh token.
DirectFairness ==
    /\ WF_directVars(Tick)
    /\ WF_directVars(PauseEnds)
    /\ WF_directVars(CallEnds)
    /\ SF_directVars(NextCall)
    /\ SF_directVars(Reauthenticated)
    /\ SF_directVars(HeartbeatServed)

DirectSpec == DirectInit /\ [][DirectNext]_directVars /\ DirectFairness

-----------------------------------------------------------------------------
(* The variables keep their types, and the UDP listener is there exactly   *)
(* when the set-up went through: not during it, nor after it failed.       *)
DirectTypeOK ==
    /\ phase \in Calls \cup {"pause", "stopped", "failed"}
    /\ access_left \in Nat /\ refresh_left \in Nat
    /\ stated \subseteq {"access", "refresh"}
    /\ pause_left \in Nat /\ call_left \in 0..CallLimit
    /\ registration \in {"none", "live", "lapsed"}
    /\ ttl \in Ttl \cup {0} /\ ttl_left \in 0..ttl
    /\ listening \in BOOLEAN /\ cancelled \in BOOLEAN /\ served \in BOOLEAN
    /\ good_token \in BOOLEAN /\ disturbed \in BOOLEAN
    /\ late_beats \in Nat
    /\ listening <=> phase \notin SetupCalls \cup {"failed"}

\* A TTL that leaves room for the end of one heartbeat, the pause, a renewal
\* from scratch and the next heartbeat.
RoomFor(granted) ==
    Max({granted \div 2, MinWait}) + 4 * CallLimit <= granted

(* jito.rs: "Re-heartbeat at half the TTL, minimum 500ms".  While the task *)
(* runs, its registration lapses only if a heartbeat failed or something   *)
(* was late - never because a token had to be renewed, be it in vain, in   *)
(* between.  (A TTL below four calls and a pause can lapse: the minimum    *)
(* pause is longer than half of it, or the calls eat up the other half.)   *)
RegistrationKept ==
    registration = "lapsed" /\ RoomFor(ttl) /\ phase # "stopped" => disturbed

(* "Refresh access token if it expires within 60s": the access token a     *)
(* heartbeat carries outlives the call, so that the server does not refuse *)
(* it, unless the last renewal failed or gave a token as short as a call.  *)
BearerOutlivesCall ==
    phase = "heartbeat" /\ good_token /\ call_left > 0 => access_left > call_left

(* A cancelled task sends at most one more heartbeat, the one whose token  *)
(* it was renewing, although no call watches the token.                    *)
AtMostOneLateBeat == late_beats <= 1

(* A direct source that was set up does not go silent for good: whatever   *)
(* expires, fails or is revoked, it is registered again and again until it *)
(* is stopped - provided that each call ends some time, which the program  *)
(* itself does nothing for (no call of jito.rs has a timeout).             *)
RegistrationRecovers ==
    [](listening /\ ~cancelled => <>(registration = "live" \/ cancelled))
=============================================================================
