--------------------------- MODULE JitoDirectProofs ---------------------------
(***************************************************************************)
(* TLAPS proofs about Jito direct mode: what a registration and a token    *)
(* are worth while the task works on time, for every margin, pause, token  *)
(* lifetime and TTL.                                                       *)
(***************************************************************************)
EXTENDS JitoDirect, TLAPS

LEMMA PauseFacts ==
    ASSUME NEW granted \in Nat
    PROVE  /\ Pause(granted) \in Nat
           /\ RoomFor(granted) <=> Pause(granted) + 4 * CallLimit <= granted
<1> DEFINE half == granted \div 2
<1>1. half \in Nat /\ MinWait \in Nat
  BY JitoDirectAssumption
<1> HIDE DEF half
<1>2. \E x \in {half, MinWait} : \A y \in {half, MinWait} : x >= y
  BY <1>1
<1>3. Max({half, MinWait}) \in {half, MinWait}
  BY <1>2 DEF Max
<1>4. Pause(granted) = Max({half, MinWait})
      /\ (RoomFor(granted) <=> Max({half, MinWait}) + 4 * CallLimit <= granted)
  BY DEF Pause, RoomFor, half
<1> QED BY <1>1, <1>3, <1>4

LEMMA LessFacts == \A n \in Nat : Less(n) \in Nat /\ Less(n) <= n
                                  /\ (n > 0 => Less(n) = n - 1)
  BY DEF Less

-----------------------------------------------------------------------------
(* DirectTypeOK in two parts: the quantities, and the flags.               *)
Quantities ==
    /\ phase \in Calls \cup {"pause", "stopped", "failed"}
    /\ access_left \in Nat /\ refresh_left \in Nat
    /\ stated \subseteq {"access", "refresh"}
    /\ pause_left \in Nat /\ call_left \in 0..CallLimit
    /\ registration \in {"none", "live", "lapsed"}
    /\ ttl \in Ttl \cup {0} /\ ttl_left \in 0..ttl
    /\ late_beats \in Nat

Flags ==
    /\ listening \in BOOLEAN /\ cancelled \in BOOLEAN /\ served \in BOOLEAN
    /\ good_token \in BOOLEAN /\ disturbed \in BOOLEAN
    /\ listening <=> phase \notin SetupCalls \cup {"failed"}

LEMMA TypeParts == DirectTypeOK <=> Quantities /\ Flags
  BY Zenon DEF DirectTypeOK, Quantities, Flags

LEMMA DirectTypeInit == DirectInit => DirectTypeOK
<1> SUFFICES ASSUME DirectInit PROVE Quantities /\ Flags
  BY TypeParts
<1> USE JitoDirectAssumption DEF DirectInit, Calls, SetupCalls, RenewCalls
<1>1. Quantities
  BY DEF Quantities
<1>2. Flags
  BY DEF Flags
<1> QED BY <1>1, <1>2

(* Where the top of the loop leads.                                        *)
LEMMA LoopTopLeadsTo ==
    ASSUME DirectTypeOK, NEW access_seen, NEW refresh_seen,
           LoopTop(access_seen, refresh_seen)
    PROVE  /\ phase' \in {"stopped", "refresh", "rechallenge", "heartbeat"}
           /\ call_left' \in 0..CallLimit
           /\ phase' # "stopped" => call_left' = CallLimit /\ ~cancelled
           /\ phase' = "heartbeat" => ~Expiring(access_seen)
           /\ late_beats' = late_beats
  BY JitoDirectAssumption
     DEF LoopTop, Enter, Open, Renewal, SendHeartbeat, DirectTypeOK

LEMMA SendLeadsTo ==
    ASSUME DirectTypeOK, SendHeartbeat
    PROVE  /\ phase' = "heartbeat" /\ call_left' = CallLimit
           /\ late_beats' = IF cancelled THEN late_beats + 1 ELSE late_beats
           /\ call_left' \in 0..CallLimit /\ late_beats' \in Nat
  BY JitoDirectAssumption DEF SendHeartbeat, Open, DirectTypeOK

LEMMA DirectTypeNext == DirectTypeOK /\ [DirectNext]_directVars => DirectTypeOK'
<1> SUFFICES ASSUME DirectTypeOK, [DirectNext]_directVars
             PROVE  Quantities' /\ Flags'
  BY Zenon DEF DirectTypeOK, Quantities, Flags
<1> USE JitoDirectAssumption
    DEF Calls, SetupCalls, RenewCalls, tokenVars, serverVars, callVars
<1>0. Quantities /\ Flags /\ ttl \in Nat
  <2>1. Quantities /\ Flags
    BY TypeParts
  <2> QED BY <2>1 DEF Quantities
<1>1. CASE Tick
  <2>1. ttl_left' \in 0..ttl /\ call_left' \in 0..CallLimit
    BY <1>0, <1>1, LessFacts DEF Tick, Quantities
  <2>2. access_left' \in Nat /\ refresh_left' \in Nat /\ pause_left' \in Nat
    BY <1>0, <1>1, LessFacts DEF Tick, Quantities
  <2>3. Quantities'
    BY <1>0, <1>1, <2>1, <2>2 DEF Tick, Quantities
  <2>4. Flags'
    BY <1>0, <1>1 DEF Tick, Overdue, Flags
  <2> QED BY <2>3, <2>4
<1>2. CASE Cancel
  BY <1>0, <1>2 DEF Cancel, Quantities, Flags
<1>3. CASE NextCall
  BY <1>0, <1>3 DEF NextCall, FollowUp, Open, Quantities, Flags
<1>4. CASE SetupFails
  BY <1>0, <1>4 DEF SetupFails, Enter, Quantities, Flags
<1>5. CASE Authenticated
  <2>1. /\ phase' \in {"stopped", "refresh", "rechallenge", "heartbeat"}
        /\ call_left' \in 0..CallLimit /\ late_beats' = late_beats
    BY <1>5, LoopTopLeadsTo DEF Authenticated
  <2>2. Quantities'
    BY <1>0, <1>5, <2>1 DEF Authenticated, NewPair, Quantities
  <2>3. Flags'
    BY <1>0, <1>5, <2>1 DEF Authenticated, NewPair, Flags
  <2> QED BY <2>2, <2>3
<1>6. CASE Refreshed
  BY <1>0, <1>6, SendLeadsTo DEF Refreshed, Quantities, Flags
<1>7. CASE Reauthenticated
  BY <1>0, <1>7, SendLeadsTo DEF Reauthenticated, NewPair, Quantities, Flags
<1>8. CASE RenewalFails
  BY <1>0, <1>8, SendLeadsTo DEF RenewalFails, Quantities, Flags
<1>9. CASE HeartbeatOk \/ HeartbeatFails
  <2>1. PICK granted \in Nat : PauseFor(granted)
    BY <1>0, <1>9 DEF HeartbeatOk, HeartbeatFails, RetryTtl
  <2>2. Quantities'
    BY <1>0, <1>9, <2>1, PauseFacts
       DEF HeartbeatOk, HeartbeatFails, PauseFor, Enter, Quantities
  <2>3. phase = "heartbeat" /\ disturbed' \in BOOLEAN
    BY <1>0, <1>9 DEF HeartbeatOk, HeartbeatFails, Flags
  <2>4. Flags'
    BY <1>0, <2>1, <2>3 DEF PauseFor, Enter, Flags
  <2> QED BY <2>2, <2>4
<1>10. CASE PauseEnds
  <2>1. /\ phase' \in {"stopped", "refresh", "rechallenge", "heartbeat"}
        /\ call_left' \in 0..CallLimit /\ late_beats' = late_beats
    BY <1>10, LoopTopLeadsTo DEF PauseEnds, Enter
  <2> QED BY <1>0, <1>10, <2>1 DEF PauseEnds, Quantities, Flags
<1>11. CASE HeartbeatServed
  <2>1. Quantities'
    BY <1>0, <1>11 DEF HeartbeatServed, Quantities
  <2>2. Flags'
    BY <1>0, <1>11 DEF HeartbeatServed, Flags
  <2> QED BY <2>1, <2>2
<1>12. CASE Ended \/ UNCHANGED directVars
  <2>1. UNCHANGED directVars
    BY <1>12 DEF Ended
  <2>2. Quantities'
    BY <1>0, <2>1 DEF directVars, Quantities
  <2>3. Flags'
    BY <1>0, <2>1 DEF directVars, Flags
  <2> QED BY <2>2, <2>3
<1> QED BY <1>1, <1>2, <1>3, <1>4, <1>5, <1>6, <1>7, <1>8, <1>9, <1>10, <1>11,
           <1>12 DEF DirectNext, CallEnds

(* The state of direct mode stays in shape; listening is spawned exactly   *)
(* when the set-up got through.                                            *)
THEOREM DirectTypes == DirectSpec => []DirectTypeOK
  BY DirectTypeInit, DirectTypeNext, PTL DEF DirectSpec

-----------------------------------------------------------------------------
(* A late heartbeat is the last the task does before it stops.             *)
LateBeatIsLast ==
    late_beats = 0 \/ (late_beats = 1 /\ cancelled
                       /\ phase \in {"heartbeat", "pause", "stopped"})

LEMMA LateBeatNext ==
    DirectTypeOK /\ LateBeatIsLast /\ [DirectNext]_directVars => LateBeatIsLast'
<1> SUFFICES ASSUME DirectTypeOK, LateBeatIsLast, [DirectNext]_directVars
             PROVE  LateBeatIsLast'
  OBVIOUS
<1> USE DEF LateBeatIsLast, SetupCalls, RenewCalls, tokenVars, serverVars,
            callVars, directVars
<1>1. CASE Tick \/ Cancel \/ HeartbeatServed \/ Ended \/ UNCHANGED directVars
  BY <1>1 DEF Tick, Cancel, HeartbeatServed, Ended
<1>2. CASE NextCall \/ SetupFails
  BY <1>2 DEF NextCall, FollowUp, SetupFails, Open, Enter
<1>3. CASE Authenticated
  BY <1>3, LoopTopLeadsTo DEF Authenticated
<1>4. CASE Refreshed \/ Reauthenticated \/ RenewalFails
  <2>1. SendHeartbeat /\ UNCHANGED cancelled /\ late_beats = 0
    BY <1>4 DEF Refreshed, Reauthenticated, RenewalFails
  <2> QED BY <2>1, SendLeadsTo
<1>5. CASE HeartbeatOk \/ HeartbeatFails
  BY <1>5 DEF HeartbeatOk, HeartbeatFails, PauseFor, Enter
<1>6. CASE PauseEnds
  BY <1>6, LoopTopLeadsTo DEF PauseEnds, Enter
<1> QED BY <1>1, <1>2, <1>3, <1>4, <1>5, <1>6 DEF DirectNext, CallEnds

(* However a cancellation falls, the task sends one more heartbeat at most *)
(* and goes no further round the loop.                                     *)
THEOREM DirectAtMostOneLateBeat == DirectSpec => []AtMostOneLateBeat
<1>1. DirectInit => LateBeatIsLast
  BY DEF DirectInit, LateBeatIsLast
<1>2. LateBeatIsLast => AtMostOneLateBeat
  BY DEF LateBeatIsLast, AtMostOneLateBeat
<1> QED BY <1>1, <1>2, LateBeatNext, DirectTypes, PTL DEF DirectSpec

-----------------------------------------------------------------------------
LEMMA BearerNext ==
    DirectTypeOK /\ BearerOutlivesCall /\ [DirectNext]_directVars
       => BearerOutlivesCall'
<1> SUFFICES ASSUME DirectTypeOK, BearerOutlivesCall, [DirectNext]_directVars,
                    phase' = "heartbeat", good_token', call_left' > 0
             PROVE  access_left' > call_left'
  BY DEF BearerOutlivesCall
<1> USE JitoDirectAssumption
    DEF SetupCalls, RenewCalls, tokenVars, serverVars, callVars, directVars
<1>0. access_left \in Nat /\ call_left \in Nat
  BY DEF DirectTypeOK
<1>1. CASE Tick
  <2>1. phase = "heartbeat" /\ good_token
        /\ access_left' = Less(access_left) /\ call_left' = Less(call_left)
    BY <1>1 DEF Tick
  <2>2. call_left > 0
    BY <1>0, <2>1 DEF Less
  <2> QED BY <1>0, <2>1, <2>2 DEF BearerOutlivesCall, Less
<1>2. CASE Cancel \/ HeartbeatServed \/ Ended \/ UNCHANGED directVars
  BY <1>2 DEF Cancel, HeartbeatServed, Ended, BearerOutlivesCall
<1>3. CASE NextCall \/ SetupFails
  BY <1>3 DEF NextCall, FollowUp, SetupFails, Open, Enter
\* The top of the loop sends only what is good for the margin.
<1>4. ASSUME NEW refresh_seen,
             LoopTop(Seen("access", access_left', stated'), refresh_seen),
             access_left' \in Nat
      PROVE  access_left' > call_left'
  <2>1. ~Expiring(Seen("access", access_left', stated')) /\ call_left' = CallLimit
    BY <1>4, LoopTopLeadsTo
  <2>2. access_left' >= Margin
    BY <1>4, <2>1 DEF Expiring, Seen
  <2> QED BY <1>4, <2>1, <2>2
<1>5. CASE Authenticated
  BY <1>4, <1>5 DEF Authenticated, NewPair
<1>6. CASE Refreshed \/ Reauthenticated \/ RenewalFails
  BY <1>6, SendLeadsTo DEF Refreshed, Reauthenticated, RenewalFails, NewPair
<1>7. CASE HeartbeatOk \/ HeartbeatFails
  BY <1>7 DEF HeartbeatOk, HeartbeatFails, PauseFor, Enter
<1>8. CASE PauseEnds
  BY <1>0, <1>4, <1>8 DEF PauseEnds, Enter
<1> QED BY <1>1, <1>2, <1>3, <1>5, <1>6, <1>7, <1>8 DEF DirectNext, CallEnds

(* With a margin longer than a call, the token a heartbeat carries is good *)
(* until the call ends, whatever lifetimes the server grants and whichever *)
(* of them it states.                                                      *)
THEOREM DirectBearerOutlivesCall == DirectSpec => []BearerOutlivesCall
<1>1. DirectInit => BearerOutlivesCall
  BY DEF DirectInit, BearerOutlivesCall
<1> QED BY <1>1, BearerNext, DirectTypes, PTL DEF DirectSpec

-----------------------------------------------------------------------------
(* The most that may have passed since the heartbeat that was accepted     *)
(* last, if nothing was late: the rest of its call, the pause, a renewal   *)
(* from scratch, and the next heartbeat, up to where the task is.          *)
MostSpent ==
    CASE phase = "heartbeat" /\ served -> CallLimit - call_left
      [] phase = "pause" -> CallLimit + Pause(ttl) - pause_left
      [] phase \in {"refresh", "rechallenge"} ->
            2 * CallLimit + Pause(ttl) - call_left
      [] phase = "retokens" -> 3 * CallLimit + Pause(ttl) - call_left
      [] phase = "heartbeat" /\ ~served -> 4 * CallLimit + Pause(ttl) - call_left
      [] OTHER -> 0

OnTime ==
    registration = "live" /\ ~disturbed /\ phase # "stopped"
       => ttl - ttl_left <= MostSpent

\* The server knows the task only after the set-up.
KnownOnceSetUp ==
    /\ phase \in SetupCalls \cup {"failed"} => registration = "none"
    /\ served => phase = "heartbeat" /\ registration # "none"

LeaseInv == OnTime /\ KnownOnceSetUp /\ RegistrationKept

LEMMA KnownNext ==
    DirectTypeOK /\ KnownOnceSetUp /\ [DirectNext]_directVars => KnownOnceSetUp'
<1> SUFFICES ASSUME DirectTypeOK, KnownOnceSetUp, [DirectNext]_directVars
             PROVE  KnownOnceSetUp'
  OBVIOUS
<1> USE DEF KnownOnceSetUp, SetupCalls, RenewCalls, tokenVars, serverVars,
            callVars, directVars
<1>1. CASE Tick \/ Cancel \/ HeartbeatServed \/ Ended \/ UNCHANGED directVars
  BY <1>1 DEF Tick, Cancel, HeartbeatServed, Ended
<1>2. CASE NextCall \/ SetupFails
  BY <1>2 DEF NextCall, FollowUp, SetupFails, Open, Enter
<1>3. CASE Authenticated \/ PauseEnds
  BY <1>3, LoopTopLeadsTo DEF Authenticated, PauseEnds, Enter
<1>4. CASE Refreshed \/ Reauthenticated \/ RenewalFails
  BY <1>4, SendLeadsTo DEF Refreshed, Reauthenticated, RenewalFails
<1>5. CASE HeartbeatOk \/ HeartbeatFails
  BY <1>5 DEF HeartbeatOk, HeartbeatFails, PauseFor, Enter
<1> QED BY <1>1, <1>2, <1>3, <1>4, <1>5 DEF DirectNext, CallEnds

(* While nothing is late, a TTL with room for a round is never used up.    *)
LEMMA RoomIsEnough ==
    ASSUME DirectTypeOK, OnTime, KnownOnceSetUp, registration = "live",
           ~disturbed, RoomFor(ttl), phase # "stopped", ttl_left = 0
    PROVE  Overdue
<1>1. /\ ttl \in Nat /\ CallLimit \in Nat \ {0} /\ call_left \in Nat
      /\ pause_left \in Nat /\ call_left <= CallLimit
  BY JitoDirectAssumption DEF DirectTypeOK
<1>2. Pause(ttl) \in Nat /\ Pause(ttl) + 4 * CallLimit <= ttl
  BY <1>1, PauseFacts
<1>3. phase \in {"heartbeat", "pause", "refresh", "rechallenge", "retokens"}
  BY DEF DirectTypeOK, KnownOnceSetUp, Calls, SetupCalls, RenewCalls
<1>4. ttl <= MostSpent
  BY <1>1 DEF OnTime
<1>5. CASE phase = "pause"
  BY <1>1, <1>2, <1>4, <1>5 DEF MostSpent
<1>6. CASE phase # "pause"
  <2>1. ttl <= 4 * CallLimit + Pause(ttl) - call_left
    BY <1>1, <1>2, <1>3, <1>4, <1>6 DEF MostSpent
  <2>2. call_left = 0
    BY <1>1, <1>2, <2>1
  <2> QED BY <1>3, <1>6, <2>2 DEF Overdue, Calls, RenewCalls
<1> QED BY <1>5, <1>6

LEMMA OnTimeNext ==
    DirectTypeOK /\ OnTime /\ KnownOnceSetUp /\ [DirectNext]_directVars => OnTime'
<1> SUFFICES ASSUME DirectTypeOK, OnTime, KnownOnceSetUp,
                    [DirectNext]_directVars, registration' = "live",
                    ~disturbed', phase' # "stopped"
             PROVE  ttl' - ttl_left' <= MostSpent'
  BY DEF OnTime
<1> USE JitoDirectAssumption
    DEF SetupCalls, RenewCalls, tokenVars, serverVars, callVars, directVars
<1>0. /\ ttl \in Nat /\ ttl_left \in Nat /\ ttl_left <= ttl /\ call_left \in Nat
      /\ pause_left \in Nat /\ call_left <= CallLimit /\ CallLimit \in Nat \ {0}
      /\ Pause(ttl) \in Nat
  <2>1. ttl \in Nat
    BY DEF DirectTypeOK
  <2> QED BY <2>1, PauseFacts DEF DirectTypeOK
\* The phases a registered task can be in.
<1> DEFINE rounds == {"heartbeat", "pause", "refresh", "rechallenge", "retokens"}
<1>a. registration = "live" => phase \in rounds \cup {"stopped"}
  BY DEF DirectTypeOK, KnownOnceSetUp, Calls
<1>1. CASE Tick
  <2>1. registration = "live" /\ ~disturbed /\ ~Overdue /\ ttl_left # 0
        /\ UNCHANGED <<phase, ttl, served>>
    BY <1>1 DEF Tick
  <2>2. ttl - ttl_left <= MostSpent /\ phase \in rounds
    BY <1>a, <2>1 DEF OnTime
  <2>3. ttl_left' = ttl_left - 1
    BY <1>0, <1>1, <2>1 DEF Tick, Less
  <2>4. CASE phase = "pause"
    <3>1. pause_left' = pause_left - 1
      BY <1>0, <1>1, <2>1, <2>4 DEF Tick, Less, Overdue
    <3> QED BY <1>0, <2>1, <2>2, <2>3, <2>4, <3>1 DEF MostSpent
  <2>5. CASE phase # "pause"
    <3>1. call_left' = call_left - 1
      BY <1>0, <1>1, <2>1, <2>2, <2>5 DEF Tick, Less, Overdue, Calls
    <3>2. Pause(ttl') = Pause(ttl)
      BY <2>1
    <3> QED BY <1>0, <2>1, <2>2, <2>3, <2>5, <3>1, <3>2 DEF MostSpent
  <2> QED BY <2>4, <2>5
<1>2. CASE Cancel \/ Ended \/ UNCHANGED directVars
  <2>1. UNCHANGED <<phase, served, ttl, ttl_left, call_left, pause_left,
                    registration, disturbed>>
    BY <1>2 DEF Cancel, Ended
  <2> QED BY <2>1 DEF OnTime, MostSpent
<1>3. CASE HeartbeatServed
  <2>1. /\ phase' = "heartbeat" /\ served' /\ ttl_left' = ttl'
        /\ call_left' = call_left /\ ttl' \in Nat
    BY <1>3 DEF HeartbeatServed
  <2> QED BY <1>0, <2>1 DEF MostSpent
<1>4. CASE NextCall
  <2>1. phase = "rechallenge" /\ phase' = "retokens" /\ call_left' = CallLimit
        /\ UNCHANGED <<ttl, ttl_left, registration, disturbed>>
    BY <1>a, <1>4 DEF NextCall, FollowUp, Open
  <2>2. ttl - ttl_left <= 2 * CallLimit + Pause(ttl) - call_left
    BY <2>1 DEF OnTime, MostSpent
  <2>3. MostSpent' = 2 * CallLimit + Pause(ttl)
    BY <1>0, <2>1 DEF MostSpent
  <2> QED BY <1>0, <2>1, <2>2, <2>3
<1>5. CASE SetupFails \/ Authenticated
  BY <1>a, <1>5 DEF SetupFails, Authenticated
<1>6. CASE Refreshed \/ Reauthenticated \/ RenewalFails
  <2>1. /\ phase' = "heartbeat" /\ call_left' = CallLimit
        /\ UNCHANGED <<ttl, ttl_left, registration, disturbed, served>>
        /\ phase \in RenewCalls
    BY <1>6, SendLeadsTo DEF Refreshed, Reauthenticated, RenewalFails
  <2>2. ~served'
    BY <2>1 DEF KnownOnceSetUp, DirectTypeOK
  <2>3. ttl - ttl_left <= 3 * CallLimit + Pause(ttl)
    BY <1>0, <2>1 DEF OnTime, MostSpent
  <2>4. MostSpent' = 3 * CallLimit + Pause(ttl)
    BY <1>0, <2>1, <2>2 DEF MostSpent
  <2> QED BY <2>1, <2>3, <2>4
<1>7. CASE HeartbeatFails
  BY <1>7 DEF HeartbeatFails
<1>8. CASE HeartbeatOk
  <2>1. /\ phase = "heartbeat" /\ served /\ phase' = "pause"
        /\ pause_left' = Pause(ttl)
        /\ UNCHANGED <<ttl, ttl_left, registration, disturbed>>
    BY <1>8 DEF HeartbeatOk, PauseFor, Enter
  <2>2. ttl - ttl_left <= CallLimit - call_left
    BY <2>1 DEF OnTime, MostSpent
  <2>3. MostSpent' = CallLimit
    BY <1>0, <2>1 DEF MostSpent
  <2> QED BY <1>0, <2>1, <2>2, <2>3
<1>9. CASE PauseEnds
  <2>1. /\ phase = "pause" /\ pause_left = 0
        /\ UNCHANGED <<ttl, ttl_left, registration, disturbed, served>>
        /\ LoopTop(Seen("access", access_left, stated),
                   Seen("refresh", refresh_left, stated))
    BY <1>9 DEF PauseEnds, Enter
  <2>2. phase' \in {"refresh", "rechallenge", "heartbeat"} /\ call_left' = CallLimit
    BY <2>1, LoopTopLeadsTo
  <2>3. ~served'
    BY <2>1 DEF KnownOnceSetUp, DirectTypeOK
  <2>4. ttl - ttl_left <= CallLimit + Pause(ttl)
    BY <1>0, <2>1 DEF OnTime, MostSpent
  <2>5. MostSpent' >= CallLimit + Pause(ttl)
    BY <1>0, <2>1, <2>2, <2>3 DEF MostSpent
  <2>6. MostSpent' \in Int
    BY <1>0, <2>1, <2>2, <2>3 DEF MostSpent
  <2> QED BY <1>0, <2>1, <2>4, <2>5, <2>6
<1> QED BY <1>1, <1>2, <1>3, <1>4, <1>5, <1>6, <1>7, <1>8, <1>9
        DEF DirectNext, CallEnds

LEMMA KeptNext ==
    DirectTypeOK /\ LeaseInv /\ [DirectNext]_directVars => RegistrationKept'
<1> SUFFICES ASSUME DirectTypeOK, LeaseInv, [DirectNext]_directVars,
                    registration' = "lapsed", RoomFor(ttl'), phase' # "stopped"
             PROVE  disturbed'
  BY DEF RegistrationKept
<1> USE DEF LeaseInv, tokenVars, serverVars, callVars, directVars
<1>1. CASE Tick
  <2>1. CASE registration = "lapsed"
    BY <1>1, <2>1 DEF Tick, RegistrationKept
  <2>2. CASE registration = "live" /\ ttl_left = 0
    BY <1>1, <2>2, RoomIsEnough DEF Tick
  <2> QED BY <1>1, <2>1, <2>2 DEF Tick
<1>2. CASE HeartbeatServed
  BY <1>2 DEF HeartbeatServed
<1>3. CASE HeartbeatFails
  BY <1>3 DEF HeartbeatFails
\* No other step touches the registration, and stopped is for good.
<1>4. CASE ~(Tick \/ HeartbeatServed \/ HeartbeatFails)
  <2>1. UNCHANGED <<registration, ttl, disturbed>>
    BY <1>4 DEF DirectNext, CallEnds, Cancel, NextCall, SetupFails,
       Authenticated, Refreshed, Reauthenticated, RenewalFails, HeartbeatOk,
       PauseFor, PauseEnds, Ended
  <2>2. phase # "stopped"
    BY <1>4 DEF DirectNext, CallEnds, Cancel, NextCall, SetupFails,
       Authenticated, Refreshed, Reauthenticated, RenewalFails, HeartbeatOk,
       PauseEnds, Ended, SetupCalls, RenewCalls
  <2> QED BY <2>1, <2>2 DEF RegistrationKept
<1> QED BY <1>1, <1>2, <1>3, <1>4

LEMMA LeaseInvariant == DirectSpec => []LeaseInv
<1>1. DirectInit => LeaseInv
  BY DEF DirectInit, LeaseInv, OnTime, KnownOnceSetUp, RegistrationKept, SetupCalls
<1>2. DirectTypeOK /\ LeaseInv /\ [DirectNext]_directVars => LeaseInv'
  BY KnownNext, OnTimeNext, KeptNext DEF LeaseInv
<1> QED BY <1>1, <1>2, DirectTypes, PTL DEF DirectSpec

(* Re-heartbeating at half the TTL keeps the registration: it lapses only  *)
(* after a heartbeat failed or something was late, for every TTL that has  *)
(* room for a pause and four calls, and even when every renewal in between *)
(* is refused.                                                             *)
THEOREM DirectRegistrationKept == DirectSpec => []RegistrationKept
  BY LeaseInvariant, PTL DEF LeaseInv
=============================================================================
