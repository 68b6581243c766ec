----------------------------- MODULE MCRegistry -----------------------------
(* Bounded instances of Registry and Stats: MaxEvents recorded events, in   *)
(* every order and with every combination of times.                         *)
EXTENDS Stats, TLC

CONSTANT MaxEvents      \* events recorded in one behaviour

VARIABLE recorded       \* events recorded so far

MCInit == RegInit /\ recorded = 0

MCNext ==
    /\ recorded < MaxEvents
    /\ RegNext
    /\ recorded' = recorded + 1

MCSpec == MCInit /\ [][MCNext]_<<regVars, recorded>>

SourceSymmetry == Permutations(ShredSource) \cup Permutations(EntrySource)
=============================================================================
