------------------------------ MODULE RunPhases ------------------------------
(***************************************************************************)
(* What one run of the benchmark promises, without tasks, channels or      *)
(* timers: it runs until it is stopped, once stopped it reports exactly    *)
(* once, and it reports from a registry whose writer has finished, or has  *)
(* been given up on.  BenchmarkRun implements this.                        *)
(***************************************************************************)
VARIABLES
    phase,      \* "running", "stopping", "reported", "exited"
    writes      \* to the registry: "open", "frozen", or "abandoned" by main

phaseVars == <<phase, writes>>

PhaseInit == phase = "running" /\ writes = "open"

Stop == phase = "running" /\ phase' = "stopping" /\ UNCHANGED writes

\* The writer finishes, in time or after it was given up on.
Freeze ==
    /\ phase # "running"
    /\ writes \in {"open", "abandoned"}
    /\ writes' = "frozen"
    /\ UNCHANGED phase

Abandon ==
    phase = "stopping" /\ writes = "open" /\ writes' = "abandoned"
    /\ UNCHANGED phase

Report ==
    /\ phase = "stopping"
    /\ writes # "open"
    /\ phase' = "reported"
    /\ UNCHANGED writes

Exit == phase = "reported" /\ phase' = "exited" /\ UNCHANGED writes

PhaseNext == Stop \/ Freeze \/ Abandon \/ Report \/ Exit

\* A stopped run reports.
PhaseSpec ==
    /\ PhaseInit
    /\ [][PhaseNext]_phaseVars
    /\ (phase = "stopping") ~> (phase = "reported")

=============================================================================
