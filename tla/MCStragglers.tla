---------------------------- MODULE MCStragglers ----------------------------
(***************************************************************************)
(* BenchmarkRun with a history variable for what the grace period is for:  *)
(* the shreds that were in the aggregator's channel when the task of the   *)
(* grace period stopped the run.                                           *)
(***************************************************************************)
EXTENDS BenchmarkRun

VARIABLE owed   \* slots of those shreds which the aggregator has not taken

NoDirect == <<>>

StragglerInit == RunInit /\ owed = <<>>

StragglerNext ==
    /\ RunNext
    /\ owed' = IF GraceEnds THEN queue["shred"]
               ELSE IF AggShred /\ owed # <<>> THEN Tail(owed)
               ELSE owed

StragglerSpec == StragglerInit /\ [][StragglerNext]_<<runVars, owed>>

(* main.rs, on the grace period: "straggler shreds for the last slot ...   *)
(* still make it into the registry".  A shred of a wanted slot that had    *)
(* been delivered when the grace period ended and stopped the run has been *)
(* taken by the aggregator when that ends.                                 *)
StragglersAreRecorded ==
    agg = "done" => \A i \in DOMAIN owed : ~Wanted(owed[i])
=============================================================================
