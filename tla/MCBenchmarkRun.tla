--------------------------- MODULE MCBenchmarkRun ---------------------------
(* Bounded instances of BenchmarkRun: which direct task starts a listener. *)
EXTENDS BenchmarkRun, TLC

NoDirect      == <<>>
DirectStartsL == "d" :> {"l1"}
=============================================================================
