---------------------------- MODULE MCCollector ----------------------------
(* Checks for the runs of Collector: two instances of a periodic check,     *)
(* under one ID, and a one-time check.                                     *)
EXTENDS Collector, TLC

CONSTANTS a1, a2, l1

MCChecks == {a1, a2, l1}
MCIdOf == a1 :> "a" @@ a2 :> "a" @@ l1 :> "l"
============================================================================
