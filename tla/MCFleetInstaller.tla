-------------------------- MODULE MCFleetInstaller -------------------------
(* Model values and symmetry for the runs of FleetInstaller.               *)
EXTENDS FleetInstaller, TLC

Symmetry == Permutations(Versions)
============================================================================
