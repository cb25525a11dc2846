------------------------ MODULE MCBlockedEndpoints ------------------------
(* Instances of BlockedEndpoints for TLC. *)
EXTENDS BlockedEndpoints, TLC

Symmetry == Permutations(Endpoints) \cup Permutations(Requests)

=============================================================================
