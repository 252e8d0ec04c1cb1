--------------------------- MODULE MCBackendStore ---------------------------
(* Instances of BackendStore for TLC; the constants are in the .cfg files. *)
EXTENDS BackendStore, TLC

Symmetry == Permutations(Callers) \cup Permutations(Replicas) \cup Permutations(Values)
=============================================================================
