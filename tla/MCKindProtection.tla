-------------------------- MODULE MCKindProtection --------------------------
(* Instances of KindProtection for TLC; the constants are in the .cfg files. *)
EXTENDS KindProtection
=============================================================================
