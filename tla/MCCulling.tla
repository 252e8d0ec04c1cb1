---------------------------- MODULE MCCulling ----------------------------
(* The instances of Culling for TLC; the bounds are in the .cfg files.     *)
EXTENDS Culling
==========================================================================
