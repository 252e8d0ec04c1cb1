----------------------- MODULE MCWorkspaceController -----------------------
(* Instances of WorkspaceController for TLC; the constants are in the .cfg. *)
EXTENDS WorkspaceController
=============================================================================
