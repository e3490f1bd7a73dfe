------------------------- MODULE MCWorkspaceStartup -------------------------
(***************************************************************************)
(* WorkspaceStartup for TLC.  Two documents are the least that let a save  *)
(* of one cancel the initialization while the other one has a change.      *)
(***************************************************************************)
EXTENDS WorkspaceStartup
=============================================================================
