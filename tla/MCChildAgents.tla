--------------------------- MODULE MCChildAgents ---------------------------
(* An instance of ChildAgents for TLC: three names, a limit of two children *)
(* and a batch of three, so that the last child of a batch is declined, at  *)
(* two depths.                                                             *)
EXTENDS ChildAgents
=============================================================================
