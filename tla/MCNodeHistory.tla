--------------------------- MODULE MCNodeHistory ---------------------------
(* NodeHistory for TLC, with the programs of MCNodeControl.                *)
EXTENDS NodeHistory, MCNodeControl
=============================================================================
