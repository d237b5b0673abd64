-------------------------- MODULE MCStepSequencer --------------------------
(* StepSequencer on small programs.                                        *)
EXTENDS StepSequencer, MCPrograms

AllPrograms == SmallPrograms \cup {LongLoop}
=============================================================================
