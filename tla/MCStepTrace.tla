---------------------------- MODULE MCStepTrace ----------------------------
(* StepTrace on the small programs whose meaning is plain.                 *)
EXTENDS StepTrace, MCPrograms

PlainPrograms == {p \in SmallPrograms : Plain(p)}
=============================================================================
