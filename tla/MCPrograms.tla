----------------------------- MODULE MCPrograms -----------------------------
(* Programs for TLC: every program over small sets of the step fields, and *)
(* one at the limit of the sub-loop counter.                               *)
EXTENDS StepProgram, FiniteSets

CONSTANTS StepNums, Types, Jumps, SubCycs, Cycs, Sections

(* A section is <<divcap_end_step, recharge_start_step>>.                  *)
ProgramOf(steps, cyc, sec) ==
  [ step_num |-> Cardinality(DOMAIN steps), cyc |-> cyc,
    divcap_end_step |-> sec[1], recharge_start_step |-> sec[2],
    step |-> [s \in 0..MaxStep-1 |->
                IF s \in DOMAIN steps THEN steps[s] ELSE EndMark] ]

SmallPrograms ==
  LET Step == [type: Types, jump_step: Jumps, sub_cyc: SubCycs]
  IN  {ProgramOf(steps, cyc, sec) :
         steps \in UNION {[0..n-1 -> Step] : n \in StepNums},
         cyc \in Cycs, sec \in Sections}

NoSection  == {<<0, 0>>}
OneSection == {<<2, 3>>}

(* A sub-loop that asks for the most rounds a byte can hold; the counter   *)
(* it is compared with never exceeds them.                                 *)
LongLoop ==
  ProgramOf([s \in 0..1 |-> [type |-> "REST", jump_step |-> s,
                             sub_cyc |-> 255 * s]], 1, <<0, 0>>)
=============================================================================
