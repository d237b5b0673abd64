---------------------------- MODULE MCRunRecords ----------------------------
(* RunRecords for TLC: one-pass programs of two steps, without and with a  *)
(* recharge section.                                                       *)
EXTENDS RunRecords, Sequences

TwoSteps(first, second, recharge) ==
  [ step_num |-> 2, cyc |-> 1, divcap_end_step |-> recharge - 1,
    recharge_start_step |-> recharge,
    step |-> [s \in 0..MaxStep-1 |->
                IF s > 1 THEN EndMark
                ELSE [type |-> IF s = 0 THEN first ELSE second,
                      jump_step |-> 0, sub_cyc |-> 0]] ]

DischargeCharge == {TwoSteps("DCV", "CV", 1)}
RestCharge == {TwoSteps("REST", "CV", 1)}
Recharge == {TwoSteps("DCV", "CV", 2)}

(* Programs that differ in their steps, their number and their settings.   *)
OneStep ==
  [ step_num |-> 1, cyc |-> 2, divcap_end_step |-> 255,
    recharge_start_step |-> 255,
    step |-> [s \in 0..MaxStep-1 |->
                IF s > 0 THEN EndMark
                ELSE [type |-> "CV", jump_step |-> 0, sub_cyc |-> 0]] ]

Different == DischargeCharge \cup {OneStep}

(* One run that may be stopped, and two power failures; all commands to    *)
(* all nodes at once; programs that replace each other.                    *)
FirstRun ==
  [ programs |-> DischargeCharge, commands |-> {"start", "resume", "stop"},
    faultEnds |-> FALSE, runs |-> 1, crashes |-> 2 ]

Stopped ==
  [ programs |-> DischargeCharge, commands |-> {"start", "pause", "resume", "stopall"},
    faultEnds |-> TRUE, runs |-> 2, crashes |-> 1 ]

Replaced ==
  [ programs |-> Different, commands |-> {"start", "stopall", "cfg", "global"},
    faultEnds |-> TRUE, runs |-> 1, crashes |-> 1 ]

SomeScenes == {FirstRun, Stopped, Replaced}
=============================================================================
