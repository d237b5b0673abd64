--------------------------- MODULE MCNodeControl ---------------------------
(* NodeControl for TLC: two-step programs that leave a slot for the end    *)
(* mark, so that they make one pass.                                       *)
EXTENDS NodeControl, Sequences

OneProgram(types) ==
  [ step_num |-> Len(types), cyc |-> 1, divcap_end_step |-> 0,
    recharge_start_step |-> 0,
    step |-> [s \in 0..MaxStep-1 |->
                IF s < Len(types)
                THEN [type |-> types[s + 1], jump_step |-> 0, sub_cyc |-> 0]
                ELSE EndMark] ]

ChargeDischarge == {OneProgram(<<"CV", "DCV">>)}
HcvRest == {OneProgram(<<"DCV", "HCV">>)}
ChargeRest == {OneProgram(<<"CV", "REST">>)}
Charge == {OneProgram(<<"CV">>)}
TwoLengths == ChargeRest \cup Charge
=============================================================================
