---------------------------- MODULE NodeHistory ----------------------------
(***************************************************************************)
(* NodeControl with a history of the step that ended last on every node,   *)
(* to state what the step switch may rely on.                              *)
(***************************************************************************)
EXTENDS NodeControl

VARIABLE
  ended         \* history: the last step to end and the seconds since then

historyVars == <<vars, ended>>

NoStep == [step |-> MaxStep, age |-> 0]

HistoryInit == Init /\ ended = [n \in Node |-> NoStep]

HistoryNext ==
  /\ Next
  /\ ended' = [n \in Node |->
       IF step_end'[n] /\ ~step_end[n]
       THEN [step |-> cursor[n].now_step, age |-> 0]
       ELSE IF Tick /\ ended[n].age <= Hold
       THEN [ended[n] EXCEPT !.age = @ + 1]
       ELSE ended[n]]

HistorySpec == HistoryInit /\ [][HistoryNext]_historyVars /\ Fairness /\ StepsEnd

(* The values at the end of a charge or discharge stay readable for Hold   *)
(* seconds before the node goes on (sys_logic_control.c:1669).             *)
EndValuesHeld ==
  [][\A n \in Node : MoveCursor(n) /\ typeOf(n) \in Charging \cup {"DCV"}
        => ended[n].age > Hold]_historyVars

(* The step switch leaves the step that has ended: none is skipped         *)
(* unpolled (sys_logic_control.c:1669, "the next step when a charge or     *)
(* discharge is complete").                                                *)
NoStepSkipped ==
  [][\A n \in Node : MoveCursor(n) => ended[n].step = cursor[n].now_step]_historyVars
=============================================================================
