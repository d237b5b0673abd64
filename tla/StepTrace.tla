----------------------------- MODULE StepTrace -----------------------------
(***************************************************************************)
(* StepSequencer with a history of the steps that have ended, and the      *)
(* proof obligation (left to TLC) that the cursor arithmetic carries out   *)
(* the plan of the program, step by step and to its end.                   *)
(***************************************************************************)
EXTENDS StepSequencer, Sequences

VARIABLE
  executed      \* history: the steps that have ended, in order

traceVars == <<prog, cursor, executed>>

TraceInit == Init /\ executed = <<>>

TraceFinishStep ==
  /\ FinishStep
  /\ executed' = Append(executed, cursor.now_step)

TraceNext == TraceFinishStep \/ (Halted /\ UNCHANGED executed)

TraceSpec == TraceInit /\ [][TraceNext]_traceVars /\ WF_traceVars(TraceFinishStep)

(* The programs whose meaning is plain (README, Disagreements, says what   *)
(* the code makes of the others): no end mark among the steps, no sub-loop *)
(* of 255 rounds, no two that share a step, a cycle count that fits a byte,*)
(* and either every slot in use or one pass.                               *)
Plain(p) ==
  /\ \A s \in 0..p.step_num-1 : p.step[s].type # "CEND" /\ p.step[s].sub_cyc < 255
  /\ DisjointLoops(p)
  /\ p.cyc \in 1..255
  /\ p.step_num = MaxStep \/ p.cyc = 1

Abstract == INSTANCE StepPlan WITH complete <- cursor.run_status = "COMP"

(* next_step_handle makes exactly the steps of the plan, in its order, and *)
(* reports completion with the last of them and not before.                *)
ImplementsPlan == Abstract!Spec
=============================================================================
