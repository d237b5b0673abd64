--------------------------- MODULE StepSequencer ---------------------------
(***************************************************************************)
(* One node that runs its program undisturbed: next_step_handle is called  *)
(* each time a step has ended, until the program completes.  What ends a   *)
(* step is the subject of StepPolls, what disturbs a run that of           *)
(* NodeControl.                                                            *)
(***************************************************************************)
EXTENDS StepProgram

CONSTANT
  Programs      \* the programs a host may send

ASSUME ProgramsAssumption == \A p \in Programs : p \in NodeProgram /\ Padded(p)

VARIABLES
  prog,         \* bst.node[n], the configured part
  cursor        \* bst.node[n], the part a run changes

vars == <<prog, cursor>>

Running == cursor.run_status = "RUNNING"

(* node_start on a freshly configured node: para_init and node_start_init  *)
(* clear everything but recharge_status, which is left from an earlier run.*)
Started(p, recharge) ==
  [ now_step |-> 0, sub_now_cyc |-> 0, now_cyc |-> 0,
    recharge_status |-> RechargeAt(p, 0, recharge),
    work_type |-> OutputOf(p.step[0].type), run_status |-> "RUNNING" ]

Init ==
  /\ prog \in {p \in Programs : p.step_num >= 1 /\ p.step[0].type \in Runnable}
  /\ \E recharge \in {0, 1} : cursor = Started(prog, recharge)

(* The step under the cursor has ended, as one that a poll knows can.      *)
FinishStep ==
  /\ Running
  /\ prog.step[cursor.now_step].type \in Runnable
  /\ \E blocked \in BOOLEAN : cursor' = NextStep(prog, cursor, blocked)
  /\ UNCHANGED prog

(* The program is over, or sits at a step that no poll ends.               *)
Halted ==
  /\ ~Running \/ prog.step[cursor.now_step].type \notin Runnable
  /\ UNCHANGED vars

Next == FinishStep \/ Halted

(* The control thread scans every node every 50 ms and never blocks on a   *)
(* node: a step that can end does end.                                     *)
Spec == Init /\ [][Next]_vars /\ WF_vars(FinishStep)
-----------------------------------------------------------------------------
(* The program and its cursor have their types: in particular every index  *)
(* into step[] that next_step_handle stores lies inside the array.         *)
TypeOK == prog \in NodeProgram /\ cursor \in Cursor

(* A program whose cycle count fits the u8 copy never starts more passes   *)
(* than it was given (server.h:183, the count of main cycles).             *)
MainCyclesBounded == prog.cyc \in 1..255 => cursor.now_cyc < prog.cyc

(* A completed program has made as many passes as it was given.            *)
MainCyclesMade ==
  cursor.run_status = "COMP" => cursor.now_cyc + 1 = prog.cyc

(* recharge_status says recharge only while the cursor stands in the       *)
(* recharge section (the comment on its update: "is the current step a     *)
(* recharge step").                                                        *)
RechargeIsCurrent ==
  cursor.recharge_status = 1 => cursor.now_step >= prog.recharge_start_step - 1

(* Whatever it is made of, the program comes to its end.                   *)
Completes == <>(cursor.run_status = "COMP")

=============================================================================
