---------------------------- MODULE StepProgram ----------------------------
(***************************************************************************)
(* The step program of one node (battery channel) and the arithmetic that  *)
(* moves the cursor of a running program from one step to the next.        *)
(*                                                                         *)
(* A program is what cfg_step_decode and set_step_global_decode store in   *)
(* bst.node[n]: step_num steps, each with a type and an optional sub-loop  *)
(* (jump_step, sub_cyc), a main cycle count cyc, and the bounds of the     *)
(* grading and recharge sections.  Step indices are 0-based in memory;     *)
(* jump_step, divcap_end_step and recharge_start_step are 1-based.         *)
(***************************************************************************)
EXTENDS StepBasics

CONSTANT
  MaxStep       \* MAX_STEP, the number of slots in bst.node[n].step

ASSUME MaxStepAssumption == MaxStep \in 1..239

(* The step types the switches tell apart.  "CYCL" also stands for every   *)
(* byte that is none of the others: both fall through every switch.        *)
Runnable  == Charging \cup {"DCV", "REST"}
StepTypes == Runnable \cup {"CYCL", "CEND"}

(* What the CAN thread makes of work_type: the two charging types open the *)
(* same side of the module.                                                *)
Outputs == {"CHARGE", "DISCHARGE", "REST"}

OutputOf(type) ==
  CASE type \in Charging -> "CHARGE"
    [] type = "DCV"      -> "DISCHARGE"
    [] OTHER             -> "REST"

(* Assignment to a u8 variable.                                            *)
U8(x) == x % 256

NodeStep == [type: StepTypes, jump_step: Byte, sub_cyc: Byte]

NodeProgram ==
  [ step_num: 0..MaxStep, cyc: Word,
    divcap_end_step: Byte, recharge_start_step: Byte,
    step: [0..MaxStep-1 -> NodeStep] ]

EndMark == [type |-> "CEND", jump_step |-> 0, sub_cyc |-> 0]

(* The slots behind the last step, which cfg_step_decode fills with 0xf0.  *)
Padded(p) == \A s \in p.step_num..MaxStep-1 : p.step[s] = EndMark

(* bst.node[n].step[s].type.  One past the array lies step_num (the        *)
(* structure is packed), whose value MaxStep is not the end mark 240.      *)
TypeAt(p, s) == IF s < MaxStep THEN p.step[s].type ELSE "CYCL"

(* Step s closes a sub-loop: it jumps back to an earlier step.             *)
ClosesLoop(p, s) ==
  /\ p.step[s].jump_step # 0
  /\ p.step[s].sub_cyc # 0
  /\ p.step[s].jump_step - 1 < s

(* Where a loop begins again, and the programs in which no two loops share *)
(* a step.                                                                 *)
LoopStart(p, s) == p.step[s].jump_step - 1

DisjointLoops(p) ==
  \A s, t \in 0..p.step_num-1 :
    ClosesLoop(p, s) /\ ClosesLoop(p, t) /\ s < t => s < LoopStart(p, t)

(* Mutant: a round less.                                                   *)
RepeatsOneLess(p, s, sub_now_cyc) ==
  ClosesLoop(p, s) /\ U8(sub_now_cyc + 1) < p.step[s].sub_cyc

(* One more round of that sub-loop is due.                                 *)
Repeats(p, s, sub_now_cyc) ==
  ClosesLoop(p, s) /\ U8(sub_now_cyc + 1) <= p.step[s].sub_cyc

(* The step that follows s, before the end of the program is tested.       *)
StepAfter(p, s, sub_now_cyc) ==
  IF Repeats(p, s, sub_now_cyc) THEN LoopStart(p, s) ELSE s + 1

(* The one counter all sub-loops of a program share.                       *)
SubCycAfter(p, s, sub_now_cyc) ==
  IF Repeats(p, s, sub_now_cyc) THEN U8(sub_now_cyc + 1)
  ELSE IF ClosesLoop(p, s) THEN 0 ELSE sub_now_cyc

(* Mutant: the count of passes is compared before it is incremented.       *)
LastPassLate(p, next, now_cyc) ==
  now_cyc = p.cyc \/ TypeAt(p, next) = "CEND"

(* The pass that ends is the last one: the u8 copy of now_cyc, plus one,   *)
(* reaches the u16 cyc, or the slot behind the last step is an end mark.   *)
LastPass(p, next, now_cyc) ==
  U8(now_cyc + 1) = p.cyc \/ TypeAt(p, next) = "CEND"

(* recharge_status when the node moves to step s: 0 in the grading         *)
(* section, 1 in the recharge section, as it was outside both.             *)
RechargeAt(p, s, old) ==
  IF p.divcap_end_step \notin {0, 255} /\ s < p.divcap_end_step - 1 THEN 0
  ELSE IF p.recharge_start_step \notin {0, 255}
          /\ s >= p.recharge_start_step - 1 THEN 1
  ELSE old

(***************************************************************************)
(* The cursor of a running program, and next_step_handle on it.            *)
(* blocked: the fault or link-off bit is set in bst.node[n].info.          *)
(***************************************************************************)
RunStatus ==
  {"IDLE", "START", "STOP", "RUNNING", "COMP", "DIVCAP", "PAUSE", "DISABLE"}

Cursor ==
  [ now_step: 0..MaxStep-1, sub_now_cyc: Byte, now_cyc: Byte,
    recharge_status: {0, 1}, work_type: Outputs, run_status: RunStatus ]

(* Mutant: a blocked node keeps the output of the step before.             *)
EnterKeeping(type, blocked, old) ==
  CASE type \in Charging \cup {"DCV"} ->
         IF blocked THEN old ELSE OutputOf(type)
    [] type \in {"REST", "CEND"} -> "REST"
    [] OTHER -> old

(* work_type of a step entered by next_step_handle: a blocked node rests,  *)
(* a step of unknown type leaves the output of the step before it on.      *)
Enter(type, blocked, old) ==
  CASE type \in Charging \cup {"DCV"} ->
         IF blocked THEN "REST" ELSE OutputOf(type)
    [] type \in {"REST", "CEND"} -> "REST"
    [] OTHER -> old

(* Mutant: now_step is stored before the end of the program is tested.     *)
NextStepStoredEarly(p, c, blocked) ==
  LET next == StepAfter(p, c.now_step, c.sub_now_cyc)
      over == next >= p.step_num
      last == over /\ LastPass(p, next, c.now_cyc)
      at   == IF over /\ ~last THEN 0 ELSE next
      type == IF last THEN "CEND" ELSE p.step[at].type
  IN  [ c EXCEPT !.now_step = at,
                 !.sub_now_cyc = SubCycAfter(p, c.now_step, @),
                 !.recharge_status = RechargeAt(p, next, @),
                 !.now_cyc = IF over /\ ~last THEN U8(@ + 1) ELSE @,
                 !.work_type = Enter(type, blocked, @),
                 !.run_status = IF type = "CEND" THEN "COMP" ELSE @ ]

(* Where the cursor moves: counters and position.                          *)
Moved(p, c) ==
  LET next == StepAfter(p, c.now_step, c.sub_now_cyc)
      over == next >= p.step_num
      last == over /\ LastPass(p, next, c.now_cyc)
  IN  [ now_step        |-> IF last THEN c.now_step
                            ELSE IF over THEN 0 ELSE next,
        sub_now_cyc     |-> SubCycAfter(p, c.now_step, c.sub_now_cyc),
        now_cyc         |-> IF over /\ ~last THEN U8(c.now_cyc + 1)
                            ELSE c.now_cyc,
        recharge_status |-> RechargeAt(p, next, c.recharge_status),
        work_type       |-> c.work_type,
        run_status      |-> c.run_status ]

(* The type of the step it moves to; CEND if it was the last of the run.   *)
NextType(p, c) ==
  LET next == StepAfter(p, c.now_step, c.sub_now_cyc)
      over == next >= p.step_num
  IN  IF over /\ LastPass(p, next, c.now_cyc) THEN "CEND"
      ELSE p.step[IF over THEN 0 ELSE next].type

(* The whole of it, when nobody interferes.                                *)
NextStep(p, c, blocked) ==
  LET type == NextType(p, c)
  IN  [ Moved(p, c) EXCEPT
          !.work_type = Enter(type, blocked, @),
          !.run_status = IF type = "CEND" THEN "COMP" ELSE @ ]
=============================================================================
