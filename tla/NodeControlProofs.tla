------------------------- MODULE NodeControlProofs -------------------------
(***************************************************************************)
(* Theorems about NodeControl, for every number of nodes, every MaxStep,   *)
(* every set of programs and every Settle and Hold.                        *)
(***************************************************************************)
EXTENDS NodeHistory, TLAPS

-----------------------------------------------------------------------------
(* The cursor arithmetic, for every MaxStep and program.                   *)

(* Assigning a natural number to a u8 variable gives a byte, and leaves a  *)
(* number that fits unchanged.                                             *)
LEMMA U8Lemma ==
  ASSUME NEW x \in Nat
  PROVE  U8(x) \in Byte /\ (x <= 255 => U8(x) = x)
  BY DEF U8, Byte

(* The step after s is an earlier step, the next one, or the slot behind   *)
(* the last.                                                               *)
LEMMA StepAfterLemma ==
  ASSUME NEW p \in NodeProgram, NEW s \in 0..MaxStep-1, NEW k \in Byte
  PROVE  StepAfter(p, s, k) \in 0..MaxStep
  <1>1. p.step[s] \in NodeStep
    BY MaxStepAssumption DEF NodeProgram
  <1>2. p.step[s].jump_step \in Byte
    BY <1>1 DEF NodeStep
  <1>3. CASE Repeats(p, s, k)
    <2>. DEFINE j == p.step[s].jump_step
    <2>1. j # 0 /\ j - 1 < s /\ StepAfter(p, s, k) = j - 1
      BY <1>3 DEF StepAfter, Repeats, ClosesLoop, LoopStart
    <2>2. j \in Nat
      BY <1>2 DEF Byte
    <2>. HIDE DEF j
    <2>. QED BY <2>1, <2>2, MaxStepAssumption
  <1>4. CASE ~Repeats(p, s, k)
    BY <1>4, MaxStepAssumption DEF StepAfter
  <1>. QED BY <1>3, <1>4

(* The sub-loop counter stays a byte.                                      *)
LEMMA SubCycAfterLemma ==
  ASSUME NEW p \in NodeProgram, NEW s \in 0..MaxStep-1, NEW k \in Byte
  PROVE  SubCycAfter(p, s, k) \in Byte
  <1>1. U8(k + 1) \in Byte
    BY U8Lemma DEF Byte
  <1>. QED BY <1>1 DEF SubCycAfter, Byte

(* next_step_handle moves a cursor to a cursor: no index it stores leaves  *)
(* step[], whatever the program's jumps and counts.                        *)
LEMMA MovedLemma ==
  ASSUME NEW p \in NodeProgram, NEW c \in Cursor
  PROVE  /\ Moved(p, c) \in Cursor
         /\ Moved(p, c).work_type = c.work_type
         /\ Moved(p, c).run_status = c.run_status
         /\ NextType(p, c) \in StepTypes
         /\ NextType(p, c) \in {"CEND", TypeAt(p, Moved(p, c).now_step)}
         /\ Moved(p, c).now_step < p.step_num \/ Moved(p, c).now_step \in {0, c.now_step}
  <1>. DEFINE next == StepAfter(p, c.now_step, c.sub_now_cyc)
              over == next >= p.step_num
              last == over /\ LastPass(p, next, c.now_cyc)
              at   == IF last THEN c.now_step ELSE IF over THEN 0 ELSE next
              to   == IF over THEN 0 ELSE next
  <1>1. /\ c.now_step \in 0..MaxStep-1
        /\ c.sub_now_cyc \in Byte
        /\ c.now_cyc \in Byte
        /\ c.recharge_status \in {0, 1}
        /\ c.work_type \in Outputs
        /\ c.run_status \in RunStatus
    BY DEF Cursor
  <1>2. next \in 0..MaxStep
    BY <1>1, StepAfterLemma
  <1>3. p.step_num \in 0..MaxStep /\ p.step \in [0..MaxStep-1 -> NodeStep]
    BY DEF NodeProgram
  <1>4. at \in 0..MaxStep-1 /\ to \in 0..MaxStep-1 /\ (~last => at = to)
    <2>1. CASE over
      <3>1. 0 \in 0..MaxStep-1
        BY MaxStepAssumption
      <3>. QED BY <2>1, <3>1, <1>1
    <2>2. CASE ~over
      <3>1. at = next /\ to = next
        BY <2>2
      <3>2. next \in 0..MaxStep-1
        <4>1. ~(next >= p.step_num) /\ p.step_num \in 0..MaxStep
          BY <2>2, <1>3
        <4>. HIDE DEF next
        <4>. QED BY <4>1, <1>2, MaxStepAssumption
      <3>. QED BY <3>1, <3>2
    <2>. QED BY <2>1, <2>2
  <1>5. at < p.step_num \/ at \in {0, c.now_step}
    <2>. HIDE DEF next
    <2>. QED BY <1>1, <1>2, <1>3
  <1>6. SubCycAfter(p, c.now_step, c.sub_now_cyc) \in Byte
    BY <1>1, SubCycAfterLemma
  <1>7. U8(c.now_cyc + 1) \in Byte
    BY <1>1, U8Lemma DEF Byte
  <1>8. RechargeAt(p, next, c.recharge_status) \in {0, 1}
    BY <1>1 DEF RechargeAt
  <1>9. NextType(p, c) = IF last THEN "CEND" ELSE p.step[to].type
    BY DEF NextType
  <1>10. Moved(p, c) =
           [ now_step        |-> at,
             sub_now_cyc     |-> SubCycAfter(p, c.now_step, c.sub_now_cyc),
             now_cyc         |-> IF over /\ ~last THEN U8(c.now_cyc + 1)
                                 ELSE c.now_cyc,
             recharge_status |-> RechargeAt(p, next, c.recharge_status),
             work_type       |-> c.work_type,
             run_status      |-> c.run_status ]
    BY DEF Moved
  <1>. HIDE DEF next, over, last, at, to
  <1>11. Moved(p, c) \in Cursor
    BY <1>1, <1>4, <1>6, <1>7, <1>8, <1>10 DEF Cursor
  <1>12. NextType(p, c) \in StepTypes
    <2>1. p.step[to] \in NodeStep
      BY <1>3, <1>4
    <2>. QED BY <1>9, <2>1 DEF NodeStep, StepTypes
  <1>13. ~last => TypeAt(p, Moved(p, c).now_step) = p.step[to].type
    <2>1. at < MaxStep
      BY <1>4, MaxStepAssumption
    <2>. QED BY <1>4, <1>10, <2>1 DEF TypeAt
  <1>. QED BY <1>5, <1>9, <1>10, <1>11, <1>12, <1>13

LEMMA EnterLemma ==
  ASSUME NEW type, NEW blocked \in BOOLEAN, NEW o \in Outputs
  PROVE  /\ Enter(type, blocked, o) \in Outputs
         /\ type = "CEND" => Enter(type, blocked, o) = "REST"
         /\ type \in Runnable =>
              Enter(type, blocked, o) \in {"REST", OutputOf(type)}
  BY DEF Enter, OutputOf, Outputs, Charging, Runnable
-----------------------------------------------------------------------------
LEMMA NodeLemma == 0 \in Node /\ (\A n \in Node : n < MaxNode - 1 => n + 1 \in Node)
  BY NodeControlAssumption DEF Node

LEMMA CursorFields ==
  ASSUME NEW c \in Cursor
  PROVE  /\ c = [ now_step |-> c.now_step, sub_now_cyc |-> c.sub_now_cyc,
                  now_cyc |-> c.now_cyc, recharge_status |-> c.recharge_status,
                  work_type |-> c.work_type, run_status |-> c.run_status ]
         /\ c.now_step \in 0..MaxStep-1
         /\ c.sub_now_cyc \in Byte
         /\ c.now_cyc \in Byte
         /\ c.recharge_status \in {0, 1}
         /\ c.work_type \in Outputs
         /\ c.run_status \in RunStatus
  BY DEF Cursor

LEMMA RewoundLemma ==
  ASSUME NEW c \in Cursor, NEW s \in RunStatus
  PROVE  Rewound(c, s) \in Cursor
  BY CursorFields, MaxStepAssumption DEF Rewound, Cursor, Byte

LEMMA ProgramFields ==
  ASSUME NEW p \in NodeProgram
  PROVE  /\ p.step_num \in 0..MaxStep
         /\ p.cyc \in Word
         /\ p.divcap_end_step \in Byte
         /\ p.recharge_start_step \in Byte
         /\ p.step \in [0..MaxStep-1 -> NodeStep]
  BY DEF NodeProgram

LEMMA NoProgramLemma == NoProgram \in NodeProgram
  <1>1. Blank \in NodeStep
    BY DEF Blank, NodeStep, StepTypes, Byte
  <1>. QED BY <1>1, MaxStepAssumption DEF NoProgram, NodeProgram, Word, Byte
-----------------------------------------------------------------------------
(* What assigning run_status, work_type or the whole cursor of one node    *)
(* leaves of the nodes.                                                    *)
LEMMA StatusSet ==
  ASSUME cursor \in [Node -> Cursor], NEW n \in Node, NEW s \in RunStatus,
         SetStatus(n, s)
  PROVE  /\ cursor' \in [Node -> Cursor]
         /\ \A m \in Node \ {n} : cursor'[m] = cursor[m]
         /\ cursor'[n].now_step = cursor[n].now_step
         /\ cursor'[n].work_type = cursor[n].work_type
         /\ cursor'[n].run_status = s
  <1>1. cursor[n] \in Cursor
    OBVIOUS
  <1>2. cursor' = [cursor EXCEPT ![n] = [cursor[n] EXCEPT !.run_status = s]]
    BY DEF SetStatus
  <1>3. cursor'[n] = [cursor[n] EXCEPT !.run_status = s]
    BY <1>2
  <1>4. [cursor[n] EXCEPT !.run_status = s] \in Cursor
    BY <1>1 DEF Cursor
  <1>. QED BY <1>1, <1>2, <1>3, <1>4 DEF Cursor

LEMMA OutputSet ==
  ASSUME cursor \in [Node -> Cursor], NEW n \in Node, NEW o \in Outputs,
         SetOutput(n, o)
  PROVE  /\ cursor' \in [Node -> Cursor]
         /\ \A m \in Node \ {n} : cursor'[m] = cursor[m]
         /\ cursor'[n].now_step = cursor[n].now_step
         /\ cursor'[n].work_type = o
         /\ cursor'[n].run_status = cursor[n].run_status
  <1>1. cursor[n] \in Cursor
    OBVIOUS
  <1>2. cursor' = [cursor EXCEPT ![n] = [cursor[n] EXCEPT !.work_type = o]]
    BY DEF SetOutput
  <1>3. cursor'[n] = [cursor[n] EXCEPT !.work_type = o]
    BY <1>2
  <1>4. [cursor[n] EXCEPT !.work_type = o] \in Cursor
    BY <1>1 DEF Cursor
  <1>. QED BY <1>1, <1>2, <1>3, <1>4 DEF Cursor

LEMMA StatusType ==
  ASSUME TypeOK, NEW n \in Node
  PROVE  status(n) \in RunStatus /\ output(n) \in Outputs
  BY CursorFields DEF TypeOK, status, output
-----------------------------------------------------------------------------
(* Where the control thread goes.                                          *)
Points ==
  {"start", "starting", "running", "driving", "poll", "polling", "halt",
   "stopping", "pausing", "next", "switching", "entering", "resetting"}
     \cup Completion

LEMMA ScanType ==
  ASSUME NEW pc \in Points, NEW n \in Node
  PROVE  Scan(pc, n) \in ControlState
  BY MaxStepAssumption DEF Scan, ControlState, Points, StepTypes, RunStatus

LEMMA GotoType ==
  ASSUME ctl \in ControlState, NEW pc \in Points, Goto(pc)
  PROVE  /\ ctl' \in ControlState
         /\ ctl'.pc = pc /\ ctl'.at = ctl.at /\ ctl'.type = ctl.type
  BY DEF Goto, ControlState, Points

LEMMA NextNodeType ==
  ASSUME ctl \in ControlState, AfterHalt \/ AfterSwitch
  PROVE  ctl' \in ControlState /\ ctl'.pc \in {"start", "next"}
  <1>1. ctl.at \in Node
    BY DEF ControlState
  <1>2. \E pc \in {"start", "next"}, n \in Node : ctl' = Scan(pc, n)
    BY <1>1, NodeLemma DEF AfterHalt, AfterSwitch, GotoNextNode
  <1>3. PICK pc \in {"start", "next"}, n \in Node : ctl' = Scan(pc, n)
    BY <1>2
  <1>4. Scan(pc, n) \in ControlState
    BY ScanType DEF Points
  <1>. QED BY <1>3, <1>4 DEF Scan

LEMMA InitType == Init => TypeOK
  <1>1. AtRest \in Cursor
    BY MaxStepAssumption DEF AtRest, Cursor, Byte, Outputs, RunStatus
  <1>2. Init => prog \in [Node -> NodeProgram]
    BY NoProgramLemma, NodeControlAssumption DEF Init
  <1>3. Init => start_age \in [Node -> 0..Settle] /\ end_age \in [Node -> 0..Hold+1]
    BY NodeControlAssumption DEF Init
  <1>4. Init => /\ cursor \in [Node -> Cursor]
                /\ err_cnt \in [Node -> {0, 1}]
                /\ step_end \in [Node -> BOOLEAN] /\ err \in [Node -> BOOLEAN]
                /\ working_status \in [Node -> {"none", "AA", "A0", "A1"}]
    BY <1>1 DEF Init
  <1>5. Init => ctl \in ControlState
    BY NodeLemma, ScanType DEF Init, Points
  <1>6. Init => srv \in [cmd: AllCommands \cup {"none", "fill"}, node: Node]
    BY NodeLemma DEF Init
  <1>7. Init => lcd \in [open: BOOLEAN, node: Node, flag: 0..2,
                         press: {"none", "CHARGE", "DISCHARGE"}]
    BY NodeLemma DEF Init
  <1>8. Init => link \in BOOLEAN
    BY DEF Init
  <1>. QED BY <1>2, <1>3, <1>4, <1>5, <1>6, <1>7, <1>8 DEF TypeOK
-----------------------------------------------------------------------------
(***************************************************************************)
(* The control thread, action by action: what each does to its node, and   *)
(* where it goes.                                                          *)
(***************************************************************************)
(* A step of the control thread on node n: the others are left alone.      *)
OnlyNode(n) ==
  /\ UNCHANGED <<prog, srv, lcd>>
  /\ \A m \in Node \ {n} : /\ cursor'[m] = cursor[m]
                           /\ step_end'[m] = step_end[m]
                           /\ working_status'[m] = working_status[m]
                           /\ end_age'[m] = end_age[m]

LEMMA ControlTyped ==
  ASSUME TypeOK, UNCHANGED <<prog, envVars, srv, lcd>>,
         cursor' \in [Node -> Cursor], step_end' \in [Node -> BOOLEAN],
         working_status' \in [Node -> {"none", "AA", "A0", "A1"}],
         err' \in [Node -> BOOLEAN], start_age' \in [Node -> 0..Settle],
         end_age' \in [Node -> 0..Hold+1], ctl' \in ControlState
  PROVE  TypeOK'
  BY DEF TypeOK, envVars

(* A test: nothing changes but what the thread has seen.                   *)
LEMMA SeenOnly ==
  ASSUME TypeOK, NEW n \in Node, UNCHANGED <<nodeVars, envVars, srv, lcd>>,
         ctl' \in ControlState
  PROVE  /\ TypeOK' /\ OnlyNode(n)
         /\ UNCHANGED <<prog, cursor, step_end, working_status, end_age, srv, lcd>>
  BY DEF TypeOK, nodeVars, envVars, OnlyNode

LEMMA SeeStartEffect ==
  ASSUME TypeOK, NEW n \in Node, SeeStart(n)
  PROVE  /\ TypeOK' /\ OnlyNode(n)
         /\ UNCHANGED <<prog, cursor, step_end, working_status, end_age, srv, lcd>>
         /\ At("start", n) /\ ctl'.at = n
         /\ ctl'.pc = IF status(n) = "START" THEN "starting" ELSE "poll"
  <1>1. ctl \in ControlState /\ Goto(IF status(n) = "START" THEN "starting" ELSE "poll")
    BY DEF TypeOK, SeeStart
  <1>2. (IF status(n) = "START" THEN "starting" ELSE "poll") \in Points
    BY DEF Points
  <1>3. /\ ctl' \in ControlState /\ ctl'.at = ctl.at
        /\ ctl'.pc = IF status(n) = "START" THEN "starting" ELSE "poll"
    BY <1>1, <1>2, GotoType
  <1>. QED BY <1>3, SeenOnly DEF SeeStart, At

LEMMA SeeRunningEffect ==
  ASSUME TypeOK, NEW n \in Node, SeeRunning(n)
  PROVE  /\ TypeOK' /\ OnlyNode(n)
         /\ UNCHANGED <<prog, cursor, step_end, working_status, end_age, srv, lcd>>
         /\ At("poll", n) /\ ctl'.at = n /\ ctl'.pc \in {"polling", "halt"}
  <1>1. PICK pc \in {"polling", "halt"} : Goto(pc)
    BY DEF SeeRunning
  <1>2. ctl' \in ControlState /\ ctl'.at = ctl.at /\ ctl'.pc = pc
    BY <1>1, GotoType DEF TypeOK, Points
  <1>. QED BY <1>2, SeenOnly DEF SeeRunning, At

LEMMA SeeStopEffect ==
  ASSUME TypeOK, NEW n \in Node, SeeStop(n)
  PROVE  /\ TypeOK' /\ OnlyNode(n)
         /\ UNCHANGED <<prog, cursor, step_end, working_status, end_age, srv, lcd>>
         /\ At("halt", n) /\ ctl'.at = n
         /\ ctl'.pc = IF status(n) = "STOP" THEN "stopping" ELSE "pausing"
  <1>1. ctl \in ControlState /\ Goto(IF status(n) = "STOP" THEN "stopping" ELSE "pausing")
    BY DEF TypeOK, SeeStop
  <1>2. (IF status(n) = "STOP" THEN "stopping" ELSE "pausing") \in Points
    BY DEF Points
  <1>3. /\ ctl' \in ControlState /\ ctl'.at = ctl.at
        /\ ctl'.pc = IF status(n) = "STOP" THEN "stopping" ELSE "pausing"
    BY <1>1, <1>2, GotoType
  <1>. QED BY <1>3, SeenOnly DEF SeeStop, At

LEMMA SeeStepEndEffect ==
  ASSUME TypeOK, NEW n \in Node, SeeStepEnd(n)
  PROVE  /\ TypeOK' /\ OnlyNode(n)
         /\ UNCHANGED <<prog, cursor, step_end, working_status, end_age, srv, lcd>>
         /\ At("next", n)
         /\ \/ /\ ctl'.pc = "switching" /\ ctl'.at = n /\ step_end[n]
               /\ status(n) = "RUNNING" /\ end_age[n] > Hold
            \/ ctl'.pc \in {"start", "next"}
  <1>1. CASE step_end[n] /\ status(n) = "RUNNING" /\ end_age[n] > Hold
    <2>1. Goto("switching")
      BY <1>1 DEF SeeStepEnd
    <2>2. ctl' \in ControlState /\ ctl'.at = ctl.at /\ ctl'.pc = "switching"
      BY <2>1, GotoType DEF TypeOK, Points
    <2>. QED BY <1>1, <2>2, SeenOnly DEF SeeStepEnd, At
  <1>2. CASE ~(step_end[n] /\ status(n) = "RUNNING" /\ end_age[n] > Hold)
    <2>1. AfterSwitch
      BY <1>2 DEF SeeStepEnd
    <2>2. ctl' \in ControlState /\ ctl'.pc \in {"start", "next"}
      BY <2>1, NextNodeType DEF TypeOK
    <2>. QED BY <2>2, SeenOnly DEF SeeStepEnd, At
  <1>. QED BY <1>1, <1>2

LEMMA LoadStatusEffect ==
  ASSUME TypeOK, NEW n \in Node, LoadStatus(n)
  PROVE  /\ TypeOK' /\ OnlyNode(n)
         /\ UNCHANGED <<prog, cursor, step_end, working_status, end_age, srv, lcd>>
         /\ ctl'.at = n /\ ctl.at = n /\ ctl'.status = status(n)
         /\ \/ ctl.pc = "clear" /\ ctl'.pc = "clearing"
            \/ ctl.pc = "set"   /\ ctl'.pc = "setting"
  <1>1. status(n) \in RunStatus /\ ctl \in ControlState
    BY StatusType DEF TypeOK
  <1>2. /\ ctl' \in ControlState /\ ctl'.at = n /\ ctl.at = n /\ ctl'.status = status(n)
        /\ \/ ctl.pc = "clear" /\ ctl'.pc = "clearing"
           \/ ctl.pc = "set"   /\ ctl'.pc = "setting"
    BY <1>1 DEF LoadStatus, At, ControlState, Completion, CompletionStored
  <1>. QED BY <1>2, SeenOnly DEF LoadStatus

LEMMA StartNodeEffect ==
  ASSUME TypeOK, NEW n \in Node, StartNode(n)
  PROVE  /\ TypeOK' /\ OnlyNode(n)
         /\ At("starting", n) /\ ctl'.at = n
         /\ cursor'[n].work_type = cursor[n].work_type
         /\ prog[n].step_num = 0 =>
              /\ ctl'.pc = "poll"
              /\ cursor'[n].now_step = cursor[n].now_step
              /\ cursor'[n].run_status = "IDLE"
              /\ working_status'[n] = working_status[n]
         /\ prog[n].step_num # 0 =>
              /\ working_status'[n] = "AA"
              /\ IF working_status[n] = "AA"
                 THEN /\ cursor'[n].now_step = cursor[n].now_step
                      /\ cursor'[n].run_status = "PAUSE"
                 ELSE /\ cursor'[n].now_step = 0 /\ ~step_end'[n]
                      /\ cursor'[n].run_status = cursor[n].run_status
              /\ ctl'.pc = IF typeOf(n)' \in Runnable THEN "running" ELSE "poll"
              /\ ctl'.pc = "running" => ctl'.type = typeOf(n)'
  <1>. DEFINE fresh == working_status[n] # "AA"
              c == IF fresh THEN Rewound(cursor[n], status(n))
                   ELSE [cursor[n] EXCEPT !.run_status = "PAUSE"]
              type == TypeAt(prog[n], c.now_step)
  <1>1. /\ cursor[n] \in Cursor /\ prog[n] \in NodeProgram /\ status(n) \in RunStatus
        /\ prog[n].step_num \in 0..MaxStep /\ ctl \in ControlState
    BY ProgramFields, StatusType DEF TypeOK
  <1>2. UNCHANGED <<prog, end_age, envVars, srv, lcd>> /\ At("starting", n)
    BY DEF StartNode
  <1>3. CASE prog[n].step_num = 0
    <2>1. /\ SetStatus(n, "IDLE") /\ Goto("poll")
          /\ UNCHANGED <<step_end, working_status, err, start_age>>
      BY <1>3 DEF StartNode
    <2>2. "IDLE" \in RunStatus /\ "poll" \in Points
      BY DEF RunStatus, Points
    <2>3. /\ ctl' \in ControlState /\ ctl'.at = n /\ ctl'.pc = "poll"
      BY <1>1, <1>2, <2>1, <2>2, GotoType DEF At
    <2>4. /\ cursor' \in [Node -> Cursor]
          /\ \A m \in Node \ {n} : cursor'[m] = cursor[m]
          /\ cursor'[n].now_step = cursor[n].now_step
          /\ cursor'[n].work_type = cursor[n].work_type
          /\ cursor'[n].run_status = "IDLE"
      BY <2>1, <2>2, StatusSet DEF TypeOK
    <2>5. TypeOK'
      BY <1>2, <2>1, <2>3, <2>4, ControlTyped DEF TypeOK
    <2>6. OnlyNode(n)
      BY <1>2, <2>1, <2>4 DEF OnlyNode
    <2>. QED BY <1>2, <1>3, <2>1, <2>3, <2>4, <2>5, <2>6
  <1>4. CASE prog[n].step_num # 0
    <2>1. ~(prog[n].step_num < 1)
      BY <1>1, <1>4
    <2>2. /\ cursor' = [cursor EXCEPT ![n] = c]
          /\ step_end' = [step_end EXCEPT ![n] = @ /\ ~fresh]
          /\ err' = [err EXCEPT ![n] = @ /\ ~fresh]
          /\ working_status' = [working_status EXCEPT ![n] = "AA"]
          /\ start_age' = [start_age EXCEPT ![n] = 0]
          /\ ctl' = IF type \in Runnable
                    THEN [ctl EXCEPT !.pc = "running", !.num = c.now_step, !.type = type]
                    ELSE Scan("poll", n)
      BY <2>1 DEF StartNode
    <2>3. /\ c \in Cursor /\ c.work_type = cursor[n].work_type
          /\ IF fresh THEN c.now_step = 0 /\ c.run_status = cursor[n].run_status
             ELSE c.now_step = cursor[n].now_step /\ c.run_status = "PAUSE"
      <3>1. CASE fresh
        <4>1. c = Rewound(cursor[n], status(n))
          BY <3>1
        <4>2. c \in Cursor
          BY <1>1, <4>1, RewoundLemma
        <4>. QED BY <3>1, <4>1, <4>2 DEF Rewound, status
      <3>2. CASE ~fresh
        <4>1. c = [cursor[n] EXCEPT !.run_status = "PAUSE"]
          BY <3>2
        <4>. QED BY <1>1, <3>2, <4>1 DEF Cursor, RunStatus
      <3>. QED BY <3>1, <3>2
    <2>4. /\ step_end' \in [Node -> BOOLEAN] /\ err' \in [Node -> BOOLEAN]
          /\ working_status' \in [Node -> {"none", "AA", "A0", "A1"}]
          /\ start_age' \in [Node -> 0..Settle]
          /\ fresh => ~step_end'[n]
          /\ working_status'[n] = "AA"
      <3>1. step_end' \in [Node -> BOOLEAN] /\ (fresh => ~step_end'[n])
        <4>. HIDE DEF fresh
        <4>. QED BY <2>2, ZenonT(40) DEF TypeOK
      <3>2. err' \in [Node -> BOOLEAN]
        <4>. HIDE DEF fresh
        <4>. QED BY <2>2, ZenonT(40) DEF TypeOK
      <3>. HIDE DEF fresh
      <3>. QED BY <2>2, <3>1, <3>2, NodeControlAssumption DEF TypeOK
    <2>. HIDE DEF c
    <2>5. cursor' \in [Node -> Cursor] /\ cursor'[n] = c
      BY <2>2, <2>3 DEF TypeOK
    <2>6. \A m \in Node \ {n} : /\ cursor'[m] = cursor[m]
                                /\ step_end'[m] = step_end[m]
                                /\ working_status'[m] = working_status[m]
      BY <2>2 DEF TypeOK
    <2>7. typeOf(n)' = type
      BY <1>2, <2>5 DEF typeOf
    <2>8. /\ ctl' \in ControlState /\ ctl'.at = n
          /\ ctl'.pc = IF type \in Runnable THEN "running" ELSE "poll"
          /\ ctl'.pc = "running" => ctl'.type = type
      <3>1. CASE type \in Runnable
        <4>1. ctl' = [ctl EXCEPT !.pc = "running", !.num = c.now_step, !.type = type]
          BY <2>2, <3>1
        <4>2. c.now_step \in 0..MaxStep-1 /\ type \in StepTypes
          BY <2>3, <3>1, CursorFields DEF StepTypes
        <4>3. ctl.at = n
          BY <1>2 DEF At
        <4>. HIDE DEF type
        <4>. QED BY <1>1, <3>1, <4>1, <4>2, <4>3 DEF ControlState
      <3>2. CASE type \notin Runnable
        <4>1. ctl' = Scan("poll", n)
          BY <2>2, <3>2
        <4>2. Scan("poll", n) \in ControlState
          BY ScanType DEF Points
        <4>. QED BY <3>2, <4>1, <4>2 DEF Scan
      <3>. QED BY <3>1, <3>2
    <2>9. TypeOK'
      BY <1>2, <2>4, <2>5, <2>8, ControlTyped DEF TypeOK
    <2>10. OnlyNode(n)
      BY <1>2, <2>6 DEF OnlyNode
    <2>. QED BY <1>2, <1>4, <2>3, <2>4, <2>5, <2>7, <2>8, <2>9, <2>10
  <1>. QED BY <1>3, <1>4

LEMMA RunStepEffect ==
  ASSUME TypeOK, NEW n \in Node, RunStep(n)
  PROVE  /\ TypeOK' /\ OnlyNode(n)
         /\ UNCHANGED <<step_end, working_status, end_age>>
         /\ At("running", n) /\ At("driving", n)' /\ ctl'.type = ctl.type
         /\ cursor'[n].now_step = cursor[n].now_step
         /\ cursor'[n].work_type = cursor[n].work_type
         /\ cursor'[n].run_status = "RUNNING"
  <1>1. /\ ctl' \in ControlState /\ At("running", n) /\ At("driving", n)'
        /\ ctl'.type = ctl.type
    BY GotoType DEF RunStep, At, TypeOK, Points
  <1>2. /\ cursor' \in [Node -> Cursor]
        /\ \A m \in Node \ {n} : cursor'[m] = cursor[m]
        /\ cursor'[n].now_step = cursor[n].now_step
        /\ cursor'[n].work_type = cursor[n].work_type
        /\ cursor'[n].run_status = "RUNNING"
    BY StatusSet DEF RunStep, TypeOK, RunStatus
  <1>. QED BY <1>1, <1>2, ControlTyped DEF RunStep, TypeOK, OnlyNode

LEMMA DriveStepEffect ==
  ASSUME TypeOK, NEW n \in Node, DriveStep(n)
  PROVE  /\ TypeOK' /\ OnlyNode(n)
         /\ UNCHANGED <<step_end, working_status, end_age>>
         /\ At("driving", n) /\ At("poll", n)'
         /\ cursor'[n].now_step = cursor[n].now_step
         /\ cursor'[n].work_type = OutputOf(ctl.type)
         /\ cursor'[n].run_status = cursor[n].run_status
  <1>. DEFINE c == [cursor[n] EXCEPT
                      !.work_type = OutputOf(ctl.type),
                      !.recharge_status = RechargeAt(prog[n], ctl.num, @)]
  <1>1. /\ ctl' \in ControlState /\ At("driving", n) /\ At("poll", n)'
    BY ScanType DEF DriveStep, At, Scan, Points
  <1>2. cursor[n] \in Cursor /\ OutputOf(ctl.type) \in Outputs
    BY DEF TypeOK, OutputOf, Outputs
  <1>3. RechargeAt(prog[n], ctl.num, cursor[n].recharge_status) \in {0, 1}
    BY <1>2, CursorFields DEF RechargeAt
  <1>4. /\ c \in Cursor /\ c.now_step = cursor[n].now_step
        /\ c.work_type = OutputOf(ctl.type) /\ c.run_status = cursor[n].run_status
    BY <1>2, <1>3 DEF Cursor
  <1>5. cursor' = [cursor EXCEPT ![n] = c]
    BY DEF DriveStep
  <1>. HIDE DEF c
  <1>6. /\ cursor' \in [Node -> Cursor] /\ cursor'[n] = c
        /\ \A m \in Node \ {n} : cursor'[m] = cursor[m]
    BY <1>4, <1>5 DEF TypeOK
  <1>. QED BY <1>1, <1>4, <1>6, ControlTyped DEF DriveStep, TypeOK, OnlyNode

LEMMA PollEffect ==
  ASSUME TypeOK, NEW n \in Node, Poll(n)
  PROVE  /\ TypeOK' /\ OnlyNode(n) /\ UNCHANGED <<cursor, working_status>>
         /\ At("polling", n) /\ At("halt", n)'
         /\ step_end[n] => UNCHANGED <<step_end, end_age>>
  <1>1. /\ ctl' \in ControlState /\ At("polling", n) /\ At("halt", n)'
        /\ UNCHANGED <<prog, cursor, working_status, err, start_age, envVars, srv, lcd>>
    BY GotoType DEF Poll, At, TypeOK, Points
  <1>2. CASE step_end[n]
    <2>1. UNCHANGED <<step_end, end_age>>
      BY <1>2 DEF Poll
    <2>. QED BY <1>1, <2>1, ControlTyped DEF TypeOK, OnlyNode
  <1>3. CASE ~step_end[n]
    <2>1. PICK early \in BOOLEAN, timeout \in BOOLEAN, met \in BOOLEAN :
            PollStep(n, early, timeout, met)
      BY <1>3 DEF Poll
    <2>. DEFINE ends ==
           CASE typeOf(n) \in Charging ->
                  early \/ timeout \/ (start_age[n] >= Settle /\ (err[n] \/ met))
             [] typeOf(n) = "DCV"  -> timeout \/ (start_age[n] >= Settle /\ met)
             [] typeOf(n) = "REST" -> timeout
             [] OTHER -> FALSE
    <2>2. /\ step_end' = [step_end EXCEPT ![n] = ends]
          /\ end_age' = end_age \/ end_age' = [end_age EXCEPT ![n] = 0]
      BY <2>1 DEF PollStep
    <2>3. ends \in BOOLEAN
      OBVIOUS
    <2>. HIDE DEF ends
    <2>4. /\ step_end' \in [Node -> BOOLEAN] /\ end_age' \in [Node -> 0..Hold+1]
          /\ \A m \in Node \ {n} : step_end'[m] = step_end[m] /\ end_age'[m] = end_age[m]
      BY <2>2, <2>3, NodeControlAssumption DEF TypeOK
    <2>. QED BY <1>1, <1>3, <2>4, ControlTyped DEF TypeOK, OnlyNode
  <1>. QED BY <1>2, <1>3

LEMMA StopNodeEffect ==
  ASSUME TypeOK, NEW n \in Node, StopNode(n)
  PROVE  /\ TypeOK' /\ OnlyNode(n)
         /\ UNCHANGED <<step_end, end_age>>
         /\ At("stopping", n) /\ At("pausing", n)'
         /\ cursor'[n].now_step = cursor[n].now_step
         /\ cursor'[n].work_type = "REST"
         /\ cursor'[n].run_status = "IDLE"
         /\ working_status'[n] = "A1"
  <1>. DEFINE c == [cursor[n] EXCEPT !.run_status = "IDLE", !.work_type = "REST"]
  <1>1. ctl' \in ControlState /\ At("stopping", n) /\ At("pausing", n)'
    BY GotoType DEF StopNode, At, TypeOK, Points
  <1>2. /\ c \in Cursor /\ c.now_step = cursor[n].now_step
        /\ c.work_type = "REST" /\ c.run_status = "IDLE"
    <2>1. cursor[n] \in Cursor
      BY DEF TypeOK
    <2>. QED BY <2>1 DEF Cursor, Outputs, RunStatus
  <1>3. cursor' = [cursor EXCEPT ![n] = c]
    BY DEF StopNode, TypeOK
  <1>. HIDE DEF c
  <1>4. /\ cursor' \in [Node -> Cursor] /\ cursor'[n] = c
        /\ \A m \in Node \ {n} : cursor'[m] = cursor[m]
    BY <1>2, <1>3 DEF TypeOK
  <1>5. /\ working_status' \in [Node -> {"none", "AA", "A0", "A1"}]
        /\ working_status'[n] = "A1"
        /\ \A m \in Node \ {n} : working_status'[m] = working_status[m]
    BY DEF StopNode, TypeOK
  <1>. QED BY <1>1, <1>2, <1>4, <1>5, ControlTyped DEF StopNode, TypeOK, OnlyNode

LEMMA RestPausedEffect ==
  ASSUME TypeOK, NEW n \in Node, RestPaused(n)
  PROVE  /\ TypeOK' /\ OnlyNode(n)
         /\ UNCHANGED <<step_end, end_age>>
         /\ At("pausing", n) /\ ctl'.pc \in {"start", "next"}
         /\ \/ /\ cursor'[n].now_step = cursor[n].now_step
               /\ cursor'[n].work_type = "REST"
               /\ cursor'[n].run_status = "PAUSE" /\ status(n) = "PAUSE"
               /\ working_status'[n] = "A1"
            \/ UNCHANGED <<cursor, working_status>>
  <1>1. ctl' \in ControlState /\ At("pausing", n) /\ ctl'.pc \in {"start", "next"}
    BY NextNodeType DEF RestPaused, TypeOK
  <1>2. CASE status(n) = "PAUSE"
    <2>1. SetOutput(n, "REST") /\ working_status' = [working_status EXCEPT ![n] = "A1"]
      BY <1>2 DEF RestPaused
    <2>2. /\ cursor' \in [Node -> Cursor]
          /\ \A m \in Node \ {n} : cursor'[m] = cursor[m]
          /\ cursor'[n].now_step = cursor[n].now_step
          /\ cursor'[n].work_type = "REST"
          /\ cursor'[n].run_status = cursor[n].run_status
      BY <2>1, OutputSet DEF TypeOK, Outputs
    <2>3. /\ working_status' \in [Node -> {"none", "AA", "A0", "A1"}]
          /\ working_status'[n] = "A1"
          /\ \A m \in Node \ {n} : working_status'[m] = working_status[m]
      BY <2>1 DEF TypeOK
    <2>. QED BY <1>1, <1>2, <2>2, <2>3, ControlTyped
             DEF RestPaused, TypeOK, OnlyNode, status
  <1>3. CASE status(n) # "PAUSE"
    <2>1. UNCHANGED <<cursor, working_status>>
      BY <1>3 DEF RestPaused
    <2>. QED BY <1>1, <2>1, ControlTyped DEF RestPaused, TypeOK, OnlyNode
  <1>. QED BY <1>2, <1>3

LEMMA MoveCursorEffect ==
  ASSUME TypeOK, NEW n \in Node, MoveCursor(n)
  PROVE  /\ TypeOK' /\ OnlyNode(n)
         /\ UNCHANGED <<step_end, working_status, end_age>>
         /\ At("switching", n) /\ At("entering", n)'
         /\ cursor'[n].now_step < prog[n].step_num
              \/ cursor'[n].now_step \in {0, cursor[n].now_step}
         /\ cursor'[n].work_type = cursor[n].work_type
         /\ cursor'[n].run_status = cursor[n].run_status
         /\ ctl'.type \in {"CEND", typeOf(n)'}
  <1>. DEFINE c == Moved(prog[n], cursor[n])
              type == NextType(prog[n], cursor[n])
  <1>1. prog[n] \in NodeProgram /\ cursor[n] \in Cursor
    BY DEF TypeOK
  <1>2. /\ c \in Cursor /\ c.work_type = cursor[n].work_type
        /\ c.run_status = cursor[n].run_status
        /\ type \in StepTypes /\ type \in {"CEND", TypeAt(prog[n], c.now_step)}
        /\ c.now_step < prog[n].step_num \/ c.now_step \in {0, cursor[n].now_step}
    BY <1>1, MovedLemma
  <1>3. /\ cursor' = [cursor EXCEPT ![n] = c]
        /\ ctl' = [ctl EXCEPT !.pc = "entering", !.type = type]
        /\ At("switching", n) /\ start_age' = [start_age EXCEPT ![n] = 0]
        /\ UNCHANGED <<prog, step_end, working_status, err, end_age, envVars, srv, lcd>>
    BY DEF MoveCursor
  <1>. HIDE DEF c, type
  <1>4. /\ cursor' \in [Node -> Cursor] /\ cursor'[n] = c
        /\ \A m \in Node \ {n} : cursor'[m] = cursor[m]
    BY <1>2, <1>3 DEF TypeOK
  <1>5. ctl' \in ControlState /\ At("entering", n)' /\ ctl'.type = type
    BY <1>2, <1>3 DEF TypeOK, ControlState, At
  <1>6. start_age' \in [Node -> 0..Settle]
    BY <1>3, NodeControlAssumption DEF TypeOK
  <1>7. TypeAt(prog[n], c.now_step) = typeOf(n)'
    BY <1>3, <1>4 DEF typeOf
  <1>8. TypeOK'
    BY <1>3, <1>4, <1>5, <1>6, ControlTyped DEF TypeOK
  <1>. QED BY <1>2, <1>3, <1>4, <1>5, <1>7, <1>8 DEF OnlyNode

LEMMA EnterStepEffect ==
  ASSUME TypeOK, NEW n \in Node, EnterStep(n)
  PROVE  /\ TypeOK' /\ OnlyNode(n)
         /\ UNCHANGED <<step_end, working_status, end_age>>
         /\ At("entering", n) /\ ctl'.at = n
         /\ ctl'.pc = IF ctl.type = "CEND" THEN "completing" ELSE "resetting"
         /\ cursor'[n].now_step = cursor[n].now_step
         /\ ctl.type = "CEND" => cursor'[n].work_type = "REST"
         /\ ctl.type \in Runnable => cursor'[n].work_type \in {"REST", OutputOf(ctl.type)}
         /\ cursor'[n].run_status = cursor[n].run_status
  <1>1. /\ ctl' \in ControlState /\ At("entering", n) /\ ctl'.at = n
        /\ ctl'.pc = IF ctl.type = "CEND" THEN "completing" ELSE "resetting"
    <2>1. PICK pc \in {"completing", "resetting"} :
            /\ pc = IF ctl.type = "CEND" THEN "completing" ELSE "resetting"
            /\ ctl' = Scan(pc, n)
      BY DEF EnterStep
    <2>2. Scan(pc, n) \in ControlState
      BY ScanType DEF Points, Completion
    <2>. QED BY <2>1, <2>2 DEF EnterStep, At, Scan
  <1>2. err[n] \in BOOLEAN /\ output(n) \in Outputs
    BY StatusType DEF TypeOK
  <1>3. /\ Enter(ctl.type, err[n], output(n)) \in Outputs
        /\ ctl.type = "CEND" => Enter(ctl.type, err[n], output(n)) = "REST"
        /\ ctl.type \in Runnable =>
             Enter(ctl.type, err[n], output(n)) \in {"REST", OutputOf(ctl.type)}
    BY <1>2, EnterLemma
  <1>4. /\ cursor' \in [Node -> Cursor]
        /\ \A m \in Node \ {n} : cursor'[m] = cursor[m]
        /\ cursor'[n].now_step = cursor[n].now_step
        /\ cursor'[n].work_type = Enter(ctl.type, err[n], output(n))
        /\ cursor'[n].run_status = cursor[n].run_status
    BY <1>3, OutputSet DEF EnterStep, TypeOK
  <1>5. TypeOK'
    BY <1>1, <1>4, ControlTyped DEF EnterStep, TypeOK
  <1>. QED BY <1>1, <1>3, <1>4, <1>5 DEF EnterStep, OnlyNode

LEMMA CompleteEffect ==
  ASSUME TypeOK, NEW n \in Node, Complete(n)
  PROVE  /\ TypeOK' /\ OnlyNode(n)
         /\ UNCHANGED <<step_end, working_status, end_age>>
         /\ At("completing", n) /\ At("clear", n)'
         /\ cursor'[n].now_step = cursor[n].now_step
         /\ cursor'[n].work_type = cursor[n].work_type
         /\ cursor'[n].run_status = "COMP"
  <1>1. ctl' \in ControlState /\ At("completing", n) /\ At("clear", n)'
    BY GotoType DEF Complete, At, TypeOK, Points, Completion, CompletionStored
  <1>2. /\ cursor' \in [Node -> Cursor]
        /\ \A m \in Node \ {n} : cursor'[m] = cursor[m]
        /\ cursor'[n].now_step = cursor[n].now_step
        /\ cursor'[n].work_type = cursor[n].work_type
        /\ cursor'[n].run_status = "COMP"
    BY StatusSet DEF Complete, TypeOK, RunStatus
  <1>. QED BY <1>1, <1>2, ControlTyped DEF Complete, TypeOK, OnlyNode

LEMMA StoreStatusEffect ==
  ASSUME TypeOK, NEW n \in Node, StoreStatus(n)
  PROVE  /\ TypeOK' /\ OnlyNode(n)
         /\ UNCHANGED <<step_end, working_status, end_age>>
         /\ ctl.at = n /\ ctl'.at = n
         /\ cursor'[n].now_step = cursor[n].now_step
         /\ cursor'[n].work_type = cursor[n].work_type
         /\ \/ /\ ctl.pc = "clearing" /\ ctl'.pc = "set"
               /\ cursor'[n].run_status = WithoutRunBit(ctl.status)
            \/ /\ ctl.pc = "setting" /\ ctl'.pc = "marking"
               /\ cursor'[n].run_status = WithCmpBit(ctl.status)
  <1>1. ctl.status \in RunStatus
    BY DEF TypeOK, ControlState
  <1>2. WithoutRunBit(ctl.status) \in RunStatus /\ WithCmpBit(ctl.status) \in RunStatus
    BY <1>1 DEF WithoutRunBit, WithCmpBit, RunStatus
  <1>3. PICK s \in RunStatus, pc \in {"set", "marking"} :
          /\ SetStatus(n, s) /\ ctl' = Scan(pc, n) /\ ctl.at = n
          /\ \/ ctl.pc = "clearing" /\ pc = "set" /\ s = WithoutRunBit(ctl.status)
             \/ ctl.pc = "setting" /\ pc = "marking" /\ s = WithCmpBit(ctl.status)
    BY <1>2 DEF StoreStatus, At
  <1>4. ctl' \in ControlState /\ ctl'.at = n /\ ctl'.pc = pc
    <2>1. Scan(pc, n) \in ControlState
      BY ScanType DEF Points, Completion, CompletionStored
    <2>. QED BY <1>3, <2>1 DEF Scan
  <1>5. /\ cursor' \in [Node -> Cursor]
        /\ \A m \in Node \ {n} : cursor'[m] = cursor[m]
        /\ cursor'[n].now_step = cursor[n].now_step
        /\ cursor'[n].work_type = cursor[n].work_type
        /\ cursor'[n].run_status = s
    BY <1>3, StatusSet DEF TypeOK
  <1>6. UNCHANGED <<prog, step_end, working_status, err, start_age, end_age,
                    envVars, srv, lcd>>
    BY DEF StoreStatus
  <1>. QED BY <1>3, <1>4, <1>5, <1>6, ControlTyped DEF TypeOK, OnlyNode

LEMMA MarkCompleteEffect ==
  ASSUME TypeOK, NEW n \in Node, MarkComplete(n)
  PROVE  /\ TypeOK' /\ OnlyNode(n) /\ UNCHANGED <<cursor, step_end, end_age>>
         /\ At("marking", n) /\ At("resetting", n)' /\ working_status'[n] = "A0"
  <1>1. ctl' \in ControlState /\ At("marking", n) /\ At("resetting", n)'
    BY GotoType DEF MarkComplete, At, TypeOK, Points
  <1>2. /\ working_status' \in [Node -> {"none", "AA", "A0", "A1"}]
        /\ working_status'[n] = "A0"
        /\ \A m \in Node \ {n} : working_status'[m] = working_status[m]
    BY DEF MarkComplete, TypeOK
  <1>. QED BY <1>1, <1>2, ControlTyped DEF MarkComplete, TypeOK, OnlyNode

LEMMA ResetEndEffect ==
  ASSUME TypeOK, NEW n \in Node, ResetEnd(n)
  PROVE  /\ TypeOK' /\ OnlyNode(n) /\ UNCHANGED <<cursor, working_status, end_age>>
         /\ At("resetting", n) /\ ctl'.pc \in {"start", "next"}
         /\ step_end'[n] = (step_end[n] /\ status(n) # "RUNNING")
  <1>1. ctl' \in ControlState /\ At("resetting", n) /\ ctl'.pc \in {"start", "next"}
    BY NextNodeType DEF ResetEnd, TypeOK
  <1>2. /\ step_end' \in [Node -> BOOLEAN]
        /\ step_end'[n] = (step_end[n] /\ status(n) # "RUNNING")
        /\ \A m \in Node \ {n} : step_end'[m] = step_end[m]
    <2>1. step_end' = [step_end EXCEPT ![n] = step_end[n] /\ status(n) # "RUNNING"]
      BY DEF ResetEnd
    <2>2. (step_end[n] /\ status(n) # "RUNNING") \in BOOLEAN
      OBVIOUS
    <2>. QED BY <2>1, Zenon DEF TypeOK
  <1>. QED BY <1>1, <1>2, ControlTyped DEF ResetEnd, TypeOK, OnlyNode

LEMMA ControlType ==
  ASSUME TypeOK, Control
  PROVE  TypeOK'
  BY SeeStartEffect, StartNodeEffect, RunStepEffect, DriveStepEffect,
     SeeRunningEffect, PollEffect, SeeStopEffect, StopNodeEffect,
     RestPausedEffect, SeeStepEndEffect, MoveCursorEffect, EnterStepEffect,
     CompleteEffect, LoadStatusEffect, StoreStatusEffect, MarkCompleteEffect,
     ResetEndEffect DEF Control, ControlNode
-----------------------------------------------------------------------------
LEMMA ServerType ==
  ASSUME TypeOK, Server
  PROVE  TypeOK'
  <1>1. ASSUME NEW cmd \in Commands, NEW n \in Node, Accept(cmd, n)
        PROVE  TypeOK'
    <2>1. srv' \in [cmd: AllCommands \cup {"none", "fill"}, node: Node]
      BY <1>1, NodeControlAssumption DEF Accept
    <2>2. start_age' \in [Node -> 0..Settle]
      BY <1>1, NodeControlAssumption DEF Accept, TypeOK
    <2>. QED BY <1>1, <2>1, <2>2 DEF Accept, TypeOK, envVars
  <1>2. Done => srv' \in [cmd: AllCommands \cup {"none", "fill"}, node: Node]
    BY NodeLemma DEF Done
  <1>3. ASSUME NEW n \in Node, ChangeStatus(n)
        PROVE  TypeOK'
    <2>1. StatusOf(srv.cmd) \in RunStatus
      BY <1>3 DEF ChangeStatus, SetsStatus, StatusOf, RunStatus
    <2>2. cursor' \in [Node -> Cursor]
      BY <1>3, <2>1, StatusSet DEF ChangeStatus, TypeOK
    <2>3. start_age' \in [Node -> 0..Settle]
      BY <1>3, NodeControlAssumption DEF ChangeStatus, TypeOK
    <2>. QED BY <1>2, <1>3, <2>2, <2>3 DEF ChangeStatus, TypeOK, envVars
  <1>4. ASSUME NEW n \in Node, ClearProgram(n)
        PROVE  TypeOK'
    <2>1. prog' \in [Node -> NodeProgram]
      <3>1. PICK p \in Programs :
              prog' = [prog EXCEPT ![n] = [NoProgram EXCEPT
                        !.step_num = p.step_num,
                        !.divcap_end_step = prog[n].divcap_end_step,
                        !.recharge_start_step = prog[n].recharge_start_step]]
        BY <1>4 DEF ClearProgram
      <3>2. p \in NodeProgram /\ prog[n] \in NodeProgram
        BY NodeControlAssumption DEF TypeOK
      <3>3. [NoProgram EXCEPT
               !.step_num = p.step_num,
               !.divcap_end_step = prog[n].divcap_end_step,
               !.recharge_start_step = prog[n].recharge_start_step]
            \in NodeProgram
        BY <3>2, ProgramFields, NoProgramLemma DEF NodeProgram
      <3>. QED BY <3>1, <3>3 DEF TypeOK
    <2>2. cursor' \in [Node -> Cursor]
      <3>1. Rewound(cursor[n], "IDLE") \in Cursor
        BY RewoundLemma DEF TypeOK, RunStatus
      <3>. QED BY <1>4, <3>1 DEF ClearProgram, TypeOK
    <2>3. srv' \in [cmd: AllCommands \cup {"none", "fill"}, node: Node]
      BY <1>4 DEF ClearProgram, TypeOK
    <2>. QED BY <1>4, <2>1, <2>2, <2>3 DEF ClearProgram, TypeOK, envVars
  <1>5. ASSUME NEW n \in Node, FillProgram(n)
        PROVE  TypeOK'
    <2>1. prog' \in [Node -> NodeProgram]
      <3>1. PICK p \in Programs : prog' = [prog EXCEPT ![n].step = p.step]
        BY <1>5 DEF FillProgram
      <3>2. p \in NodeProgram /\ prog[n] \in NodeProgram
        BY NodeControlAssumption DEF TypeOK
      <3>3. [prog[n] EXCEPT !.step = p.step] \in NodeProgram
        BY <3>2, ProgramFields DEF NodeProgram
      <3>. QED BY <3>1, <3>3 DEF TypeOK
    <2>2. start_age' \in [Node -> 0..Settle]
      BY <1>5, NodeControlAssumption DEF FillProgram, TypeOK
    <2>3. working_status' \in [Node -> {"none", "AA", "A0", "A1"}]
      BY <1>5 DEF FillProgram, TypeOK
    <2>. QED BY <1>2, <1>5, <2>1, <2>2, <2>3 DEF FillProgram, TypeOK, envVars
  <1>6. ASSUME NEW n \in Node, SetGlobal(n)
        PROVE  TypeOK'
    <2>1. prog' \in [Node -> NodeProgram]
      <3>1. PICK p \in Programs :
              prog' = [prog EXCEPT ![n].cyc = p.cyc,
                            ![n].divcap_end_step = p.divcap_end_step,
                            ![n].recharge_start_step = p.recharge_start_step]
        BY <1>6 DEF SetGlobal
      <3>2. p \in NodeProgram /\ prog[n] \in NodeProgram
        BY NodeControlAssumption DEF TypeOK
      <3>3. [prog[n] EXCEPT !.cyc = p.cyc,
                            !.divcap_end_step = p.divcap_end_step,
                            !.recharge_start_step = p.recharge_start_step]
            \in NodeProgram
        BY <3>2, ProgramFields DEF NodeProgram
      <3>4. prog' = [prog EXCEPT ![n] =
                       [prog[n] EXCEPT !.cyc = p.cyc,
                            !.divcap_end_step = p.divcap_end_step,
                            !.recharge_start_step = p.recharge_start_step]]
        BY <3>1 DEF TypeOK
      <3>. QED BY <3>3, <3>4 DEF TypeOK
    <2>. QED BY <1>2, <1>6, <2>1 DEF SetGlobal, TypeOK, envVars
  <1>. QED BY <1>1, <1>3, <1>4, <1>5, <1>6 DEF Server, CarryOut

LEMMA PanelType ==
  ASSUME TypeOK, LcdPanel
  PROVE  TypeOK'
  <1>. DEFINE LcdType == lcd \in [open: BOOLEAN, node: Node, flag: 0..2,
                                  press: {"none", "CHARGE", "DISCHARGE"}]
  <1>1. ASSUME NEW n \in Node, OpenPage(n)
        PROVE  TypeOK'
    BY <1>1 DEF OpenPage, TypeOK, nodeVars, envVars
  <1>2. ASSUME NEW k \in {1, 2}, PressManual(k)
        PROVE  TypeOK'
    <2>1. Manual[k] \in {"CHARGE", "DISCHARGE"}
      BY DEF Manual
    <2>2. PICK press \in {"none", "CHARGE", "DISCHARGE"} :
            lcd' = [open |-> TRUE, node |-> lcd.node, flag |-> k, press |-> press]
      BY <1>2, <2>1 DEF PressManual
    <2>3. LcdType'
      BY <2>2 DEF TypeOK
    <2>. QED BY <1>2, <2>3 DEF PressManual, TypeOK, nodeVars, envVars
  <1>3. CASE DriveManually
    <2>1. lcd.press \in Outputs /\ lcd.node \in Node
      BY <1>3 DEF DriveManually, TypeOK, Outputs
    <2>2. cursor' \in [Node -> Cursor]
      BY <1>3, <2>1, OutputSet DEF DriveManually, TypeOK
    <2>3. LcdType'
      BY <1>3 DEF DriveManually, TypeOK
    <2>. QED BY <1>3, <2>2, <2>3 DEF DriveManually, TypeOK, envVars
  <1>4. CASE PressBack
    <2>1. cursor' \in [Node -> Cursor]
      BY <1>4, OutputSet DEF PressBack, TypeOK, Outputs
    <2>2. LcdType'
      BY <1>4 DEF PressBack, TypeOK
    <2>. QED BY <1>4, <2>1, <2>2 DEF PressBack, TypeOK, envVars
  <1>5. CASE PressClearFault
    BY <1>5 DEF PressClearFault, TypeOK, envVars
  <1>. QED BY <1>1, <1>2, <1>3, <1>4, <1>5 DEF LcdPanel

LEMMA EnvironmentType ==
  ASSUME TypeOK, ReadModuleStatus \/ LinkChanges \/ Tick
  PROVE  TypeOK'
  <1>1. CASE ReadModuleStatus
    BY <1>1 DEF ReadModuleStatus, TypeOK
  <1>2. CASE LinkChanges
    BY <1>2 DEF LinkChanges, TypeOK, nodeVars
  <1>3. CASE Tick
    <2>1. /\ start_age' \in [Node -> 0..Settle]
          /\ end_age' \in [Node -> 0..Hold+1]
      BY <1>3, NodeControlAssumption DEF Tick, Older, TypeOK
    <2>. QED BY <1>3, <2>1 DEF Tick, TypeOK, envVars
  <1>. QED BY <1>1, <1>2, <1>3

(* In every interleaving of the threads each variable keeps its type; in   *)
(* particular no race makes now_step leave step[].                         *)
THEOREM TypeCorrect == Spec => []TypeOK
  <1>1. TypeOK /\ [Next]_vars => TypeOK'
    <2>1. ASSUME TypeOK, UNCHANGED vars
          PROVE  TypeOK'
      BY <2>1 DEF vars, nodeVars, envVars, TypeOK
    <2>. QED BY <2>1, ControlType, ServerType, PanelType, EnvironmentType DEF Next
  <1>. QED BY <1>1, InitType, PTL DEF Spec
-----------------------------------------------------------------------------
(***************************************************************************)
(* The other threads: what a step of each leaves of the nodes.             *)
(***************************************************************************)
(* A button pressed on the node page is one of the page now open.          *)
PressShown == lcd.press # "none" => lcd.open /\ lcd.flag # 0

(* The panel: the operator answers for what he has switched on, and        *)
(* leaving the page switches it off; nothing else of a node changes.       *)
LEMMA PanelEffect ==
  ASSUME TypeOK, PressShown, LcdPanel
  PROVE  /\ TypeOK' /\ PressShown'
         /\ UNCHANGED <<prog, step_end, working_status, end_age, ctl, srv>>
         /\ \A m \in Node :
              /\ cursor'[m].now_step = cursor[m].now_step
              /\ cursor'[m].run_status = cursor[m].run_status
              /\ \/ output(m)' = output(m) /\ (Manually(m) => Manually(m)')
                 \/ output(m)' = "REST"
                 \/ Manually(m)'
  <1>. DEFINE Kept(m) == /\ cursor'[m].now_step = cursor[m].now_step
                         /\ cursor'[m].run_status = cursor[m].run_status
              Told(m) == \/ output(m)' = output(m) /\ (Manually(m) => Manually(m)')
                         \/ output(m)' = "REST"
                         \/ Manually(m)'
  <1>. SUFFICES /\ UNCHANGED <<prog, step_end, working_status, end_age, ctl, srv>>
                /\ PressShown' /\ \A m \in Node : Kept(m) /\ Told(m)
    BY PanelType
  <1>1. UNCHANGED <<prog, step_end, working_status, end_age, ctl, srv>>
    BY DEF LcdPanel, OpenPage, PressManual, DriveManually, PressBack,
           PressClearFault, nodeVars
  <1>2. ASSUME NEW n \in Node, OpenPage(n)
        PROVE  PressShown' /\ \A m \in Node : Kept(m) /\ Told(m)
    <2>1. UNCHANGED cursor /\ lcd'.press = "none" /\ ~lcd.open
      BY <1>2 DEF OpenPage, nodeVars
    <2>. QED BY <2>1 DEF PressShown, Manually, output
  <1>3. ASSUME NEW k \in {1, 2}, PressManual(k)
        PROVE  PressShown' /\ \A m \in Node : Kept(m) /\ Told(m)
    <2>1. UNCHANGED cursor /\ lcd'.open /\ lcd'.flag # 0 /\ lcd'.node = lcd.node
      BY <1>3 DEF PressManual, nodeVars
    <2>. QED BY <2>1 DEF PressShown, Manually, output
  <1>4. ASSUME NEW n \in Node, NEW o \in Outputs, SetOutput(n, o)
        PROVE  /\ \A m \in Node : Kept(m)
               /\ \A m \in Node \ {n} : output(m)' = output(m)
               /\ output(n)' = o
    BY <1>4, OutputSet DEF TypeOK, output
  <1>5. CASE DriveManually
    <2>1. /\ lcd.press \in Outputs /\ lcd.node \in Node /\ lcd.open /\ lcd.flag # 0
          /\ lcd' = [lcd EXCEPT !.press = "none"] /\ SetOutput(lcd.node, lcd.press)
      BY <1>5 DEF DriveManually, PressShown, TypeOK, Outputs
    <2>2. lcd'.open /\ lcd'.flag # 0 /\ lcd'.node = lcd.node /\ lcd'.press = "none"
      BY <2>1 DEF TypeOK
    <2>3. PICK n \in Node : n = lcd.node
      BY <2>1
    <2>4. \A m \in Node \ {n} : output(m)' = output(m) /\ ~Manually(m)
      BY <1>4, <2>1, <2>3 DEF Manually
    <2>5. Manually(n)'
      BY <2>2, <2>3 DEF Manually
    <2>6. \A m \in Node : Kept(m)
      BY <1>4, <2>1
    <2>. QED BY <1>1, <2>2, <2>4, <2>5, <2>6 DEF PressShown
  <1>6. CASE PressBack
    <2>1. lcd.node \in Node /\ lcd'.press = "none"
      BY <1>6 DEF PressBack, TypeOK
    <2>2. CASE lcd.flag # 0
      <3>1. SetOutput(lcd.node, "REST") /\ "REST" \in Outputs
        BY <1>6, <2>2 DEF PressBack, Outputs
      <3>2. PICK n \in Node : n = lcd.node
        BY <2>1
      <3>3. /\ \A m \in Node : Kept(m)
            /\ \A m \in Node \ {n} : output(m)' = output(m)
            /\ output(n)' = "REST"
        BY <1>4, <3>1, <3>2
      <3>4. \A m \in Node \ {n} : ~Manually(m)
        BY <3>2 DEF Manually
      <3>. QED BY <1>1, <2>1, <3>3, <3>4 DEF PressShown
    <2>3. CASE lcd.flag = 0
      <3>1. UNCHANGED cursor /\ \A m \in Node : ~Manually(m)
        BY <1>6, <2>3 DEF PressBack, Manually
      <3>. QED BY <1>1, <2>1, <3>1 DEF PressShown, output
    <2>. QED BY <2>2, <2>3
  <1>7. CASE PressClearFault
    <2>1. UNCHANGED <<cursor, lcd>>
      BY <1>7 DEF PressClearFault
    <2>. QED BY <1>1, <2>1 DEF PressShown, Manually, output
  <1>. HIDE DEF Kept, Told
  <1>. QED BY <1>1, <1>2, <1>3, <1>5, <1>6, <1>7 DEF LcdPanel

(* The module, the link and the clock touch neither programs nor cursors;  *)
(* only the clock touches the seconds since the end of a step.             *)
LEMMA EnvironmentEffect ==
  ASSUME TypeOK, ReadModuleStatus \/ LinkChanges \/ Tick \/ UNCHANGED vars
  PROVE  /\ TypeOK'
         /\ UNCHANGED <<prog, cursor, step_end, working_status, ctl, srv, lcd>>
         /\ Tick \/ UNCHANGED end_age
  BY EnvironmentType
  DEF ReadModuleStatus, LinkChanges, Tick, vars, nodeVars, envVars, TypeOK

(* A command that passes its test changes no node yet.                     *)
LEMMA AcceptEffect ==
  ASSUME TypeOK, NEW cmd \in Commands, NEW n \in Node, Accept(cmd, n)
  PROVE  /\ TypeOK'
         /\ UNCHANGED <<prog, cursor, step_end, working_status, end_age, ctl, lcd>>
         /\ srv'.cmd = cmd /\ srv'.node = n /\ Accepted(cmd, n) /\ srv.cmd = "none"
         /\ cmd \in AllCommands
  BY ServerType, NodeControlAssumption DEF Server, Accept

(* A command that only assigns run_status does just that.                  *)
LEMMA ChangeStatusEffect ==
  ASSUME TypeOK, NEW n \in Node, ChangeStatus(n)
  PROVE  /\ TypeOK'
         /\ UNCHANGED <<prog, step_end, working_status, end_age, ctl, lcd>>
         /\ srv'.cmd = "none" /\ srv'.node = 0
         /\ srv.node = n /\ srv.cmd \in SetsStatus
         /\ \A m \in Node \ {n} : cursor'[m] = cursor[m]
         /\ cursor'[n].now_step = cursor[n].now_step
         /\ cursor'[n].work_type = cursor[n].work_type
         /\ cursor'[n].run_status = StatusOf(srv.cmd)
  <1>1. TypeOK'
    BY ServerType DEF Server, CarryOut
  <1>2. StatusOf(srv.cmd) \in RunStatus
    BY DEF ChangeStatus, SetsStatus, StatusOf, RunStatus
  <1>3. /\ \A m \in Node \ {n} : cursor'[m] = cursor[m]
        /\ cursor'[n].now_step = cursor[n].now_step
        /\ cursor'[n].work_type = cursor[n].work_type
        /\ cursor'[n].run_status = StatusOf(srv.cmd)
    BY <1>2, StatusSet DEF ChangeStatus, TypeOK
  <1>. QED BY <1>1, <1>3 DEF ChangeStatus, Done
-----------------------------------------------------------------------------
(***************************************************************************)
(* OutputSupervised is an invariant of NodeControl, for every number of    *)
(* nodes and every set of programs, while the host only starts, stops,     *)
(* pauses and resumes.  SupervisionInv, which is inductive, is stated with *)
(* the property in NodeControl.                                            *)
(***************************************************************************)
Driving == {"driving", "switching", "entering"}

(* A step of the control thread on node n: what remains to be shown about  *)
(* the new status and output of n.                                         *)
LEMMA ControlStepSafe ==
  ASSUME SupervisionInv, TypeOK', NEW n \in Node, OnlyNode(n),
         ctl'.pc \in {"running"} \cup Driving \cup Completion =>
           ctl'.at = n /\ prog[n].step_num # 0,
         ctl'.pc \in Driving => status(n)' \in Answering,
         ctl'.pc \in Completion => output(n)' = "REST" \/ Manually(n),
         prog[n].step_num = 0 =>
           /\ status(n)' \in {"IDLE", "START"}
           /\ output(n)' # "REST" => Manually(n),
         output(n)' # "REST" => status(n)' \in Answering \/ Manually(n)
  PROVE  SupervisionInv'
  <1>1. UNCHANGED <<prog, srv, lcd>>
    BY DEF OnlyNode
  <1>2. \A m \in Node \ {n} : status(m)' = status(m) /\ output(m)' = output(m)
    BY DEF status, output, OnlyNode
  <1>3. \A m \in Node : Manually(m)' = Manually(m)
    BY <1>1 DEF Manually
  <1>4. Held'
    <2>1. (ctl.pc \in {"driving", "switching", "entering"} =>
             status(ctl.at) \in Answering)'
      BY DEF Driving, status
    <2>2. (ctl.pc \in Completion => output(ctl.at) = "REST" \/ Manually(ctl.at))'
      BY <1>3 DEF output
    <2>. QED BY <1>1, <2>1, <2>2 DEF SupervisionInv, Held
  <1>5. Configured'
    BY <1>1, <1>2, <1>3 DEF SupervisionInv, Configured, Driving
  <1>6. OutputSupervised'
    BY <1>2, <1>3 DEF SupervisionInv, OutputSupervised
  <1>. QED BY <1>4, <1>5, <1>6 DEF SupervisionInv

(* What the invariant says of the node scanned.                            *)
LEMMA ScannedNode ==
  ASSUME SupervisionInv, NEW n \in Node, ctl.at = n
  PROVE  /\ ctl.pc \in {"running"} \cup Driving \cup Completion => prog[n].step_num # 0
         /\ ctl.pc \in Driving => status(n) \in Answering
         /\ ctl.pc \in Completion => output(n) = "REST" \/ Manually(n)
         /\ prog[n].step_num = 0 =>
              /\ status(n) \in {"IDLE", "START"}
              /\ output(n) # "REST" => Manually(n)
         /\ output(n) # "REST" => status(n) \in Answering \/ Manually(n)
  BY DEF SupervisionInv, Held, Configured, OutputSupervised, Driving

LEMMA ControlSafe ==
  ASSUME SupervisionInv, NEW n \in Node, ControlNode(n)
  PROVE  SupervisionInv'
  <1>. USE DEF Driving, Completion, CompletionStored
  <1>1. TypeOK
    BY DEF SupervisionInv
  <1>2. CASE \/ SeeStart(n) \/ SeeRunning(n) \/ Poll(n) \/ SeeStop(n)
             \/ MarkComplete(n) \/ ResetEnd(n)
    <2>1. /\ TypeOK' /\ OnlyNode(n) /\ UNCHANGED cursor /\ ctl.at = n
          /\ ctl'.pc \in {"starting", "poll", "polling", "halt", "stopping",
                          "pausing", "start", "next", "resetting"}
      BY <1>1, <1>2, SeeStartEffect, SeeRunningEffect, PollEffect, SeeStopEffect,
         MarkCompleteEffect, ResetEndEffect DEF At
    <2>2. status(n)' = status(n) /\ output(n)' = output(n)
      BY <2>1 DEF status, output
    <2>. QED BY <2>1, <2>2, ScannedNode, ControlStepSafe
  <1>3. CASE StartNode(n)
    <2>1. /\ TypeOK' /\ OnlyNode(n) /\ ctl.at = n /\ ctl'.at = n
          /\ output(n)' = output(n)
          /\ ctl'.pc \in {"running", "poll"}
          /\ prog[n].step_num = 0 => ctl'.pc = "poll" /\ status(n)' = "IDLE"
          /\ prog[n].step_num # 0 => status(n)' \in {status(n), "PAUSE"}
      BY <1>1, <1>3, StartNodeEffect DEF At, status, output
    <2>. QED BY <2>1, ScannedNode, ControlStepSafe DEF Answering
  <1>4. CASE RunStep(n)
    <2>1. /\ TypeOK' /\ OnlyNode(n) /\ At("running", n) /\ ctl'.at = n
          /\ output(n)' = output(n) /\ ctl'.pc = "driving" /\ status(n)' = "RUNNING"
      BY <1>1, <1>4, RunStepEffect DEF At, status, output
    <2>. QED BY <2>1, ScannedNode, ControlStepSafe DEF At, Answering
  <1>5. CASE DriveStep(n)
    <2>1. /\ TypeOK' /\ OnlyNode(n) /\ At("driving", n)
          /\ ctl'.pc = "poll" /\ status(n)' = status(n)
      BY <1>1, <1>5, DriveStepEffect DEF At, status
    <2>. QED BY <2>1, ScannedNode, ControlStepSafe DEF At
  <1>6. CASE StopNode(n)
    <2>1. /\ TypeOK' /\ OnlyNode(n) /\ ctl'.pc = "pausing"
          /\ status(n)' = "IDLE" /\ output(n)' = "REST"
      BY <1>1, <1>6, StopNodeEffect DEF At, status, output
    <2>. QED BY <2>1, ControlStepSafe
  <1>7. CASE RestPaused(n)
    <2>1. /\ TypeOK' /\ OnlyNode(n) /\ ctl.at = n /\ ctl'.pc \in {"start", "next"}
          /\ status(n)' = status(n) /\ output(n)' \in {"REST", output(n)}
      BY <1>1, <1>7, RestPausedEffect DEF At, status, output
    <2>. QED BY <2>1, ScannedNode, ControlStepSafe
  <1>8. CASE SeeStepEnd(n)
    <2>1. /\ TypeOK' /\ OnlyNode(n) /\ UNCHANGED cursor /\ ctl.at = n
          /\ \/ ctl'.pc = "switching" /\ ctl'.at = n /\ status(n) = "RUNNING"
             \/ ctl'.pc \in {"start", "next"}
      BY <1>1, <1>8, SeeStepEndEffect DEF At
    <2>2. status(n)' = status(n) /\ output(n)' = output(n)
      BY <2>1 DEF status, output
    <2>. QED BY <2>1, <2>2, ScannedNode, ControlStepSafe DEF Answering
  <1>9. CASE MoveCursor(n)
    <2>1. /\ TypeOK' /\ OnlyNode(n) /\ At("switching", n) /\ At("entering", n)'
          /\ status(n)' = status(n) /\ output(n)' = output(n)
      BY <1>1, <1>9, MoveCursorEffect DEF status, output
    <2>. QED BY <2>1, ScannedNode, ControlStepSafe DEF At
  <1>10. CASE EnterStep(n)
    <2>1. /\ TypeOK' /\ OnlyNode(n) /\ At("entering", n) /\ ctl'.at = n
          /\ status(n)' = status(n)
          /\ \/ ctl'.pc = "completing" /\ output(n)' = "REST"
             \/ ctl'.pc = "resetting"
      BY <1>1, <1>10, EnterStepEffect DEF status, output
    <2>. QED BY <2>1, ScannedNode, ControlStepSafe DEF At
  <1>11. CASE Complete(n) \/ StoreStatus(n)
    <2>1. /\ TypeOK' /\ OnlyNode(n) /\ ctl.at = n /\ ctl'.at = n
          /\ {ctl.pc, ctl'.pc} \subseteq Completion /\ output(n)' = output(n)
      BY <1>1, <1>11, CompleteEffect, StoreStatusEffect DEF At, output
    <2>. QED BY <2>1, ScannedNode, ControlStepSafe
  <1>12. CASE LoadStatus(n)
    <2>1. /\ TypeOK' /\ OnlyNode(n) /\ ctl.at = n /\ ctl'.at = n
          /\ {ctl.pc, ctl'.pc} \subseteq Completion /\ UNCHANGED cursor
      BY <1>1, <1>12, LoadStatusEffect
    <2>2. status(n)' = status(n) /\ output(n)' = output(n)
      BY <2>1 DEF status, output
    <2>. QED BY <2>1, <2>2, ScannedNode, ControlStepSafe
  <1>. QED BY <1>2, <1>3, <1>4, <1>5, <1>6, <1>7, <1>8, <1>9, <1>10, <1>11,
              <1>12 DEF ControlNode
-----------------------------------------------------------------------------
(* The server thread: what it accepts and what it then does.               *)
LEMMA AcceptSafe ==
  ASSUME SupervisionInv, Commands \subseteq SafeCommands,
         NEW cmd \in Commands, NEW n \in Node, Accept(cmd, n)
  PROVE  SupervisionInv'
  <1>1. /\ TypeOK' /\ UNCHANGED <<prog, cursor, ctl, lcd>>
        /\ srv'.cmd = cmd /\ srv'.node = n /\ Accepted(cmd, n) /\ cmd \in SafeCommands
    BY AcceptEffect DEF SupervisionInv
  <1>2. Held'
    BY <1>1 DEF SupervisionInv, Held, Manually, status, output
  <1>3. cmd \in {"stop", "pause", "resume"} => prog[n].step_num # 0
    BY <1>1 DEF Accepted, ShowsRunningStep, SupervisionInv, Configured
  <1>4. Configured' /\ OutputSupervised'
    BY <1>1, <1>3
    DEF SupervisionInv, Configured, OutputSupervised, Manually, status, output
  <1>. QED BY <1>1, <1>2, <1>4 DEF SupervisionInv

LEMMA ChangeStatusSafe ==
  ASSUME SupervisionInv, NEW n \in Node, ChangeStatus(n)
  PROVE  SupervisionInv'
  <1>1. /\ TypeOK' /\ UNCHANGED <<prog, ctl, lcd>> /\ srv'.cmd = "none"
        /\ \A m \in Node \ {n} : status(m)' = status(m) /\ output(m)' = output(m)
        /\ status(n)' = StatusOf(srv.cmd) /\ output(n)' = output(n)
    BY ChangeStatusEffect DEF SupervisionInv, status, output
  <1>2. srv.cmd \in SafeCommands /\ srv.node = n
    BY DEF ChangeStatus, SetsStatus, SupervisionInv, Held
  <1>3. StatusOf(srv.cmd) \in Answering
    BY <1>2 DEF StatusOf, SafeCommands, Answering
  <1>4. ctl.at \in Node /\ \A m \in Node : Manually(m)' = Manually(m)
    BY <1>1 DEF SupervisionInv, TypeOK, ControlState, Manually
  <1>5. Held'
    <2>1. /\ status(ctl.at)' \in {status(ctl.at)} \cup Answering
          /\ output(ctl.at)' = output(ctl.at)
      <3>1. PICK m \in Node : m = ctl.at /\ m = ctl'.at
        BY <1>1, <1>4
      <3>2. status(m)' \in {status(m)} \cup Answering /\ output(m)' = output(m)
        BY <1>1, <1>3
      <3>. QED BY <3>1, <3>2 DEF status, output
    <2>. QED BY <1>1, <1>4, <2>1 DEF SupervisionInv, Held, Manually
  <1>6. Configured'
    <2>1. prog[n].step_num = 0 => srv.cmd = "start"
      BY <1>2 DEF SupervisionInv, Configured, SafeCommands
    <2>2. prog[n].step_num = 0 => status(n)' = "START"
      BY <1>1, <2>1 DEF StatusOf
    <2>. QED BY <1>1, <1>4, <2>2 DEF SupervisionInv, Configured
  <1>7. OutputSupervised'
    BY <1>1, <1>3, <1>4 DEF SupervisionInv, OutputSupervised
  <1>. QED BY <1>1, <1>5, <1>6, <1>7 DEF SupervisionInv

LEMMA ServerSafe ==
  ASSUME SupervisionInv, Commands \subseteq SafeCommands, Server
  PROVE  SupervisionInv'
  <1>1. \A n \in Node : ~(ClearProgram(n) \/ FillProgram(n) \/ SetGlobal(n))
    BY DEF ClearProgram, FillProgram, SetGlobal, SupervisionInv, Held, SafeCommands
  <1>. QED BY <1>1, AcceptSafe, ChangeStatusSafe DEF Server, CarryOut

LEMMA PanelSafe ==
  ASSUME SupervisionInv, LcdPanel
  PROVE  SupervisionInv'
  <1>1. /\ TypeOK' /\ PressShown' /\ UNCHANGED <<prog, ctl, srv>>
        /\ \A m \in Node :
             /\ status(m)' = status(m)
             /\ \/ output(m)' = output(m) /\ (Manually(m) => Manually(m)')
                \/ output(m)' = "REST"
                \/ Manually(m)'
    BY PanelEffect DEF SupervisionInv, Held, PressShown, status
  <1>2. PICK m \in Node : m = ctl.at /\ m = ctl'.at
    BY <1>1 DEF SupervisionInv, TypeOK, ControlState
  <1>3. Held'
    <2>1. (ctl.pc \in {"driving", "switching", "entering"} =>
             status(ctl.at) \in Answering)'
      BY <1>1, <1>2 DEF SupervisionInv, Held, status
    <2>2. (ctl.pc \in Completion => output(ctl.at) = "REST" \/ Manually(ctl.at))'
      <3>1. ctl.pc \in Completion => output(m)' = "REST" \/ Manually(m)'
        BY <1>1, <1>2 DEF SupervisionInv, Held
      <3>. QED BY <1>1, <1>2, <3>1 DEF output, Manually
    <2>. QED BY <1>1, <2>1, <2>2 DEF SupervisionInv, Held, PressShown
  <1>4. Configured' /\ OutputSupervised'
    BY <1>1 DEF SupervisionInv, Configured, OutputSupervised
  <1>. QED BY <1>1, <1>3, <1>4 DEF SupervisionInv

LEMMA InitSafe == Init => SupervisionInv
  <1>1. Init => \A n \in Node : status(n) = "IDLE" /\ output(n) = "REST"
    BY DEF Init, AtRest, status, output
  <1>2. Init => ctl.pc = "start" /\ srv.cmd = "none" /\ lcd.press = "none"
    BY DEF Init, Scan
  <1>3. Init => Held
    BY <1>2 DEF Held, Completion, CompletionStored
  <1>4. Init => Configured /\ OutputSupervised
    BY <1>1, <1>2 DEF Configured, OutputSupervised, Completion, CompletionStored
  <1>. QED BY InitType, <1>3, <1>4 DEF SupervisionInv

LEMMA NextSafe ==
  ASSUME Commands \subseteq SafeCommands, SupervisionInv, [Next]_vars
  PROVE  SupervisionInv'
  <1>1. ASSUME ReadModuleStatus \/ LinkChanges \/ Tick \/ UNCHANGED vars
        PROVE  SupervisionInv'
    <2>1. TypeOK' /\ UNCHANGED <<prog, cursor, ctl, srv, lcd>>
      BY <1>1, EnvironmentEffect DEF SupervisionInv
    <2>. QED BY <2>1 DEF SupervisionInv, Held, Configured, OutputSupervised,
                         Manually, status, output
  <1>. QED BY <1>1, ControlSafe, ServerSafe, PanelSafe DEF Next, Control

(* With start, stop, pause and resume as the only commands, no interleaving*)
(* of the threads leaves a node's output on without the control thread or  *)
(* the operator answering for it.                                          *)
THEOREM Supervision ==
  ASSUME Commands \subseteq SafeCommands
  PROVE  Spec => []OutputSupervised
  <1>1. SupervisionInv /\ [Next]_vars => SupervisionInv'
    BY NextSafe
  <1>2. SupervisionInv => OutputSupervised
    BY DEF SupervisionInv
  <1>. QED BY <1>1, <1>2, InitSafe, PTL DEF Spec
-----------------------------------------------------------------------------
(***************************************************************************)
(* RunningOutputMatches is an invariant of NodeControl, for every number   *)
(* of nodes and every set of programs, whatever the host commands except   *)
(* new programs, and with or without an operator at the panel.             *)
(*                                                                         *)
(* The property speaks of running nodes only, and a resume makes any       *)
(* paused node a running one: so the invariant asks the same of every      *)
(* node, whatever its status, except of the one whose output the control   *)
(* thread is about to set.  Before a start has made that node run no       *)
(* resume may do so, and none is under way: it was waiting to be started,  *)
(* and only running or paused nodes are stopped, paused or resumed.        *)
(***************************************************************************)
(* What node n is driven with is what its step says, or the operator's.    *)
Driven(n) ==
  typeOf(n) \in Runnable =>
    output(n) \in {"REST", OutputOf(typeOf(n))} \/ Manually(n)

(* The step of n is known and its output is still to follow.               *)
Between(n) == ctl.at = n /\ ctl.pc \in {"running", "driving", "entering"}

(* A command to a running or paused node has passed its test.              *)
Due(n) == srv.node = n /\ srv.cmd \in {"stop", "pause", "resume"}

Waiting(n) == status(n) \in {"START", "DIVCAP", "DISABLE", "IDLE"} /\ ~Due(n)

MatchInv ==
  /\ TypeOK
  /\ srv.cmd \notin {"cfg", "fill"}
  /\ PressShown
  /\ \A n \in Node : ~Between(n) => Driven(n)
  /\ \A n \in Node : status(n) = "START" /\ Due(n) =>
       ctl.at = n /\ ctl.pc \in {"set", "setting"}
  /\ ctl.pc = "starting" => Waiting(ctl.at)
  /\ ctl.pc = "running" => Waiting(ctl.at) \/ Driven(ctl.at)
  /\ ctl.pc \in {"running", "driving"} => ctl.type = typeOf(ctl.at)
  /\ ctl.pc = "entering" => ctl.type \in {"CEND", typeOf(ctl.at)}

(* The part of the invariant about where the control thread is.            *)
ScannedMatches(n) ==
  /\ ~Between(n) => Driven(n)
  /\ status(n) = "START" /\ Due(n) => ctl.at = n /\ ctl.pc \in {"set", "setting"}
  /\ ctl.pc \in {"starting", "running", "driving", "entering"} => ctl.at = n
  /\ ctl.pc = "starting" => Waiting(n)
  /\ ctl.pc = "running" => Waiting(n) \/ Driven(n)
  /\ ctl.pc \in {"running", "driving"} => ctl.type = typeOf(n)
  /\ ctl.pc = "entering" => ctl.type \in {"CEND", typeOf(n)}

(* A step of the control thread on node n: what remains to be shown.       *)
LEMMA ControlStepDriven ==
  ASSUME MatchInv, TypeOK', NEW n \in Node, OnlyNode(n), ctl.at = n,
         ScannedMatches(n)'
  PROVE  MatchInv'
  <1>1. UNCHANGED <<prog, srv, lcd>>
    BY DEF OnlyNode
  <1>2. ASSUME NEW m \in Node \ {n}
        PROVE  /\ Driven(m)' /\ ~Between(m)'
               /\ ~(status(m) = "START" /\ Due(m))'
    <2>1. /\ typeOf(m)' = typeOf(m) /\ output(m)' = output(m)
          /\ status(m)' = status(m) /\ Manually(m)' = Manually(m) /\ Due(m)' = Due(m)
      BY <1>1 DEF OnlyNode, typeOf, output, status, Manually, Due
    <2>2. Driven(m) /\ ~(status(m) = "START" /\ Due(m))
      BY DEF MatchInv, Between
    <2>3. ~Between(m)'
      BY DEF ScannedMatches, Between
    <2>. QED BY <2>1, <2>2, <2>3 DEF Driven
  <1>3. /\ (\A m \in Node : ~Between(m) => Driven(m))'
        /\ (\A m \in Node : status(m) = "START" /\ Due(m) =>
              ctl.at = m /\ ctl.pc \in {"set", "setting"})'
    BY <1>2 DEF ScannedMatches
  <1>4. /\ (ctl.pc = "starting" => Waiting(ctl.at))'
        /\ (ctl.pc = "running" => Waiting(ctl.at) \/ Driven(ctl.at))'
        /\ (ctl.pc \in {"running", "driving"} => ctl.type = typeOf(ctl.at))'
        /\ (ctl.pc = "entering" => ctl.type \in {"CEND", typeOf(ctl.at)})'
    <2>. QED BY DEF ScannedMatches, Waiting, Driven, Due, Manually, status, output,
                    typeOf
  <1>. QED BY <1>1, <1>3, <1>4 DEF MatchInv, PressShown

LEMMA ScannedDriven ==
  ASSUME MatchInv, NEW n \in Node, ctl.at = n
  PROVE  ScannedMatches(n)
  BY DEF MatchInv, ScannedMatches

(* A step that leaves the node where it is, its status and its output too, *)
(* or switches the output off.                                             *)
LEMMA RestDriven ==
  ASSUME MatchInv, TypeOK', NEW n \in Node, OnlyNode(n), ctl.at = n,
         ctl.pc \notin {"running", "driving", "entering"},
         ctl'.pc \notin {"starting", "running", "driving", "entering"},
         cursor'[n].now_step = cursor[n].now_step,
         output(n)' \in {"REST", output(n)},
         status(n)' = "START" /\ Due(n) => ctl'.at = n /\ ctl'.pc \in {"set", "setting"}
  PROVE  MatchInv'
  <1>1. typeOf(n)' = typeOf(n) /\ Manually(n)' = Manually(n) /\ Due(n)' = Due(n)
    BY DEF OnlyNode, typeOf, Manually, Due
  <1>2. Driven(n)
    BY DEF MatchInv, Between
  <1>3. Driven(n)'
    BY <1>1, <1>2 DEF Driven
  <1>. QED BY <1>1, <1>3, ControlStepDriven DEF ScannedMatches

LEMMA ControlDriven ==
  ASSUME MatchInv, NEW n \in Node, ControlNode(n)
  PROVE  MatchInv'
  <1>1. TypeOK
    BY DEF MatchInv
  <1>2. CASE SeeStart(n)
    <2>1. /\ TypeOK' /\ OnlyNode(n) /\ UNCHANGED <<prog, cursor, srv, lcd>>
          /\ At("start", n) /\ ctl'.at = n
          /\ ctl'.pc = IF status(n) = "START" THEN "starting" ELSE "poll"
      BY <1>1, <1>2, SeeStartEffect
    <2>2. /\ typeOf(n)' = typeOf(n) /\ Manually(n)' = Manually(n) /\ Due(n)' = Due(n)
          /\ status(n)' = status(n) /\ output(n)' = output(n)
      BY <2>1 DEF typeOf, Manually, Due, status, output
    <2>3. Driven(n) /\ ~(status(n) = "START" /\ Due(n))
      BY <2>1 DEF MatchInv, Between, At
    <2>4. ScannedMatches(n)'
      BY <2>1, <2>2, <2>3 DEF ScannedMatches, Driven, Waiting
    <2>. QED BY <2>1, <2>4, ControlStepDriven DEF At
  <1>3. CASE StartNode(n)
    <2>1. /\ TypeOK' /\ OnlyNode(n) /\ At("starting", n) /\ ctl'.at = n
          /\ output(n)' = output(n)
          /\ ctl'.pc \in {"poll", "running"}
          /\ ctl'.pc = "running" => ctl'.type = typeOf(n)'
      BY <1>1, <1>3, StartNodeEffect DEF output
    <2>2. /\ UNCHANGED <<prog, srv, lcd>> /\ Manually(n)' = Manually(n) /\ Due(n)' = Due(n)
      BY <2>1 DEF OnlyNode, Manually, Due
    <2>3. Driven(n) /\ Waiting(n)
      BY <2>1 DEF MatchInv, Between, At
    <2>4. CASE cursor'[n].now_step = cursor[n].now_step
      <3>1. typeOf(n)' = typeOf(n)
        BY <2>2, <2>4 DEF typeOf
      <3>2. Driven(n)'
        BY <2>1, <2>2, <2>3, <3>1 DEF Driven
      <3>. QED BY <2>1, <2>2, <2>3, <3>2, ControlStepDriven
               DEF ScannedMatches, Waiting, At
    <2>5. CASE cursor'[n].now_step # cursor[n].now_step
      <3>1. /\ status(n)' = status(n)
            /\ ctl'.pc = IF typeOf(n)' \in Runnable THEN "running" ELSE "poll"
        BY <1>1, <1>3, <2>5, StartNodeEffect DEF status
      <3>2. Waiting(n)' /\ ~Due(n)'
        BY <2>2, <2>3, <3>1 DEF Waiting
      <3>3. ctl'.pc = "poll" => Driven(n)'
        BY <3>1 DEF Driven
      <3>. QED BY <2>1, <3>2, <3>3, ControlStepDriven DEF ScannedMatches, Between, At
    <2>. QED BY <2>4, <2>5
  <1>4. CASE RunStep(n)
    <2>1. /\ TypeOK' /\ OnlyNode(n) /\ At("running", n) /\ At("driving", n)'
          /\ ctl'.type = ctl.type /\ cursor'[n].now_step = cursor[n].now_step
          /\ status(n)' = "RUNNING"
      BY <1>1, <1>4, RunStepEffect DEF status
    <2>2. typeOf(n)' = typeOf(n) /\ ctl.type = typeOf(n)
      BY <2>1 DEF typeOf, OnlyNode, MatchInv, At
    <2>3. ScannedMatches(n)'
      BY <2>1, <2>2 DEF ScannedMatches, Between, At
    <2>. QED BY <2>1, <2>3, ControlStepDriven DEF At
  <1>5. CASE DriveStep(n)
    <2>1. /\ TypeOK' /\ OnlyNode(n) /\ At("driving", n) /\ At("poll", n)'
          /\ cursor'[n].now_step = cursor[n].now_step
          /\ output(n)' = OutputOf(ctl.type) /\ status(n)' = status(n)
      BY <1>1, <1>5, DriveStepEffect DEF status, output
    <2>2. /\ typeOf(n)' = typeOf(n) /\ ctl.type = typeOf(n) /\ Due(n)' = Due(n)
          /\ ~(status(n) = "START" /\ Due(n))
      BY <2>1 DEF typeOf, OnlyNode, MatchInv, At, Due
    <2>3. ScannedMatches(n)'
      BY <2>1, <2>2 DEF ScannedMatches, Driven, At
    <2>. QED BY <2>1, <2>3, ControlStepDriven DEF At
  <1>6. CASE \/ SeeRunning(n) \/ Poll(n) \/ SeeStop(n) \/ StopNode(n)
             \/ RestPaused(n) \/ MarkComplete(n) \/ ResetEnd(n)
    <2>1. /\ TypeOK' /\ OnlyNode(n) /\ ctl.at = n
          /\ ctl.pc \in {"poll", "polling", "halt", "stopping", "pausing",
                         "marking", "resetting"}
          /\ ctl'.pc \in {"polling", "halt", "stopping", "pausing", "start",
                          "next", "resetting"}
          /\ cursor'[n].now_step = cursor[n].now_step
          /\ output(n)' \in {"REST", output(n)} /\ status(n)' \in {"IDLE", status(n)}
      BY <1>1, <1>6, SeeRunningEffect, PollEffect, SeeStopEffect, StopNodeEffect,
         RestPausedEffect, MarkCompleteEffect, ResetEndEffect
      DEF At, status, output
    <2>2. ~(status(n) = "START" /\ Due(n))
      BY <2>1 DEF MatchInv
    <2>. QED BY <2>1, <2>2, RestDriven
  <1>7. CASE SeeStepEnd(n)
    <2>1. /\ TypeOK' /\ OnlyNode(n) /\ At("next", n) /\ UNCHANGED cursor
          /\ ctl'.pc \in {"switching", "start", "next"}
      BY <1>1, <1>7, SeeStepEndEffect
    <2>2. ~(status(n) = "START" /\ Due(n))
      BY <2>1 DEF MatchInv, At
    <2>. QED BY <2>1, <2>2, RestDriven DEF At, status, output
  <1>8. CASE MoveCursor(n)
    <2>1. /\ TypeOK' /\ OnlyNode(n) /\ At("switching", n) /\ At("entering", n)'
          /\ status(n)' = status(n) /\ ctl'.type \in {"CEND", typeOf(n)'}
      BY <1>1, <1>8, MoveCursorEffect DEF status
    <2>2. ~(status(n) = "START" /\ Due(n)) /\ Due(n)' = Due(n)
      BY <2>1 DEF MatchInv, At, OnlyNode, Due
    <2>3. ScannedMatches(n)'
      BY <2>1, <2>2 DEF ScannedMatches, Between, At
    <2>. QED BY <2>1, <2>3, ControlStepDriven DEF At
  <1>9. CASE EnterStep(n)
    <2>1. /\ TypeOK' /\ OnlyNode(n) /\ At("entering", n) /\ ctl'.at = n
          /\ ctl'.pc \in {"completing", "resetting"}
          /\ cursor'[n].now_step = cursor[n].now_step /\ status(n)' = status(n)
          /\ ctl.type = "CEND" => output(n)' = "REST"
          /\ ctl.type \in Runnable => output(n)' \in {"REST", OutputOf(ctl.type)}
      BY <1>1, <1>9, EnterStepEffect DEF status, output
    <2>2. /\ typeOf(n)' = typeOf(n) /\ ctl.type \in {"CEND", typeOf(n)}
          /\ Due(n)' = Due(n) /\ ~(status(n) = "START" /\ Due(n))
      BY <2>1 DEF typeOf, OnlyNode, MatchInv, At, Due
    <2>3. ScannedMatches(n)'
      BY <2>1, <2>2 DEF ScannedMatches, Driven
    <2>. QED BY <2>1, <2>3, ControlStepDriven DEF At
  <1>10. CASE Complete(n)
    <2>1. /\ TypeOK' /\ OnlyNode(n) /\ At("completing", n) /\ At("clear", n)'
          /\ cursor'[n].now_step = cursor[n].now_step
          /\ output(n)' = output(n) /\ status(n)' = "COMP"
      BY <1>1, <1>10, CompleteEffect DEF status, output
    <2>. QED BY <2>1, RestDriven DEF At
  <1>11. CASE LoadStatus(n)
    <2>1. /\ TypeOK' /\ OnlyNode(n) /\ UNCHANGED cursor /\ ctl'.at = n /\ ctl.at = n
          /\ \/ ctl.pc = "clear" /\ ctl'.pc = "clearing"
             \/ ctl.pc = "set"   /\ ctl'.pc = "setting"
      BY <1>1, <1>11, LoadStatusEffect
    <2>2. ctl.pc = "clear" => ~(status(n) = "START" /\ Due(n))
      BY <2>1 DEF MatchInv
    <2>. QED BY <2>1, <2>2, RestDriven DEF status, output
  <1>12. CASE StoreStatus(n)
    <2>1. /\ TypeOK' /\ OnlyNode(n) /\ ctl.at = n /\ ctl'.at = n
          /\ ctl.pc \in {"clearing", "setting"}
          /\ cursor'[n].now_step = cursor[n].now_step /\ output(n)' = output(n)
          /\ \/ ctl'.pc = "set"
             \/ ctl'.pc = "marking" /\ status(n)' = WithCmpBit(ctl.status)
      BY <1>1, <1>12, StoreStatusEffect DEF status, output
    <2>2. ctl'.pc = "marking" => status(n)' # "START"
      BY <2>1 DEF WithCmpBit
    <2>. QED BY <2>1, <2>2, RestDriven
  <1>. QED BY <1>2, <1>3, <1>4, <1>5, <1>6, <1>7, <1>8, <1>9, <1>10, <1>11,
              <1>12 DEF ControlNode
-----------------------------------------------------------------------------
(* What the other threads leave alone: the place of every node, its status *)
(* and its output, unless the operator drives it.                          *)
LeftAlone(m) ==
  /\ typeOf(m)' = typeOf(m)
  /\ \/ output(m)' = output(m) /\ (Manually(m) => Manually(m)')
     \/ output(m)' = "REST"
     \/ Manually(m)'
  /\ status(m)' = "START" => ~Due(m)' \/ (status(m) = "START" /\ Due(m))
  /\ Waiting(m) => Waiting(m)'

LEMMA OthersDriven ==
  ASSUME MatchInv, TypeOK', PressShown', UNCHANGED ctl,
         srv'.cmd \notin {"cfg", "fill"}, \A m \in Node : LeftAlone(m)
  PROVE  MatchInv'
  <1>. USE DEF LeftAlone
  <1>1. \A m \in Node : Driven(m) => Driven(m)'
    BY DEF Driven
  <1>2. PICK m \in Node : m = ctl.at /\ m = ctl'.at
    BY DEF MatchInv, TypeOK, ControlState
  <1>3. \A k \in Node : Between(k)' = Between(k)
    BY DEF Between
  <1>4. /\ (\A k \in Node : ~Between(k) => Driven(k))'
        /\ (\A k \in Node : status(k) = "START" /\ Due(k) =>
              ctl.at = k /\ ctl.pc \in {"set", "setting"})'
    BY <1>1, <1>3 DEF MatchInv
  <1>5. /\ ctl'.pc = "starting" => Waiting(m)'
        /\ ctl'.pc = "running" => Waiting(m)' \/ Driven(m)'
        /\ ctl'.pc \in {"running", "driving"} => ctl'.type = typeOf(m)'
        /\ ctl'.pc = "entering" => ctl'.type \in {"CEND", typeOf(m)'}
    BY <1>1, <1>2 DEF MatchInv
  <1>6. /\ (ctl.pc = "starting" => Waiting(ctl.at))'
        /\ (ctl.pc = "running" => Waiting(ctl.at) \/ Driven(ctl.at))'
        /\ (ctl.pc \in {"running", "driving"} => ctl.type = typeOf(ctl.at))'
        /\ (ctl.pc = "entering" => ctl.type \in {"CEND", typeOf(ctl.at)})'
    BY <1>2, <1>5 DEF Waiting, Driven, Due, Manually, status, output, typeOf
  <1>. QED BY <1>4, <1>6 DEF MatchInv

(* The server: no command but a new program touches step or output.        *)
LEMMA ServerDriven ==
  ASSUME MatchInv, "cfg" \notin Commands, Server
  PROVE  MatchInv'
  <1>1. TypeOK /\ PressShown
    BY DEF MatchInv
  <1>2. ASSUME NEW cmd \in Commands, NEW n \in Node, Accept(cmd, n)
        PROVE  MatchInv'
    <2>1. /\ TypeOK' /\ UNCHANGED <<prog, cursor, ctl, lcd>>
          /\ srv'.cmd = cmd /\ srv'.node = n /\ Accepted(cmd, n)
          /\ cmd \notin {"cfg", "fill"}
      BY <1>1, <1>2, AcceptEffect DEF AllCommands
    <2>2. cmd \in {"stop", "pause", "resume"} => status(n) \in {"RUNNING", "PAUSE"}
      BY <2>1 DEF Accepted, ShowsRunningStep
    <2>3. \A m \in Node : /\ typeOf(m)' = typeOf(m) /\ output(m)' = output(m)
                          /\ status(m)' = status(m) /\ Manually(m)' = Manually(m)
      BY <2>1 DEF typeOf, output, status, Manually
    <2>4. \A m \in Node : status(m) \notin {"RUNNING", "PAUSE"} => ~Due(m)'
      BY <2>1, <2>2 DEF Due
    <2>5. PressShown'
      BY <1>1, <2>1 DEF PressShown
    <2>6. \A m \in Node : LeftAlone(m)
      BY <2>3, <2>4 DEF LeftAlone, Waiting
    <2>. QED BY <2>1, <2>5, <2>6, OthersDriven
  <1>3. ASSUME NEW n \in Node, ChangeStatus(n)
        PROVE  MatchInv'
    <2>1. /\ TypeOK' /\ UNCHANGED <<prog, ctl, lcd>>
          /\ srv'.cmd = "none" /\ srv.node = n /\ srv.cmd \in SetsStatus
          /\ \A m \in Node \ {n} : cursor'[m] = cursor[m]
          /\ cursor'[n].now_step = cursor[n].now_step
          /\ output(n)' = output(n) /\ status(n)' = StatusOf(srv.cmd)
      BY <1>1, <1>3, ChangeStatusEffect DEF status, output
    <2>2. \A m \in Node : /\ typeOf(m)' = typeOf(m) /\ output(m)' = output(m)
                          /\ Manually(m)' = Manually(m) /\ ~Due(m)'
      BY <2>1 DEF typeOf, output, Manually, Due
    <2>3. \A m \in Node \ {n} : status(m)' = status(m)
      BY <2>1 DEF status
    <2>4. Waiting(n) => status(n)' \in {"START", "DIVCAP", "DISABLE", "IDLE"}
      BY <2>1 DEF Waiting, Due, SetsStatus, StatusOf
    <2>5. PressShown'
      BY <1>1, <2>1 DEF PressShown
    <2>6. \A m \in Node : LeftAlone(m)
      BY <2>2, <2>3, <2>4 DEF LeftAlone, Waiting
    <2>. QED BY <2>1, <2>5, <2>6, OthersDriven
  <1>4. ASSUME NEW n \in Node, SetGlobal(n)
        PROVE  MatchInv'
    <2>1. PICK p \in Programs :
            prog' = [prog EXCEPT ![n].cyc = p.cyc,
                          ![n].divcap_end_step = p.divcap_end_step,
                          ![n].recharge_start_step = p.recharge_start_step]
      BY <1>4 DEF SetGlobal
    <2>2. UNCHANGED <<cursor, ctl, lcd>> /\ srv'.cmd = "none" /\ TypeOK'
      BY <1>1, <1>4, ServerType DEF Server, CarryOut, SetGlobal, Done
    <2>3. \A m \in Node : prog'[m].step = prog[m].step
      BY <2>1 DEF MatchInv, TypeOK, NodeProgram
    <2>4. \A m \in Node : /\ typeOf(m)' = typeOf(m) /\ output(m)' = output(m)
                          /\ status(m)' = status(m) /\ Manually(m)' = Manually(m)
                          /\ ~Due(m)'
      BY <2>2, <2>3 DEF typeOf, TypeAt, output, status, Manually, Due
    <2>5. PressShown'
      BY <1>1, <2>2 DEF PressShown
    <2>6. \A m \in Node : LeftAlone(m)
      BY <2>4 DEF LeftAlone, Waiting
    <2>. QED BY <2>2, <2>5, <2>6, OthersDriven
  <1>5. \A n \in Node : ~(ClearProgram(n) \/ FillProgram(n))
    BY DEF ClearProgram, FillProgram, MatchInv
  <1>. QED BY <1>2, <1>3, <1>4, <1>5 DEF Server, CarryOut

LEMMA PanelDriven ==
  ASSUME MatchInv, LcdPanel
  PROVE  MatchInv'
  <1>1. /\ TypeOK' /\ PressShown' /\ UNCHANGED <<prog, ctl, srv>>
        /\ \A m \in Node :
             /\ cursor'[m].now_step = cursor[m].now_step
             /\ status(m)' = status(m)
             /\ \/ output(m)' = output(m) /\ (Manually(m) => Manually(m)')
                \/ output(m)' = "REST"
                \/ Manually(m)'
    BY PanelEffect DEF MatchInv, status
  <1>2. \A m \in Node : typeOf(m)' = typeOf(m)
    BY <1>1 DEF typeOf
  <1>3. \A m \in Node : LeftAlone(m)
    BY <1>1, <1>2 DEF LeftAlone, Waiting, Due
  <1>4. srv'.cmd \notin {"cfg", "fill"}
    BY <1>1 DEF MatchInv
  <1>. QED BY <1>1, <1>3, <1>4, OthersDriven

(* With any commands but new programs, no interleaving of the threads      *)
(* drives a running node against its step: a charge step never discharges  *)
(* the battery, nor a discharge step charges it, unless by the operator.   *)
THEOREM OutputMatches ==
  ASSUME "cfg" \notin Commands
  PROVE  Spec => []RunningOutputMatches
  <1>1. Init => MatchInv
    <2>1. Init => \A n \in Node : output(n) = "REST" /\ status(n) = "IDLE"
      BY DEF Init, AtRest, output, status
    <2>2. Init => srv.cmd = "none" /\ lcd.press = "none" /\ ctl.pc = "start"
      BY DEF Init, Scan
    <2>. QED BY <2>1, <2>2, InitType DEF MatchInv, Driven, PressShown
  <1>2. MatchInv /\ [Next]_vars => MatchInv'
    <2>1. ASSUME MatchInv, ReadModuleStatus \/ LinkChanges \/ Tick \/ UNCHANGED vars
          PROVE  MatchInv'
      <3>1. TypeOK' /\ UNCHANGED <<prog, cursor, ctl, srv, lcd>>
        BY <2>1, EnvironmentEffect DEF MatchInv
      <3>. QED BY <2>1, <3>1 DEF MatchInv, PressShown, Between, Due, Waiting, Driven,
                                 Manually, status, output, typeOf
    <2>. QED BY <2>1, ControlDriven, ServerDriven, PanelDriven DEF Next, Control
  <1>3. MatchInv => RunningOutputMatches
    BY DEF MatchInv, Driven, Between, Waiting, RunningOutputMatches, At
  <1>. QED BY <1>1, <1>2, <1>3, PTL DEF Spec
-----------------------------------------------------------------------------
(***************************************************************************)
(* CursorInProgram and CompleteIsMarked are invariants of NodeControl for  *)
(* every number of nodes and programs, whatever the host commands and with *)
(* or without an operator at the panel.                                    *)
(***************************************************************************)
(* New programs and new repetitions: what they leave of the nodes.         *)
LEMMA ClearProgramEffect ==
  ASSUME TypeOK, NEW n \in Node, ClearProgram(n)
  PROVE  /\ TypeOK' /\ UNCHANGED <<ctl, lcd>>
         /\ srv.cmd = "cfg" /\ srv'.cmd = "fill" /\ prog'[n].step_num # 0
         /\ cursor'[n].now_step = 0 /\ cursor'[n].run_status = "IDLE"
         /\ \A m \in Node \ {n} : /\ prog'[m] = prog[m] /\ cursor'[m] = cursor[m]
                                  /\ working_status'[m] = working_status[m]
  <1>1. PICK p \in Programs :
          prog' = [prog EXCEPT ![n] = [NoProgram EXCEPT
                    !.step_num = p.step_num,
                    !.divcap_end_step = prog[n].divcap_end_step,
                    !.recharge_start_step = prog[n].recharge_start_step]]
    BY DEF ClearProgram
  <1>2. p.step_num # 0
    BY NodeControlAssumption, ProgramFields
  <1>3. /\ \A m \in Node \ {n} : prog'[m] = prog[m]
        /\ prog'[n].step_num = p.step_num
    BY <1>1 DEF NoProgram, TypeOK
  <1>4. /\ cursor'[n].now_step = 0 /\ cursor'[n].run_status = "IDLE"
        /\ \A m \in Node \ {n} : /\ cursor'[m] = cursor[m]
                                 /\ working_status'[m] = working_status[m]
    BY DEF ClearProgram, Rewound, TypeOK
  <1>5. srv.cmd = "cfg" /\ srv'.cmd = "fill" /\ UNCHANGED <<ctl, lcd>>
    BY DEF ClearProgram, TypeOK
  <1>6. TypeOK'
    BY ServerType DEF Server, CarryOut
  <1>. QED BY <1>2, <1>3, <1>4, <1>5, <1>6

LEMMA FillProgramEffect ==
  ASSUME TypeOK, NEW n \in Node, FillProgram(n) \/ SetGlobal(n)
  PROVE  /\ TypeOK' /\ UNCHANGED <<cursor, ctl, lcd>> /\ srv'.cmd = "none"
         /\ \A m \in Node : prog'[m].step_num = prog[m].step_num
         /\ \A m \in Node : \/ working_status'[m] = working_status[m]
                            \/ srv.cmd = "fill" /\ working_status'[m] = "none"
  <1>1. \A m \in Node : prog'[m].step_num = prog[m].step_num
    <2>1. ASSUME NEW p \in Programs, prog' = [prog EXCEPT ![n].step = p.step]
          PROVE  \A m \in Node : prog'[m].step_num = prog[m].step_num
      BY <2>1 DEF TypeOK, NodeProgram
    <2>2. ASSUME NEW p \in Programs,
                 prog' = [prog EXCEPT ![n].cyc = p.cyc,
                            ![n].divcap_end_step = p.divcap_end_step,
                            ![n].recharge_start_step = p.recharge_start_step]
          PROVE  \A m \in Node : prog'[m].step_num = prog[m].step_num
      BY <2>2 DEF TypeOK, NodeProgram
    <2>. QED BY <2>1, <2>2 DEF FillProgram, SetGlobal
  <1>2. \A m \in Node : \/ working_status'[m] = working_status[m]
                        \/ srv.cmd = "fill" /\ working_status'[m] = "none"
    BY DEF FillProgram, SetGlobal, TypeOK
  <1>3. Done /\ UNCHANGED <<cursor, ctl, lcd>>
    BY DEF FillProgram, SetGlobal
  <1>4. TypeOK'
    BY ServerType DEF Server, CarryOut
  <1>. QED BY <1>1, <1>2, <1>3, <1>4 DEF Done
-----------------------------------------------------------------------------
(* CursorInProgram speaks of running nodes, which a start or a resume      *)
(* makes of others: the invariant has every node inside its program or at  *)
(* the first step, and a node without a program at none of the states from *)
(* which it could come to run.                                             *)
Inside(n) == cursor[n].now_step < prog[n].step_num \/ cursor[n].now_step = 0

NeverConfigured(n) ==
  prog[n].step_num = 0 => status(n) \in {"IDLE", "START", "DIVCAP", "DISABLE"}

(* Where the control thread has seen a step of the node's program.         *)
Stepping == {"running", "switching", "entering"} \cup Completion

CursorInv ==
  /\ TypeOK /\ PressShown
  /\ \A n \in Node : Inside(n) /\ NeverConfigured(n)
  /\ ctl.pc \in Stepping => prog[ctl.at].step_num # 0
  /\ srv.cmd \in {"stop", "pause", "resume"} => prog[srv.node].step_num # 0

(* A step of the control thread on node n.                                 *)
LEMMA ControlStepInside ==
  ASSUME CursorInv, TypeOK', NEW n \in Node, OnlyNode(n),
         \/ cursor'[n].now_step < prog[n].step_num
         \/ cursor'[n].now_step \in {0, cursor[n].now_step},
         prog[n].step_num = 0 =>
           cursor'[n].run_status \in {"IDLE", cursor[n].run_status},
         ctl'.pc \in Stepping => ctl'.at = n /\ prog[n].step_num # 0
  PROVE  CursorInv'
  <1>1. ASSUME NEW m \in Node
        PROVE  Inside(m)' /\ NeverConfigured(m)'
    BY DEF OnlyNode, CursorInv, Inside, NeverConfigured, status
  <1>. QED BY <1>1 DEF OnlyNode, CursorInv, PressShown

LEMMA ControlInside ==
  ASSUME CursorInv, NEW n \in Node, ControlNode(n)
  PROVE  CursorInv'
  <1>. USE DEF Stepping, Completion, CompletionStored
  <1>1. TypeOK /\ (ctl.at = n /\ ctl.pc \in Stepping => prog[n].step_num # 0)
    BY DEF CursorInv
  <1>2. CASE \/ SeeStart(n) \/ SeeRunning(n) \/ Poll(n) \/ SeeStop(n)
             \/ MarkComplete(n) \/ ResetEnd(n)
    <2>1. /\ TypeOK' /\ OnlyNode(n) /\ UNCHANGED cursor
          /\ ctl'.pc \in {"starting", "poll", "polling", "halt", "stopping",
                          "pausing", "start", "next", "resetting"}
      BY <1>1, <1>2, SeeStartEffect, SeeRunningEffect, PollEffect, SeeStopEffect,
         MarkCompleteEffect, ResetEndEffect DEF At
    <2>. QED BY <2>1, ControlStepInside
  <1>3. CASE StartNode(n)
    <2>1. /\ TypeOK' /\ OnlyNode(n) /\ ctl'.at = n /\ ctl'.pc \in {"running", "poll"}
          /\ cursor'[n].now_step \in {0, cursor[n].now_step}
          /\ prog[n].step_num = 0 => ctl'.pc = "poll" /\ cursor'[n].run_status = "IDLE"
      BY <1>1, <1>3, StartNodeEffect
    <2>. QED BY <2>1, ControlStepInside
  <1>4. CASE RunStep(n)
    <2>1. /\ TypeOK' /\ OnlyNode(n) /\ At("running", n) /\ At("driving", n)'
          /\ cursor'[n].now_step = cursor[n].now_step
      BY <1>1, <1>4, RunStepEffect
    <2>. QED BY <1>1, <2>1, ControlStepInside DEF At
  <1>5. CASE DriveStep(n)
    <2>1. /\ TypeOK' /\ OnlyNode(n) /\ At("poll", n)'
          /\ cursor'[n].now_step = cursor[n].now_step
          /\ cursor'[n].run_status = cursor[n].run_status
      BY <1>1, <1>5, DriveStepEffect
    <2>. QED BY <2>1, ControlStepInside DEF At
  <1>6. CASE StopNode(n) \/ RestPaused(n)
    <2>1. /\ TypeOK' /\ OnlyNode(n) /\ ctl'.pc \in {"pausing", "start", "next"}
          /\ cursor'[n].now_step = cursor[n].now_step
          /\ cursor'[n].run_status \in {"IDLE", cursor[n].run_status}
      BY <1>1, <1>6, StopNodeEffect, RestPausedEffect DEF At, status
    <2>. QED BY <2>1, ControlStepInside
  <1>7. CASE SeeStepEnd(n)
    <2>1. /\ TypeOK' /\ OnlyNode(n) /\ UNCHANGED cursor
          /\ \/ ctl'.pc = "switching" /\ ctl'.at = n /\ status(n) = "RUNNING"
             \/ ctl'.pc \in {"start", "next"}
      BY <1>1, <1>7, SeeStepEndEffect
    <2>2. ctl'.pc = "switching" => prog[n].step_num # 0
      BY <2>1 DEF CursorInv, NeverConfigured
    <2>. QED BY <2>1, <2>2, ControlStepInside
  <1>8. CASE MoveCursor(n)
    <2>1. /\ TypeOK' /\ OnlyNode(n) /\ At("switching", n) /\ At("entering", n)'
          /\ \/ cursor'[n].now_step < prog[n].step_num
             \/ cursor'[n].now_step \in {0, cursor[n].now_step}
          /\ cursor'[n].run_status = cursor[n].run_status
      BY <1>1, <1>8, MoveCursorEffect
    <2>. QED BY <1>1, <2>1, ControlStepInside DEF At
  <1>9. CASE EnterStep(n)
    <2>1. /\ TypeOK' /\ OnlyNode(n) /\ At("entering", n) /\ ctl'.at = n
          /\ cursor'[n].now_step = cursor[n].now_step
          /\ cursor'[n].run_status = cursor[n].run_status
      BY <1>1, <1>9, EnterStepEffect
    <2>. QED BY <1>1, <2>1, ControlStepInside DEF At
  <1>10. CASE Complete(n) \/ LoadStatus(n) \/ StoreStatus(n)
    <2>1. /\ TypeOK' /\ OnlyNode(n) /\ ctl.at = n /\ ctl.pc \in Completion /\ ctl'.at = n
          /\ cursor'[n].now_step = cursor[n].now_step
      BY <1>1, <1>10, CompleteEffect, LoadStatusEffect, StoreStatusEffect DEF At
    <2>. QED BY <1>1, <2>1, ControlStepInside
  <1>. QED BY <1>2, <1>3, <1>4, <1>5, <1>6, <1>7, <1>8, <1>9, <1>10 DEF ControlNode

LEMMA ServerInside ==
  ASSUME CursorInv, Server
  PROVE  CursorInv'
  <1>1. TypeOK /\ ctl.at \in Node
    BY DEF CursorInv, TypeOK, ControlState
  <1>2. ASSUME NEW cmd \in Commands, NEW n \in Node, Accept(cmd, n)
        PROVE  CursorInv'
    <2>1. /\ TypeOK' /\ UNCHANGED <<prog, cursor, ctl, lcd>>
          /\ srv'.cmd = cmd /\ srv'.node = n /\ Accepted(cmd, n)
      BY <1>1, <1>2, AcceptEffect
    <2>2. cmd \in {"stop", "pause", "resume"} => prog[n].step_num # 0
      BY <2>1 DEF Accepted, ShowsRunningStep, CursorInv, NeverConfigured
    <2>. QED BY <2>1, <2>2
             DEF CursorInv, PressShown, Inside, NeverConfigured, status
  <1>3. ASSUME NEW n \in Node, ChangeStatus(n)
        PROVE  CursorInv'
    <2>1. /\ TypeOK' /\ UNCHANGED <<prog, ctl, lcd>> /\ srv'.cmd = "none"
          /\ srv.node = n /\ srv.cmd \in SetsStatus
          /\ \A m \in Node \ {n} : cursor'[m] = cursor[m]
          /\ cursor'[n].now_step = cursor[n].now_step
          /\ cursor'[n].run_status = StatusOf(srv.cmd)
      BY <1>1, <1>3, ChangeStatusEffect
    <2>2. NeverConfigured(n)'
      BY <2>1 DEF CursorInv, NeverConfigured, status, StatusOf, SetsStatus
    <2>3. \A m \in Node : Inside(m)' /\ NeverConfigured(m)'
      BY <2>1, <2>2 DEF CursorInv, Inside, NeverConfigured, status
    <2>. QED BY <2>1, <2>3 DEF CursorInv, PressShown
  <1>4. ASSUME NEW n \in Node, ClearProgram(n)
        PROVE  CursorInv'
    <2>1. /\ TypeOK' /\ UNCHANGED <<ctl, lcd>> /\ srv'.cmd = "fill" /\ prog'[n].step_num # 0
          /\ cursor'[n].now_step = 0
          /\ \A m \in Node \ {n} : prog'[m] = prog[m] /\ cursor'[m] = cursor[m]
      BY <1>1, <1>4, ClearProgramEffect
    <2>2. \A m \in Node : Inside(m)' /\ NeverConfigured(m)'
      BY <2>1 DEF CursorInv, Inside, NeverConfigured, status
    <2>3. prog[ctl.at].step_num # 0 => prog'[ctl.at].step_num # 0
      BY <1>1, <2>1
    <2>. QED BY <2>1, <2>2, <2>3 DEF CursorInv, PressShown
  <1>5. ASSUME NEW n \in Node, FillProgram(n) \/ SetGlobal(n)
        PROVE  CursorInv'
    <2>1. /\ TypeOK' /\ UNCHANGED <<cursor, ctl, lcd>> /\ srv'.cmd = "none"
          /\ \A m \in Node : prog'[m].step_num = prog[m].step_num
      BY <1>1, <1>5, FillProgramEffect
    <2>2. \A m \in Node : Inside(m)' /\ NeverConfigured(m)'
      BY <2>1 DEF CursorInv, Inside, NeverConfigured, status
    <2>. QED BY <1>1, <2>1, <2>2 DEF CursorInv, PressShown
  <1>. QED BY <1>2, <1>3, <1>4, <1>5 DEF Server, CarryOut

LEMMA PanelInside ==
  ASSUME CursorInv, LcdPanel
  PROVE  CursorInv'
  <1>1. /\ TypeOK' /\ PressShown' /\ UNCHANGED <<prog, ctl, srv>>
        /\ \A m \in Node : /\ cursor'[m].now_step = cursor[m].now_step
                           /\ cursor'[m].run_status = cursor[m].run_status
    BY PanelEffect DEF CursorInv
  <1>2. \A m \in Node : Inside(m)' /\ NeverConfigured(m)'
    BY <1>1 DEF CursorInv, Inside, NeverConfigured, status
  <1>. QED BY <1>1, <1>2 DEF CursorInv

(* Whatever the host commands and whenever it replaces a program, no race  *)
(* leaves a running node at a step behind the end of its program.          *)
THEOREM CursorStaysInProgram == Spec => []CursorInProgram
  <1>1. Init => CursorInv
    <2>1. Init => /\ srv.cmd = "none" /\ ctl.pc = "start" /\ lcd.press = "none"
                  /\ \A n \in Node : cursor[n] = AtRest
      BY DEF Init, Scan
    <2>2. Init => \A n \in Node : Inside(n) /\ NeverConfigured(n)
      BY <2>1 DEF Inside, NeverConfigured, AtRest, status
    <2>. QED BY <2>1, <2>2, InitType
             DEF CursorInv, PressShown, Stepping, Completion, CompletionStored
  <1>2. CursorInv /\ [Next]_vars => CursorInv'
    <2>1. ASSUME CursorInv, ReadModuleStatus \/ LinkChanges \/ Tick \/ UNCHANGED vars
          PROVE  CursorInv'
      <3>1. TypeOK' /\ UNCHANGED <<prog, cursor, ctl, srv, lcd>>
        BY <2>1, EnvironmentEffect DEF CursorInv
      <3>. QED BY <2>1, <3>1 DEF CursorInv, PressShown, Inside, NeverConfigured, status
    <2>. QED BY <2>1, ControlInside, ServerInside, PanelInside DEF Next, Control
  <1>3. CursorInv => CursorInProgram
    <2>1. ASSUME CursorInv, NEW n \in Node, status(n) = "RUNNING"
          PROVE  cursor[n].now_step < prog[n].step_num
      <3>1. prog[n].step_num # 0 /\ prog[n].step_num \in 0..MaxStep
        BY <2>1, ProgramFields DEF CursorInv, NeverConfigured, TypeOK
      <3>. QED BY <2>1, <3>1 DEF CursorInv, Inside
    <2>. QED BY <2>1 DEF CursorInProgram
  <1>. QED BY <1>1, <1>2, <1>3, PTL DEF Spec
-----------------------------------------------------------------------------
(* CompleteIsMarked speaks of complete nodes.  A node comes to be one only *)
(* in the completion, which brings it to rest before and marks it after;   *)
(* whatever would drive it or mark it otherwise acts on a test made        *)
(* before, when it was not complete: only next_step_handle makes it so,    *)
(* and the thread that runs it cannot be at these points too.              *)
Marked(n) ==
  status(n) = "COMP" =>
    /\ output(n) = "REST" \/ Manually(n)
    /\ \/ ctl.pc \in CompletionStored /\ ctl.at = n
       \/ working_status[n] = "A0"
       \/ working_status[n] = "none" /\ "cfg" \in Commands

CompleteInv ==
  /\ TypeOK /\ PressShown
  /\ \A n \in Node : Marked(n)
  /\ ctl.pc \in {"starting", "driving", "switching", "entering"} =>
       status(ctl.at) # "COMP"
  /\ ctl.pc \in Completion => output(ctl.at) = "REST" \/ Manually(ctl.at)
  /\ srv.cmd \in {"cfg", "fill"} => "cfg" \in Commands

(* A step of the control thread on node n: what remains to be shown.       *)
LEMMA ControlStepMarked ==
  ASSUME CompleteInv, TypeOK', NEW n \in Node, OnlyNode(n), ctl.at = n, Marked(n)',
         ctl'.pc \in {"starting", "driving", "switching", "entering"} =>
           ctl'.at = n /\ status(n)' # "COMP",
         ctl'.pc \in Completion =>
           ctl'.at = n /\ (output(n)' = "REST" \/ Manually(n))
  PROVE  CompleteInv'
  <1>1. UNCHANGED <<prog, srv, lcd>> /\ \A m \in Node : Manually(m) => Manually(m)'
    BY DEF OnlyNode, Manually
  <1>2. ASSUME NEW m \in Node \ {n}
        PROVE  Marked(m)'
    <2>1. /\ status(m)' = status(m) /\ output(m)' = output(m)
          /\ working_status'[m] = working_status[m]
      BY DEF OnlyNode, status, output
    <2>. QED BY <1>1, <2>1 DEF CompleteInv, Marked
  <1>3. (ctl.pc \in {"starting", "driving", "switching", "entering"} =>
           status(ctl.at) # "COMP")'
    BY DEF status
  <1>4. (ctl.pc \in Completion => output(ctl.at) = "REST" \/ Manually(ctl.at))'
    BY <1>1 DEF output, Manually
  <1>. QED BY <1>1, <1>2, <1>3, <1>4 DEF CompleteInv, PressShown

(* What the invariant says of the node scanned.                            *)
LEMMA ScannedMarked ==
  ASSUME CompleteInv, NEW n \in Node, ctl.at = n
  PROVE  /\ ctl.pc \in {"starting", "driving", "switching", "entering"} =>
              status(n) # "COMP"
         /\ ctl.pc \in Completion => output(n) = "REST" \/ Manually(n)
         /\ Marked(n)
  BY DEF CompleteInv

(* A step that leaves status, output and mark of the node.                 *)
LEMMA SeenMarked ==
  ASSUME CompleteInv, TypeOK', NEW n \in Node, OnlyNode(n), ctl.at = n,
         ctl.pc \notin CompletionStored,
         status(n)' = status(n), output(n)' = output(n),
         working_status'[n] = working_status[n],
         ctl'.pc \in {"starting", "driving", "switching", "entering"} =>
           ctl'.at = n /\ status(n) # "COMP",
         ctl'.pc \notin Completion
  PROVE  CompleteInv'
  <1>1. Manually(n) => Manually(n)'
    BY DEF OnlyNode, Manually
  <1>2. Marked(n)'
    BY <1>1, ScannedMarked DEF Marked
  <1>. QED BY <1>2, ControlStepMarked

LEMMA ControlMarked ==
  ASSUME CompleteInv, NEW n \in Node, ControlNode(n)
  PROVE  CompleteInv'
  <1>. USE DEF Completion, CompletionStored
  <1>1. TypeOK /\ (Manually(n)' => Manually(n)) /\ (Manually(n) => Manually(n)')
    <2>1. UNCHANGED lcd
      BY DEF ControlNode, SeeStart, StartNode, RunStep, DriveStep, SeeRunning, Poll,
             SeeStop, StopNode, RestPaused, SeeStepEnd, MoveCursor, EnterStep,
             Complete, LoadStatus, StoreStatus, MarkComplete, ResetEnd
    <2>. QED BY <2>1 DEF CompleteInv, Manually
  <1>2. CASE \/ SeeStart(n) \/ SeeRunning(n) \/ Poll(n) \/ SeeStop(n)
             \/ SeeStepEnd(n) \/ ResetEnd(n)
    <2>1. /\ TypeOK' /\ OnlyNode(n) /\ UNCHANGED <<cursor, working_status>>
          /\ ctl.at = n
          /\ ctl.pc \in {"start", "poll", "polling", "halt", "next", "resetting"}
          /\ \/ ctl'.pc \in {"poll", "polling", "halt", "stopping", "pausing",
                             "start", "next"}
             \/ /\ ctl'.at = n /\ ctl'.pc \in {"starting", "switching"}
                /\ status(n) \in {"START", "RUNNING"}
      BY <1>1, <1>2, SeeStartEffect, SeeRunningEffect, PollEffect, SeeStopEffect,
         SeeStepEndEffect, ResetEndEffect DEF At
    <2>. QED BY <2>1, SeenMarked DEF status, output
  <1>3. CASE StartNode(n)
    <2>1. /\ TypeOK' /\ OnlyNode(n) /\ At("starting", n)
          /\ ctl'.pc \in {"running", "poll"}
          /\ status(n)' \in {"IDLE", "PAUSE", status(n)}
      BY <1>1, <1>3, StartNodeEffect DEF status
    <2>2. status(n)' # "COMP"
      BY <2>1, ScannedMarked DEF At
    <2>. QED BY <2>1, <2>2, ControlStepMarked DEF At, Marked
  <1>4. CASE RunStep(n)
    <2>1. /\ TypeOK' /\ OnlyNode(n) /\ At("running", n) /\ At("driving", n)'
          /\ status(n)' = "RUNNING"
      BY <1>1, <1>4, RunStepEffect DEF status
    <2>. QED BY <2>1, ControlStepMarked DEF At, Marked
  <1>5. CASE DriveStep(n)
    <2>1. /\ TypeOK' /\ OnlyNode(n) /\ At("driving", n) /\ At("poll", n)'
          /\ status(n)' = status(n)
      BY <1>1, <1>5, DriveStepEffect DEF status
    <2>. QED BY <2>1, ScannedMarked, ControlStepMarked DEF At, Marked
  <1>6. CASE StopNode(n)
    <2>1. /\ TypeOK' /\ OnlyNode(n) /\ At("stopping", n) /\ At("pausing", n)'
          /\ status(n)' = "IDLE"
      BY <1>1, <1>6, StopNodeEffect DEF status
    <2>. QED BY <2>1, ControlStepMarked DEF At, Marked
  <1>7. CASE RestPaused(n)
    <2>1. /\ TypeOK' /\ OnlyNode(n) /\ At("pausing", n) /\ ctl'.pc \in {"start", "next"}
          /\ \/ status(n)' = "PAUSE"
             \/ UNCHANGED <<cursor, working_status>>
      BY <1>1, <1>7, RestPausedEffect DEF status
    <2>2. CASE status(n)' = "PAUSE"
      BY <2>1, <2>2, ControlStepMarked DEF At, Marked
    <2>3. CASE UNCHANGED <<cursor, working_status>>
      BY <2>1, <2>3, SeenMarked DEF At, status, output
    <2>. QED BY <2>1, <2>2, <2>3
  <1>8. CASE MoveCursor(n)
    <2>1. /\ TypeOK' /\ OnlyNode(n) /\ At("switching", n) /\ At("entering", n)'
          /\ status(n)' = status(n)
      BY <1>1, <1>8, MoveCursorEffect DEF status
    <2>. QED BY <2>1, ScannedMarked, ControlStepMarked DEF At, Marked
  <1>9. CASE EnterStep(n)
    <2>1. /\ TypeOK' /\ OnlyNode(n) /\ At("entering", n) /\ ctl'.at = n
          /\ status(n)' = status(n)
          /\ \/ ctl'.pc = "completing" /\ output(n)' = "REST"
             \/ ctl'.pc = "resetting"
      BY <1>1, <1>9, EnterStepEffect DEF status, output
    <2>. QED BY <2>1, ScannedMarked, ControlStepMarked DEF At, Marked
  <1>10. CASE Complete(n) \/ LoadStatus(n) \/ StoreStatus(n)
    <2>1. /\ TypeOK' /\ OnlyNode(n) /\ ctl.at = n /\ ctl'.at = n
          /\ ctl.pc \in Completion /\ ctl'.pc \in CompletionStored
          /\ output(n)' = output(n)
      BY <1>1, <1>10, CompleteEffect, LoadStatusEffect, StoreStatusEffect
      DEF At, output
    <2>2. Marked(n)'
      BY <1>1, <2>1, ScannedMarked DEF Marked
    <2>. QED BY <2>1, <2>2, ScannedMarked, ControlStepMarked
  <1>11. CASE MarkComplete(n)
    <2>1. /\ TypeOK' /\ OnlyNode(n) /\ At("marking", n) /\ At("resetting", n)'
          /\ output(n)' = output(n) /\ working_status'[n] = "A0"
      BY <1>1, <1>11, MarkCompleteEffect DEF output
    <2>2. Marked(n)'
      BY <1>1, <2>1, ScannedMarked DEF Marked, At
    <2>. QED BY <2>1, <2>2, ControlStepMarked DEF At
  <1>. QED BY <1>2, <1>3, <1>4, <1>5, <1>6, <1>7, <1>8, <1>9, <1>10, <1>11
           DEF ControlNode
-----------------------------------------------------------------------------
(* A step of another thread: no status becomes complete, an output that    *)
(* changes is the operator's or goes off, and only a new program changes   *)
(* a mark.                                                                 *)
LEMMA OthersMarked ==
  ASSUME CompleteInv, TypeOK', PressShown', UNCHANGED ctl,
         srv'.cmd \in {"cfg", "fill"} => "cfg" \in Commands,
         \A m \in Node :
           /\ \/ output(m)' = output(m) /\ (Manually(m) => Manually(m)')
              \/ output(m)' = "REST"
              \/ Manually(m)'
           /\ status(m)' = "COMP" =>
                /\ status(m) = "COMP"
                /\ \/ working_status'[m] = working_status[m]
                   \/ working_status'[m] = "none" /\ "cfg" \in Commands
  PROVE  CompleteInv'
  <1>1. PICK m \in Node : m = ctl.at /\ m = ctl'.at
    BY DEF CompleteInv, TypeOK, ControlState
  <1>2. \A k \in Node : Marked(k)'
    BY DEF CompleteInv, Marked
  <1>3. /\ ctl'.pc \in {"starting", "driving", "switching", "entering"} =>
             status(m)' # "COMP"
        /\ ctl'.pc \in Completion => output(m)' = "REST" \/ Manually(m)'
    BY <1>1 DEF CompleteInv
  <1>4. /\ (ctl.pc \in {"starting", "driving", "switching", "entering"} =>
              status(ctl.at) # "COMP")'
        /\ (ctl.pc \in Completion => output(ctl.at) = "REST" \/ Manually(ctl.at))'
    BY <1>1, <1>3 DEF status, output, Manually
  <1>. QED BY <1>2, <1>4 DEF CompleteInv

LEMMA ServerMarked ==
  ASSUME CompleteInv, Server
  PROVE  CompleteInv'
  <1>1. TypeOK /\ PressShown
    BY DEF CompleteInv
  <1>2. ASSUME NEW cmd \in Commands, NEW n \in Node, Accept(cmd, n)
        PROVE  CompleteInv'
    <2>1. /\ TypeOK' /\ UNCHANGED <<cursor, working_status, ctl, lcd>>
          /\ srv'.cmd = cmd /\ cmd # "fill"
      BY <1>1, <1>2, AcceptEffect DEF AllCommands
    <2>. QED BY <1>1, <2>1, OthersMarked DEF PressShown, Manually, status, output
  <1>3. ASSUME NEW n \in Node, ChangeStatus(n)
        PROVE  CompleteInv'
    <2>1. /\ TypeOK' /\ UNCHANGED <<working_status, ctl, lcd>>
          /\ srv'.cmd = "none" /\ srv.cmd \in SetsStatus
          /\ \A m \in Node \ {n} : cursor'[m] = cursor[m]
          /\ cursor'[n].work_type = cursor[n].work_type
          /\ cursor'[n].run_status = StatusOf(srv.cmd)
      BY <1>1, <1>3, ChangeStatusEffect
    <2>2. StatusOf(srv.cmd) # "COMP"
      BY <2>1 DEF SetsStatus, StatusOf
    <2>3. \A m \in Node : output(m)' = output(m) /\ (status(m)' = "COMP" => status(m) = "COMP")
      BY <2>1, <2>2 DEF output, status
    <2>. QED BY <1>1, <2>1, <2>3, OthersMarked DEF PressShown, Manually
  <1>4. ASSUME NEW n \in Node, ClearProgram(n)
        PROVE  CompleteInv'
    <2>1. /\ TypeOK' /\ UNCHANGED <<ctl, lcd>> /\ srv.cmd = "cfg"
          /\ cursor'[n].run_status = "IDLE"
          /\ \A m \in Node \ {n} : /\ cursor'[m] = cursor[m]
                                   /\ working_status'[m] = working_status[m]
      BY <1>1, <1>4, ClearProgramEffect
    <2>2. \A m \in Node : output(m)' = output(m)
      <3>1. cursor'[n].work_type = cursor[n].work_type
        BY <1>4 DEF ClearProgram, Rewound, CompleteInv, TypeOK
      <3>. QED BY <2>1, <3>1 DEF output
    <2>. QED BY <1>1, <2>1, <2>2, OthersMarked DEF CompleteInv, PressShown, Manually, status
  <1>5. ASSUME NEW n \in Node, FillProgram(n) \/ SetGlobal(n)
        PROVE  CompleteInv'
    <2>1. /\ TypeOK' /\ UNCHANGED <<cursor, ctl, lcd>> /\ srv'.cmd = "none"
          /\ \A m \in Node : \/ working_status'[m] = working_status[m]
                             \/ srv.cmd = "fill" /\ working_status'[m] = "none"
      BY <1>1, <1>5, FillProgramEffect
    <2>. QED BY <1>1, <2>1, OthersMarked
             DEF CompleteInv, PressShown, Manually, status, output
  <1>. QED BY <1>2, <1>3, <1>4, <1>5 DEF Server, CarryOut

LEMMA PanelMarked ==
  ASSUME CompleteInv, LcdPanel
  PROVE  CompleteInv'
  <1>1. /\ TypeOK' /\ PressShown' /\ UNCHANGED <<working_status, ctl, srv>>
        /\ \A m \in Node :
             /\ status(m)' = status(m)
             /\ \/ output(m)' = output(m) /\ (Manually(m) => Manually(m)')
                \/ output(m)' = "REST"
                \/ Manually(m)'
    BY PanelEffect DEF CompleteInv, status
  <1>2. srv'.cmd \in {"cfg", "fill"} => "cfg" \in Commands
    BY <1>1 DEF CompleteInv
  <1>. QED BY <1>1, <1>2, OthersMarked

(* Whatever command races with its last step, a complete node rests unless *)
(* it is driven by hand, and once its completion is through it is marked   *)
(* complete or, by a new program, not at all: never unfinished, never      *)
(* stopped, and without new programs never anything but complete.          *)
THEOREM CompleteRestsMarked == Spec => []CompleteIsMarked
  <1>1. Init => CompleteInv
    <2>1. Init => /\ srv.cmd = "none" /\ ctl.pc = "start" /\ lcd.press = "none"
                  /\ \A n \in Node : cursor[n] = AtRest
      BY DEF Init, Scan
    <2>. QED BY <2>1, InitType DEF CompleteInv, PressShown, Marked, AtRest, status,
                                   Completion, CompletionStored
  <1>2. CompleteInv /\ [Next]_vars => CompleteInv'
    <2>1. ASSUME CompleteInv, ReadModuleStatus \/ LinkChanges \/ Tick \/ UNCHANGED vars
          PROVE  CompleteInv'
      <3>1. TypeOK' /\ UNCHANGED <<cursor, working_status, ctl, srv, lcd>>
        BY <2>1, EnvironmentEffect DEF CompleteInv
      <3>. QED BY <2>1, <3>1 DEF CompleteInv, PressShown, Marked, status, output, Manually
    <2>. QED BY <2>1, ControlMarked, ServerMarked, PanelMarked DEF Next, Control
  <1>3. CompleteInv => CompleteIsMarked
    BY DEF CompleteInv, Marked, CompleteIsMarked
  <1>. QED BY <1>1, <1>2, <1>3, PTL DEF Spec
-----------------------------------------------------------------------------
(***************************************************************************)
(* What NodeHistory says of the step switch, for every number of nodes and *)
(* every set of programs, with or without an operator at the panel, when   *)
(* the host only starts and stops: with pauses neither property holds.     *)
(*                                                                         *)
(* Both rest on what step_end stands for.  In a running node it is the end *)
(* of the step under the cursor, although next_step_handle leaves it set   *)
(* if a stop came in between: such a node is idle, paused or complete      *)
(* before it is started again, and then no longer marked unfinished, so    *)
(* that the start resets it.                                               *)
(***************************************************************************)
EndedHere(n) == ended[n].step = cursor[n].now_step

(* A node marked unfinished runs, is being stopped or completed, or rests  *)
(* on a step that cannot run.                                              *)
Unfinished(n) ==
  working_status[n] = "AA" /\ prog[n].step_num # 0 =>
    \/ status(n) \in {"RUNNING", "STOP"}
    \/ status(n) \in {"START", "PAUSE"} /\ typeOf(n) \notin Runnable
    \/ ctl.at = n /\ ctl.pc \in CompletionStored \cup {"running"}

EndKnown(n) ==
  status(n) = "RUNNING" /\ step_end[n] =>
    \/ EndedHere(n)
    \/ ctl.at = n /\ ctl.pc \in {"entering", "completing", "resetting"}

(* What is left of the test of a command until it is carried out.          *)
Pending(n) ==
  srv.node = n =>
    /\ srv.cmd = "start" => status(n) \in {"IDLE", "COMP", "DIVCAP", "PAUSE"}
    /\ srv.cmd = "stop"  => status(n) \in {"RUNNING", "COMP", "PAUSE"}

(* What is left of the tests of the control thread, and of the status it   *)
(* has loaded, until it acts on them.                                      *)
Scanned(n) ==
  ctl.at = n =>
    /\ ctl.pc = "starting" => status(n) = "START"
    /\ ctl.pc = "running"  => status(n) = "START" /\ ~step_end[n]
    /\ ctl.pc = "stopping" => status(n) = "STOP"
    /\ ctl.pc = "switching" => step_end[n] /\ EndedHere(n)
    /\ ctl.pc \in {"switching", "entering", "completing"} =>
         status(n) \in {"RUNNING", "STOP"}
    /\ ctl.pc = "clear"    => status(n) \in {"COMP", "START", "STOP"}
    /\ ctl.pc = "clearing" => ctl.status \in {"COMP", "START", "STOP"}
    /\ ctl.pc = "set"      => status(n) \in {"COMP", "IDLE", "START", "STOP"}
    /\ ctl.pc = "setting"  => ctl.status \in {"COMP", "IDLE", "START", "STOP"}
    /\ ctl.pc \in {"clearing", "setting"} =>
         /\ status(n) \in {ctl.status, "START", "STOP"}
         /\ ctl.status \in {"START", "STOP"} => status(n) = ctl.status
    /\ ctl.pc = "marking"  => status(n) # "RUNNING"

NodeEnd(n) == Unfinished(n) /\ EndKnown(n) /\ Pending(n) /\ Scanned(n)

EndInv ==
  /\ SupervisionInv
  /\ ended \in [Node -> [step: 0..MaxStep, age: 0..Hold+1]]
  /\ srv.cmd \in {"none", "start", "stop"}
  /\ \A n \in Node : NodeEnd(n)

(* What a step of the system adds to the history.                          *)
LEMMA EndedNow ==
  ASSUME HistoryNext, NEW n \in Node, step_end'[n], ~step_end[n]
  PROVE  ended'[n] = [step |-> cursor[n].now_step, age |-> 0]
  BY DEF HistoryNext

LEMMA EndedBefore ==
  ASSUME EndInv, HistoryNext, NEW n \in Node, step_end'[n] => step_end[n]
  PROVE  /\ ended'[n].step = ended[n].step
         /\ ended'[n].age = IF Tick /\ ended[n].age <= Hold THEN ended[n].age + 1
                            ELSE ended[n].age
  <1>1. ended'[n] = IF Tick /\ ended[n].age <= Hold
                    THEN [ended[n] EXCEPT !.age = @ + 1] ELSE ended[n]
    BY DEF HistoryNext
  <1>. QED BY <1>1 DEF EndInv

LEMMA EndedType ==
  ASSUME EndInv, HistoryNext
  PROVE  ended' \in [Node -> [step: 0..MaxStep, age: 0..Hold+1]]
  <1>1. ASSUME NEW n \in Node
        PROVE  ended'[n] \in [step: 0..MaxStep, age: 0..Hold+1]
    <2>1. cursor[n].now_step \in 0..MaxStep
      BY CursorFields, MaxStepAssumption DEF EndInv, SupervisionInv, TypeOK
    <2>2. ended[n] \in [step: 0..MaxStep, age: 0..Hold+1]
      BY DEF EndInv
    <2>3. \/ ended'[n] = [step |-> cursor[n].now_step, age |-> 0]
          \/ ended[n].age <= Hold /\ ended'[n] = [ended[n] EXCEPT !.age = @ + 1]
          \/ ended'[n] = ended[n]
      BY DEF HistoryNext
    <2>. QED BY <2>1, <2>2, <2>3, NodeControlAssumption
  <1>2. ended' = [n \in Node |-> ended'[n]]
    BY DEF HistoryNext
  <1>. QED BY <1>1, <1>2

(* A node that a step leaves where it is.                                  *)
Elsewhere(n) == ctl.at # n /\ (ctl'.at = n => ctl'.pc \in {"start", "next"})

LEMMA EndKept ==
  ASSUME EndInv, HistoryNext, NEW n \in Node, UNCHANGED prog,
         cursor'[n].now_step = cursor[n].now_step,
         cursor'[n].run_status = cursor[n].run_status,
         working_status'[n] = working_status[n], step_end'[n] = step_end[n],
         UNCHANGED ctl \/ Elsewhere(n)
  PROVE  Unfinished(n)' /\ EndKnown(n)' /\ Scanned(n)'
  <1>1. ended'[n].step = ended[n].step
    BY EndedBefore
  <1>2. /\ EndedHere(n)' = EndedHere(n)
        /\ status(n)' = status(n) /\ typeOf(n)' = typeOf(n)
    BY <1>1 DEF EndedHere, status, typeOf
  <1>3. Unfinished(n) /\ EndKnown(n) /\ Scanned(n)
    BY DEF EndInv, NodeEnd
  <1>4. Unfinished(n)'
    BY <1>2, <1>3 DEF Unfinished, Elsewhere
  <1>5. EndKnown(n)'
    BY <1>2, <1>3 DEF EndKnown, Elsewhere
  <1>6. Scanned(n)'
    <2>1. CASE UNCHANGED ctl
      BY <2>1, <1>2, <1>3 DEF Scanned
    <2>2. CASE Elsewhere(n)
      BY <2>2 DEF Scanned, Elsewhere
    <2>. QED BY <2>1, <2>2
  <1>. QED BY <1>4, <1>5, <1>6

(* A step of the control thread on node n.                                 *)
LEMMA ControlStepEnd ==
  ASSUME EndInv, HistoryNext, SupervisionInv', NEW n \in Node, OnlyNode(n),
         ctl.at = n, ctl'.at = n \/ ctl'.pc \in {"start", "next"}, NodeEnd(n)'
  PROVE  EndInv'
  <1>1. ASSUME NEW m \in Node \ {n}
        PROVE  NodeEnd(m)'
    <2>1. Unfinished(m)' /\ EndKnown(m)' /\ Scanned(m)'
      BY EndKept DEF OnlyNode, Elsewhere
    <2>2. Pending(m)'
      BY DEF OnlyNode, Pending, status, EndInv, NodeEnd
    <2>. QED BY <2>1, <2>2 DEF NodeEnd
  <1>. QED BY <1>1, EndedType DEF EndInv, OnlyNode

(* A step of the control thread that leaves its node where it is.          *)
LEMMA SeenEnd ==
  ASSUME EndInv, HistoryNext, SupervisionInv', NEW n \in Node, OnlyNode(n),
         ctl.at = n, ctl'.at = n \/ ctl'.pc \in {"start", "next"},
         ctl.pc \notin CompletionStored \cup {"running", "entering", "completing", "resetting"},
         cursor'[n].now_step = cursor[n].now_step,
         cursor'[n].run_status = cursor[n].run_status,
         working_status'[n] = working_status[n], step_end'[n] = step_end[n],
         ctl'.at = n => ctl'.pc \in {"starting", "stopping", "poll", "polling",
                                    "halt", "pausing", "start", "next"},
         ctl'.pc = "starting" => status(n) = "START",
         ctl'.pc = "stopping" => status(n) = "STOP"
  PROVE  EndInv'
  <1>1. ended'[n].step = ended[n].step
    BY EndedBefore
  <1>2. /\ EndedHere(n)' = EndedHere(n) /\ UNCHANGED <<prog, srv>>
        /\ status(n)' = status(n) /\ typeOf(n)' = typeOf(n)
    BY <1>1 DEF EndedHere, status, typeOf, OnlyNode
  <1>3. Unfinished(n) /\ EndKnown(n) /\ Pending(n)
    BY DEF EndInv, NodeEnd
  <1>4. Unfinished(n)'
    BY <1>2, <1>3 DEF Unfinished
  <1>5. EndKnown(n)'
    BY <1>2, <1>3 DEF EndKnown
  <1>6. Pending(n)' /\ Scanned(n)'
    BY <1>2, <1>3 DEF Pending, Scanned
  <1>. QED BY <1>4, <1>5, <1>6, ControlStepEnd DEF NodeEnd
-----------------------------------------------------------------------------
(* A start goes on with no end of an earlier step.                         *)
LEMMA StartNodeEnd ==
  ASSUME EndInv, HistoryNext, SupervisionInv', NEW n \in Node, StartNode(n)
  PROVE  EndInv' /\ ~(status(n)' = "RUNNING" /\ step_end'[n])
  <1>1. TypeOK /\ Unfinished(n) /\ Pending(n) /\ Scanned(n)
    BY DEF EndInv, SupervisionInv, NodeEnd
  <1>2. /\ OnlyNode(n) /\ ctl.at = n /\ ctl.pc = "starting" /\ ctl'.at = n
        /\ UNCHANGED <<prog, srv>>
    BY <1>1, StartNodeEffect DEF At, OnlyNode
  <1>3. status(n) = "START"
    BY <1>1, <1>2 DEF Scanned
  <1>4. Pending(n)'
    BY <1>1, <1>2, <1>3 DEF Pending, EndInv
  <1>5. CASE prog[n].step_num = 0
    <2>1. ctl'.pc = "poll" /\ status(n)' = "IDLE"
      BY <1>1, <1>5, StartNodeEffect DEF status
    <2>. QED BY <1>2, <1>4, <1>5, <2>1, ControlStepEnd
             DEF NodeEnd, Unfinished, EndKnown, Scanned
  <1>6. CASE prog[n].step_num # 0 /\ working_status[n] = "AA"
    <2>1. typeOf(n) \notin Runnable
      BY <1>1, <1>2, <1>3, <1>6 DEF Unfinished, CompletionStored
    <2>2. /\ cursor'[n].now_step = cursor[n].now_step /\ status(n)' = "PAUSE"
          /\ ctl'.pc = IF typeOf(n)' \in Runnable THEN "running" ELSE "poll"
      BY <1>1, <1>6, StartNodeEffect DEF status
    <2>3. typeOf(n)' = typeOf(n)
      BY <1>2, <2>2 DEF typeOf
    <2>4. ctl'.pc = "poll" /\ typeOf(n)' \notin Runnable
      BY <2>1, <2>2, <2>3
    <2>. QED BY <1>2, <1>4, <2>2, <2>4, ControlStepEnd
             DEF NodeEnd, Unfinished, EndKnown, Scanned
  <1>7. CASE prog[n].step_num # 0 /\ working_status[n] # "AA"
    <2>1. /\ ~step_end'[n] /\ status(n)' = "START"
          /\ ctl'.pc = IF typeOf(n)' \in Runnable THEN "running" ELSE "poll"
      BY <1>1, <1>3, <1>7, StartNodeEffect DEF status
    <2>. QED BY <1>2, <1>4, <2>1, ControlStepEnd
             DEF NodeEnd, Unfinished, EndKnown, Scanned
  <1>. QED BY <1>5, <1>6, <1>7

LEMMA PollEnd ==
  ASSUME EndInv, HistoryNext, SupervisionInv', NEW n \in Node, Poll(n)
  PROVE  EndInv'
  <1>1. /\ TypeOK /\ Unfinished(n) /\ Pending(n) /\ OnlyNode(n)
        /\ ctl.at = n /\ ctl.pc = "polling" /\ ctl'.at = n /\ ctl'.pc = "halt"
        /\ UNCHANGED <<prog, srv, cursor, working_status>>
    BY PollEffect DEF EndInv, SupervisionInv, NodeEnd, At, OnlyNode
  <1>2. status(n)' = status(n) /\ typeOf(n)' = typeOf(n)
    BY <1>1 DEF status, typeOf
  <1>3. Unfinished(n)' /\ Pending(n)' /\ Scanned(n)'
    BY <1>1, <1>2 DEF Unfinished, Pending, Scanned, CompletionStored
  <1>4. CASE step_end'[n] /\ ~step_end[n]
    <2>1. ended'[n].step = cursor[n].now_step
      <3>1. ended'[n] = [step |-> cursor[n].now_step, age |-> 0]
        BY <1>4, EndedNow
      <3>. QED BY <3>1
    <2>2. EndKnown(n)'
      BY <1>1, <2>1 DEF EndKnown, EndedHere
    <2>. QED BY <1>1, <1>3, <2>2, ControlStepEnd DEF NodeEnd
  <1>5. CASE ~(step_end'[n] /\ ~step_end[n])
    <2>1. ended'[n].step = ended[n].step
      BY <1>5, EndedBefore
    <2>2. EndKnown(n)'
      BY <1>1, <1>2, <1>5, <2>1 DEF EndInv, NodeEnd, EndKnown, EndedHere
    <2>. QED BY <1>1, <1>3, <2>2, ControlStepEnd DEF NodeEnd
  <1>. QED BY <1>4, <1>5

(* Until a switch is through, step_end is the end of the step left.        *)
LEMMA SwitchEnd ==
  ASSUME EndInv, HistoryNext, SupervisionInv', NEW n \in Node,
         SeeStepEnd(n) \/ MoveCursor(n) \/ EnterStep(n) \/ ResetEnd(n)
  PROVE  EndInv'
  <1>1. TypeOK /\ Unfinished(n) /\ EndKnown(n) /\ Pending(n) /\ Scanned(n)
    BY DEF EndInv, SupervisionInv, NodeEnd
  <1>2. CASE SeeStepEnd(n)
    <2>1. /\ OnlyNode(n) /\ ctl.at = n /\ ctl.pc = "next"
          /\ UNCHANGED <<prog, srv, cursor, step_end, working_status>>
          /\ \/ /\ ctl'.pc = "switching" /\ ctl'.at = n /\ step_end[n]
                /\ status(n) = "RUNNING"
             \/ ctl'.pc \in {"start", "next"}
      BY <1>1, <1>2, SeeStepEndEffect DEF At
    <2>2. CASE ctl'.pc \in {"start", "next"}
      BY <2>1, <2>2, SeenEnd DEF CompletionStored
    <2>3. CASE ctl'.pc = "switching"
      <3>1. EndedHere(n) /\ status(n) = "RUNNING"
        BY <1>1, <2>1, <2>3 DEF EndKnown
      <3>2. EndedHere(n)' /\ status(n)' = "RUNNING"
        BY <2>1, <3>1, EndedBefore DEF EndedHere, status
      <3>3. Pending(n)'
        BY <1>1, <2>1 DEF Pending, status
      <3>. QED BY <2>1, <2>3, <3>2, <3>3, ControlStepEnd
               DEF NodeEnd, Unfinished, EndKnown, Scanned
    <2>. QED BY <2>1, <2>2, <2>3
  <1>3. CASE MoveCursor(n)
    <2>1. /\ OnlyNode(n) /\ ctl.at = n /\ ctl.pc = "switching"
          /\ ctl'.at = n /\ ctl'.pc = "entering" /\ status(n)' = status(n)
          /\ UNCHANGED <<prog, srv, step_end, working_status>>
      BY <1>1, <1>3, MoveCursorEffect DEF At, OnlyNode, status
    <2>2. status(n)' \in {"RUNNING", "STOP"}
      BY <1>1, <2>1 DEF Scanned
    <2>3. Pending(n)'
      BY <1>1, <2>1 DEF Pending
    <2>. QED BY <2>1, <2>2, <2>3, ControlStepEnd
             DEF NodeEnd, Unfinished, EndKnown, Scanned
  <1>4. CASE EnterStep(n)
    <2>1. /\ OnlyNode(n) /\ ctl.at = n /\ ctl.pc = "entering"
          /\ ctl'.at = n /\ ctl'.pc \in {"completing", "resetting"}
          /\ status(n)' = status(n)
          /\ UNCHANGED <<prog, srv, step_end, working_status>>
      BY <1>1, <1>4, EnterStepEffect DEF At, OnlyNode, status
    <2>2. status(n)' \in {"RUNNING", "STOP"}
      BY <1>1, <2>1 DEF Scanned
    <2>3. Pending(n)'
      BY <1>1, <2>1 DEF Pending
    <2>. QED BY <2>1, <2>2, <2>3, ControlStepEnd
             DEF NodeEnd, Unfinished, EndKnown, Scanned
  <1>5. CASE ResetEnd(n)
    <2>1. /\ OnlyNode(n) /\ ctl.at = n /\ ctl.pc = "resetting"
          /\ ctl'.pc \in {"start", "next"}
          /\ UNCHANGED <<prog, srv, cursor, working_status>>
          /\ step_end'[n] => status(n) # "RUNNING"
      BY <1>1, <1>5, ResetEndEffect DEF At, OnlyNode
    <2>2. status(n)' = status(n) /\ typeOf(n)' = typeOf(n)
      BY <2>1 DEF status, typeOf
    <2>3. Unfinished(n)'
      BY <1>1, <2>1, <2>2 DEF Unfinished, CompletionStored
    <2>4. EndKnown(n)' /\ Pending(n)' /\ Scanned(n)'
      BY <1>1, <2>1, <2>2 DEF EndKnown, Pending, Scanned
    <2>. QED BY <2>1, <2>3, <2>4, ControlStepEnd DEF NodeEnd
  <1>. QED BY <1>2, <1>3, <1>4, <1>5

(* The completion of a run: a start or a stop that comes meanwhile is      *)
(* either lost or made SYS_DIVCAP or SYS_PAUSE, never a running node.      *)
LEMMA CompletionEnd ==
  ASSUME EndInv, HistoryNext, SupervisionInv', NEW n \in Node,
         Complete(n) \/ LoadStatus(n) \/ StoreStatus(n) \/ MarkComplete(n)
  PROVE  EndInv'
  <1>. USE DEF CompletionStored
  <1>1. TypeOK /\ Pending(n) /\ Scanned(n) /\ srv.cmd \in {"none", "start", "stop"}
    BY DEF EndInv, SupervisionInv, NodeEnd
  <1>2. CASE Complete(n)
    <2>1. /\ OnlyNode(n) /\ ctl.at = n /\ ctl.pc = "completing"
          /\ ctl'.at = n /\ ctl'.pc = "clear" /\ status(n)' = "COMP"
          /\ UNCHANGED srv
      BY <1>1, <1>2, CompleteEffect DEF At, OnlyNode, status
    <2>2. Pending(n)'
      BY <1>1, <2>1 DEF Pending
    <2>. QED BY <2>1, <2>2, ControlStepEnd
             DEF NodeEnd, Unfinished, EndKnown, Scanned
  <1>3. CASE LoadStatus(n)
    <2>1. /\ OnlyNode(n) /\ ctl.at = n /\ ctl'.at = n
          /\ status(n)' = status(n) /\ ctl'.status = status(n)
          /\ UNCHANGED srv
          /\ \/ ctl.pc = "clear" /\ ctl'.pc = "clearing"
             \/ ctl.pc = "set"   /\ ctl'.pc = "setting"
      BY <1>1, <1>3, LoadStatusEffect DEF status
    <2>2. Pending(n)'
      BY <1>1, <2>1 DEF Pending
    <2>3. status(n) \in {"COMP", "IDLE", "START", "STOP"}
      BY <1>1, <2>1 DEF Scanned
    <2>4. Scanned(n)'
      BY <1>1, <2>1, <2>3 DEF Scanned
    <2>. QED BY <2>1, <2>2, <2>3, <2>4, ControlStepEnd
             DEF NodeEnd, Unfinished, EndKnown
  <1>4. CASE StoreStatus(n)
    <2>1. /\ OnlyNode(n) /\ ctl.at = n /\ ctl'.at = n
          /\ UNCHANGED srv
          /\ \/ /\ ctl.pc = "clearing" /\ ctl'.pc = "set"
                /\ status(n)' = WithoutRunBit(ctl.status)
             \/ /\ ctl.pc = "setting" /\ ctl'.pc = "marking"
                /\ status(n)' = WithCmpBit(ctl.status)
      BY <1>1, <1>4, StoreStatusEffect DEF OnlyNode, status
    <2>2. /\ ctl.status \in {"COMP", "IDLE", "START", "STOP"}
          /\ ctl.pc = "clearing" => ctl.status # "IDLE"
          /\ status(n) \in {ctl.status, "START", "STOP"}
          /\ ctl.status \in {"START", "STOP"} => status(n) = ctl.status
      BY <1>1, <2>1 DEF Scanned
    <2>3. /\ ctl.pc = "clearing" => status(n)' \in {"COMP", "START", "IDLE"}
          /\ ctl.pc = "setting" => status(n)' \in {"COMP", "DIVCAP", "PAUSE"}
          /\ ctl.status \in {"COMP", "IDLE"} => status(n)' \in {"COMP", "IDLE"}
          /\ ctl.status = "COMP" => status(n)' = "COMP"
      BY <2>1, <2>2 DEF WithoutRunBit, WithCmpBit
    <2>4. Pending(n)'
      BY <1>1, <2>1, <2>2, <2>3 DEF Pending
    <2>5. Scanned(n)' /\ EndKnown(n)' /\ Unfinished(n)'
      BY <2>1, <2>3 DEF Scanned, EndKnown, Unfinished
    <2>. QED BY <2>1, <2>4, <2>5, ControlStepEnd DEF NodeEnd
  <1>5. CASE MarkComplete(n)
    <2>1. /\ OnlyNode(n) /\ ctl.at = n /\ ctl.pc = "marking"
          /\ ctl'.at = n /\ ctl'.pc = "resetting" /\ working_status'[n] = "A0"
          /\ status(n)' = status(n) /\ UNCHANGED srv
      BY <1>1, <1>5, MarkCompleteEffect DEF At, OnlyNode, status
    <2>2. Pending(n)'
      BY <1>1, <2>1 DEF Pending
    <2>. QED BY <2>1, <2>2, ControlStepEnd
             DEF NodeEnd, Unfinished, EndKnown, Scanned
  <1>. QED BY <1>2, <1>3, <1>4, <1>5

LEMMA ControlEnd ==
  ASSUME EndInv, HistoryNext, SupervisionInv', NEW n \in Node, ControlNode(n)
  PROVE  EndInv'
  <1>1. TypeOK /\ Pending(n) /\ Scanned(n)
    BY DEF EndInv, SupervisionInv, NodeEnd
  <1>2. CASE SeeStart(n) \/ SeeRunning(n) \/ SeeStop(n)
    <2>1. /\ OnlyNode(n) /\ ctl.at = n /\ ctl'.at = n
          /\ UNCHANGED <<cursor, step_end, working_status>>
          /\ ctl.pc \in {"start", "poll", "halt"}
          /\ ctl'.pc \in {"starting", "stopping", "poll", "polling", "halt", "pausing"}
          /\ ctl'.pc = "starting" => status(n) = "START"
          /\ ctl'.pc = "stopping" => status(n) = "STOP"
      BY <1>1, <1>2, SeeStartEffect, SeeRunningEffect, SeeStopEffect DEF At
    <2>. QED BY <2>1, SeenEnd DEF CompletionStored
  <1>3. CASE RunStep(n)
    <2>1. /\ OnlyNode(n) /\ ctl.at = n /\ ctl.pc = "running"
          /\ ctl'.at = n /\ ctl'.pc = "driving" /\ status(n)' = "RUNNING"
          /\ UNCHANGED <<srv, step_end>>
      BY <1>1, <1>3, RunStepEffect DEF At, OnlyNode, status
    <2>2. status(n) = "START" /\ ~step_end[n]
      BY <1>1, <2>1 DEF Scanned
    <2>3. Pending(n)'
      BY <1>1, <2>1, <2>2 DEF Pending, EndInv
    <2>. QED BY <2>1, <2>2, <2>3, ControlStepEnd
             DEF NodeEnd, Unfinished, EndKnown, Scanned
  <1>4. CASE DriveStep(n)
    <2>1. /\ OnlyNode(n) /\ ctl.at = n /\ ctl.pc = "driving"
          /\ ctl'.at = n /\ ctl'.pc = "poll"
          /\ UNCHANGED <<step_end, working_status>>
          /\ cursor'[n].now_step = cursor[n].now_step
          /\ cursor'[n].run_status = cursor[n].run_status
      BY <1>1, <1>4, DriveStepEffect DEF At
    <2>. QED BY <2>1, SeenEnd DEF CompletionStored
  <1>5. CASE StopNode(n)
    <2>1. /\ OnlyNode(n) /\ ctl.at = n /\ ctl.pc = "stopping"
          /\ ctl'.at = n /\ ctl'.pc = "pausing" /\ status(n)' = "IDLE"
          /\ working_status'[n] = "A1" /\ UNCHANGED srv
      BY <1>1, <1>5, StopNodeEffect DEF At, OnlyNode, status
    <2>2. status(n) = "STOP"
      BY <1>1, <2>1 DEF Scanned
    <2>3. Pending(n)'
      BY <1>1, <2>1, <2>2 DEF Pending, EndInv
    <2>. QED BY <2>1, <2>3, ControlStepEnd
             DEF NodeEnd, Unfinished, EndKnown, Scanned
  <1>6. CASE RestPaused(n)
    <2>1. /\ OnlyNode(n) /\ ctl.at = n /\ ctl.pc = "pausing"
          /\ ctl'.pc \in {"start", "next"} /\ UNCHANGED <<srv, step_end>>
          /\ \/ status(n)' = status(n) /\ status(n) = "PAUSE" /\ working_status'[n] = "A1"
             \/ UNCHANGED <<cursor, working_status>>
      BY <1>1, <1>6, RestPausedEffect DEF At, OnlyNode, status
    <2>2. CASE UNCHANGED <<cursor, working_status>>
      BY <2>1, <2>2, SeenEnd DEF CompletionStored
    <2>3. CASE /\ status(n)' = status(n) /\ status(n) = "PAUSE"
               /\ working_status'[n] = "A1"
      <3>1. Pending(n)'
        BY <1>1, <2>1, <2>3 DEF Pending
      <3>. QED BY <2>1, <2>3, <3>1, ControlStepEnd
               DEF NodeEnd, Unfinished, EndKnown, Scanned
    <2>. QED BY <2>1, <2>2, <2>3
  <1>. QED BY <1>2, <1>3, <1>4, <1>5, <1>6, StartNodeEnd, PollEnd, SwitchEnd,
              CompletionEnd DEF ControlNode
-----------------------------------------------------------------------------
LEMMA ServerEnd ==
  ASSUME EndInv, HistoryNext, SupervisionInv', Commands \subseteq {"start", "stop"},
         Server
  PROVE  /\ EndInv'
         /\ UNCHANGED <<prog, step_end, end_age, ctl>>
         /\ \A m \in Node :
              /\ cursor'[m].now_step = cursor[m].now_step
              /\ cursor'[m].run_status \in {cursor[m].run_status, "START", "STOP"}
  <1>1. TypeOK /\ srv.cmd \in {"none", "start", "stop"}
    BY DEF EndInv, SupervisionInv
  <1>2. ASSUME NEW cmd \in Commands, NEW n \in Node, Accept(cmd, n)
        PROVE  EndInv' /\ UNCHANGED <<prog, cursor, step_end, end_age, ctl>>
    <2>1. /\ UNCHANGED <<prog, cursor, step_end, working_status, end_age, ctl>>
          /\ srv'.cmd = cmd /\ srv'.node = n /\ Accepted(cmd, n)
          /\ cmd \in {"start", "stop"}
      BY <1>1, <1>2, AcceptEffect
    <2>2. ASSUME NEW m \in Node
          PROVE  NodeEnd(m)'
      <3>1. Unfinished(m)' /\ EndKnown(m)' /\ Scanned(m)'
        BY <2>1, EndKept
      <3>2. Pending(m)'
        BY <2>1 DEF Accepted, Pending, status
      <3>. QED BY <3>1, <3>2 DEF NodeEnd
    <2>. QED BY <2>1, <2>2, EndedType DEF EndInv
  <1>3. ASSUME NEW n \in Node, ChangeStatus(n)
        PROVE  /\ EndInv'
               /\ UNCHANGED <<prog, step_end, end_age, ctl>>
               /\ \A m \in Node :
                    /\ cursor'[m].now_step = cursor[m].now_step
                    /\ cursor'[m].run_status
                         \in {cursor[m].run_status, "START", "STOP"}
    <2>1. /\ UNCHANGED <<prog, step_end, working_status, end_age, ctl>>
          /\ srv'.cmd = "none" /\ srv.node = n /\ srv.cmd \in SetsStatus
          /\ \A m \in Node \ {n} : cursor'[m] = cursor[m]
          /\ cursor'[n].now_step = cursor[n].now_step
          /\ cursor'[n].run_status = StatusOf(srv.cmd)
      BY <1>1, <1>3, ChangeStatusEffect
    <2>2. /\ srv.cmd \in {"start", "stop"}
          /\ StatusOf(srv.cmd) = IF srv.cmd = "start" THEN "START" ELSE "STOP"
      BY <1>1, <2>1 DEF SetsStatus, StatusOf
    <2>3. \A m \in Node : Pending(m)'
      BY <2>1 DEF Pending
    <2>4. \A m \in Node \ {n} : Unfinished(m)' /\ EndKnown(m)' /\ Scanned(m)'
      BY <2>1, EndKept
    <2>5. Unfinished(n) /\ Scanned(n) /\ Pending(n)
      BY DEF EndInv, NodeEnd
    <2>6. /\ srv.cmd = "start" => status(n) \in {"IDLE", "COMP", "DIVCAP", "PAUSE"}
          /\ srv.cmd = "stop"  => status(n) \in {"RUNNING", "COMP", "PAUSE"}
      BY <2>1, <2>5 DEF Pending
    <2>7. /\ status(n)' = IF srv.cmd = "start" THEN "START" ELSE "STOP"
          /\ typeOf(n)' = typeOf(n)
      BY <2>1, <2>2 DEF status, typeOf
    <2>8. Unfinished(n)' /\ EndKnown(n)'
      BY <2>1, <2>2, <2>5, <2>6, <2>7 DEF Unfinished, EndKnown
    <2>9. Scanned(n)'
      <3>1. CASE ctl.at = n
        <4>1. EndedHere(n)' = EndedHere(n) /\ step_end'[n] = step_end[n]
          BY <2>1, EndedBefore DEF EndedHere
        <4>. QED BY <2>1, <2>2, <2>5, <2>6, <2>7, <3>1, <4>1 DEF Scanned
      <3>2. CASE ctl.at # n
        BY <2>1, <3>2 DEF Scanned
      <3>. QED BY <3>1, <3>2
    <2>10. \A m \in Node : NodeEnd(m)'
      BY <2>3, <2>4, <2>8, <2>9 DEF NodeEnd
    <2>11. \A m \in Node : /\ cursor'[m].now_step = cursor[m].now_step
                           /\ cursor'[m].run_status
                                \in {cursor[m].run_status, "START", "STOP"}
      BY <2>1, <2>2
    <2>. QED BY <2>1, <2>10, <2>11, EndedType DEF EndInv
  <1>4. \A n \in Node : ~(ClearProgram(n) \/ FillProgram(n) \/ SetGlobal(n))
    BY <1>1 DEF ClearProgram, FillProgram, SetGlobal
  <1>. QED BY <1>2, <1>3, <1>4 DEF Server, CarryOut

(* Steps of the other threads: they move no cursor and end no step.        *)
LEMMA OthersEnd ==
  ASSUME EndInv, HistoryNext, SupervisionInv',
         LcdPanel \/ ReadModuleStatus \/ LinkChanges \/ Tick
  PROVE  /\ EndInv'
         /\ UNCHANGED <<prog, step_end, ctl>> /\ (Tick \/ UNCHANGED end_age)
         /\ \A m \in Node : /\ cursor'[m].now_step = cursor[m].now_step
                            /\ cursor'[m].run_status = cursor[m].run_status
  <1>1. TypeOK /\ PressShown
    BY DEF EndInv, SupervisionInv, Held, PressShown
  <1>2. /\ UNCHANGED <<prog, step_end, working_status, ctl, srv>>
        /\ Tick \/ UNCHANGED end_age
        /\ \A m \in Node : /\ cursor'[m].now_step = cursor[m].now_step
                           /\ cursor'[m].run_status = cursor[m].run_status
    <2>1. CASE LcdPanel
      BY <1>1, <2>1, PanelEffect
    <2>2. CASE ReadModuleStatus \/ LinkChanges \/ Tick
      BY <1>1, <2>2, EnvironmentEffect
    <2>. QED BY <2>1, <2>2
  <1>3. ASSUME NEW m \in Node
        PROVE  NodeEnd(m)'
    <2>1. Unfinished(m)' /\ EndKnown(m)' /\ Scanned(m)'
      BY <1>2, EndKept
    <2>2. Pending(m)'
      BY <1>2 DEF EndInv, NodeEnd, Pending, status
    <2>. QED BY <2>1, <2>2 DEF NodeEnd
  <1>. QED BY <1>2, <1>3, EndedType DEF EndInv

LEMMA EndInvariant ==
  ASSUME Commands \subseteq {"start", "stop"}
  PROVE  HistorySpec => []EndInv
  <1>1. HistoryInit => EndInv
    <2>1. HistoryInit => /\ Init /\ srv.cmd = "none" /\ ctl.pc = "start"
                         /\ \A n \in Node : /\ cursor[n] = AtRest
                                            /\ working_status[n] = "none"
      BY DEF HistoryInit, Init, Scan
    <2>2. HistoryInit => ended \in [Node -> [step: 0..MaxStep, age: 0..Hold+1]]
      BY MaxStepAssumption, NodeControlAssumption DEF HistoryInit, NoStep
    <2>3. HistoryInit => \A n \in Node : NodeEnd(n)
      BY <2>1 DEF NodeEnd, Unfinished, EndKnown, Pending, Scanned, AtRest, status
    <2>. QED BY <2>1, <2>2, <2>3, InitSafe DEF EndInv
  <1>2. EndInv /\ [HistoryNext]_historyVars => EndInv'
    <2>1. EndInv /\ [HistoryNext]_historyVars => SupervisionInv'
      <3>1. Commands \subseteq SafeCommands
        BY DEF SafeCommands
      <3>. QED BY <3>1, NextSafe DEF EndInv, HistoryNext, historyVars
    <2>2. ASSUME EndInv, HistoryNext
          PROVE  EndInv'
      BY <2>1, <2>2, ControlEnd, ServerEnd, OthersEnd DEF HistoryNext, Next, Control
    <2>3. ASSUME EndInv, UNCHANGED historyVars
          PROVE  EndInv'
      BY <2>1, <2>3 DEF historyVars, vars, nodeVars, EndInv, NodeEnd, Unfinished,
                        EndKnown, Pending, Scanned, EndedHere, status, typeOf
    <2>. QED BY <2>2, <2>3
  <1>. QED BY <1>1, <1>2, PTL DEF HistorySpec

(* The step switch leaves the step that has ended, however start and stop  *)
(* race with it.                                                           *)
THEOREM NoneSkipped ==
  ASSUME Commands \subseteq {"start", "stop"}
  PROVE  HistorySpec => NoStepSkipped
  <1>1. EndInv => (\A n \in Node : MoveCursor(n) => ended[n].step = cursor[n].now_step)
    BY DEF EndInv, NodeEnd, Scanned, EndedHere, MoveCursor, At
  <1>. QED BY <1>1, EndInvariant, PTL DEF NoStepSkipped
-----------------------------------------------------------------------------
(* How long ago the step ended: step_end of a charge or discharge comes    *)
(* with end_time, unless a full HCV step returns early.                    *)
Timed(n) == typeOf(n) \in Charging \cup {"DCV"}

EndTimed(n) ==
  status(n) = "RUNNING" /\ step_end[n] /\ Timed(n) =>
    \/ ended[n].age >= end_age[n]
    \/ ctl.at = n /\ ctl.pc \in {"entering", "completing", "resetting"}

HeldLong(n) == At("switching", n) /\ Timed(n) => ended[n].age > Hold

HoldInv ==
  /\ EndInv
  /\ \A n \in Node, s \in 0..MaxStep-1 : prog[n].step[s].type # "HCV"
  /\ \A n \in Node : EndTimed(n) /\ HeldLong(n)

(* A node at whose step and step_end nothing changes, and which comes to   *)
(* run by this step only if it did before.                                 *)
LEMMA HoldKept ==
  ASSUME HoldInv, HistoryNext, NEW n \in Node, UNCHANGED prog,
         cursor'[n].now_step = cursor[n].now_step, step_end'[n] = step_end[n],
         cursor'[n].run_status \in
           {cursor[n].run_status, "START", "STOP", "IDLE", "PAUSE", "COMP", "DIVCAP"},
         end_age'[n] = end_age[n] \/ Tick
  PROVE  /\ Timed(n)' = Timed(n) /\ ended'[n].age >= ended[n].age
         /\ ended[n].age > Hold => ended'[n].age > Hold
         /\ UNCHANGED ctl => EndTimed(n)' /\ HeldLong(n)'
         /\ ~(ctl.at = n /\ ctl.pc \in {"entering", "completing", "resetting"}) =>
              EndTimed(n)'
  <1>1. ended'[n].age = IF Tick /\ ended[n].age <= Hold THEN ended[n].age + 1
                        ELSE ended[n].age
    BY EndedBefore DEF HoldInv
  <1>2. ended[n].age \in 0..Hold+1 /\ end_age[n] \in 0..Hold+1
    BY DEF HoldInv, EndInv, SupervisionInv, TypeOK
  <1>3. Tick => end_age'[n] = IF end_age[n] < Hold + 1 THEN end_age[n] + 1 ELSE Hold + 1
    BY DEF Tick, Older
  <1>4. /\ ended'[n].age >= ended[n].age
        /\ ended[n].age > Hold => ended'[n].age > Hold
        /\ ended[n].age >= end_age[n] => ended'[n].age >= end_age'[n]
    BY <1>1, <1>2, <1>3, NodeControlAssumption
  <1>5. Timed(n)' = Timed(n)
    BY DEF Timed, typeOf
  <1>6. status(n)' = "RUNNING" => status(n) = "RUNNING"
    BY DEF status
  <1>7. EndTimed(n) /\ HeldLong(n)
    BY DEF HoldInv
  <1>8. UNCHANGED ctl => EndTimed(n)' /\ HeldLong(n)'
    BY <1>4, <1>5, <1>6, <1>7 DEF EndTimed, HeldLong, At
  <1>9. ~(ctl.at = n /\ ctl.pc \in {"entering", "completing", "resetting"}) =>
          EndTimed(n)'
    BY <1>4, <1>5, <1>6, <1>7 DEF EndTimed
  <1>. QED BY <1>4, <1>5, <1>8, <1>9

(* A step of the control thread on node n.                                 *)
LEMMA ControlStepHold ==
  ASSUME HoldInv, HistoryNext, EndInv', NEW n \in Node, OnlyNode(n), ctl.at = n,
         ctl'.at = n \/ ctl'.pc \in {"start", "next"},
         EndTimed(n)', HeldLong(n)'
  PROVE  HoldInv'
  <1>1. ASSUME NEW m \in Node \ {n}
        PROVE  EndTimed(m)' /\ HeldLong(m)'
    <2>1. EndTimed(m)'
      BY HoldKept DEF OnlyNode
    <2>2. HeldLong(m)'
      BY DEF HeldLong, At
    <2>. QED BY <2>1, <2>2
  <1>. QED BY <1>1 DEF HoldInv, OnlyNode

LEMMA PollHold ==
  ASSUME HoldInv, HistoryNext, EndInv', NEW n \in Node, Poll(n)
  PROVE  HoldInv'
  <1>1. TypeOK
    BY DEF HoldInv, EndInv, SupervisionInv
  <1>2. /\ OnlyNode(n) /\ ctl.at = n /\ ctl.pc = "polling" /\ ctl'.at = n
        /\ ctl'.pc = "halt" /\ UNCHANGED <<prog, cursor>>
    BY <1>1, PollEffect DEF At, OnlyNode
  <1>3. HeldLong(n)'
    BY <1>2 DEF HeldLong, At
  <1>4. Timed(n)' = Timed(n) /\ status(n)' = status(n)
    BY <1>2 DEF Timed, typeOf, status
  <1>5. CASE ~step_end[n]
    <2>1. PICK early \in BOOLEAN, timeout \in BOOLEAN, met \in BOOLEAN :
            PollStep(n, early, timeout, met)
      BY <1>5 DEF Poll
    <2>2. typeOf(n) # "HCV"
      <3>1. cursor[n].now_step \in 0..MaxStep-1
        BY <1>1, CursorFields DEF TypeOK
      <3>. QED BY <3>1, MaxStepAssumption DEF HoldInv, typeOf, TypeAt
    <2>3. Timed(n) => end_age'[n] = 0
      BY <1>1, <2>1, <2>2 DEF PollStep, Timed, TypeOK
    <2>4. step_end'[n] => ended'[n].age = 0
      <3>1. step_end'[n] => ended'[n] = [step |-> cursor[n].now_step, age |-> 0]
        BY <1>5, EndedNow
      <3>. QED BY <3>1
    <2>5. EndTimed(n)'
      BY <1>4, <2>3, <2>4 DEF EndTimed
    <2>. QED BY <1>2, <1>3, <2>5, ControlStepHold
  <1>6. CASE step_end[n]
    <2>1. UNCHANGED <<step_end, end_age>>
      BY <1>1, <1>6, PollEffect
    <2>2. EndTimed(n)'
      BY <1>2, <2>1, HoldKept
    <2>. QED BY <1>2, <1>3, <2>2, ControlStepHold
  <1>. QED BY <1>5, <1>6

LEMMA SeeStepEndHold ==
  ASSUME HoldInv, HistoryNext, EndInv', NEW n \in Node, SeeStepEnd(n)
  PROVE  HoldInv'
  <1>1. TypeOK
    BY DEF HoldInv, EndInv, SupervisionInv
  <1>2. /\ OnlyNode(n) /\ ctl.at = n /\ ctl.pc = "next"
        /\ UNCHANGED <<prog, cursor, step_end, end_age>>
        /\ \/ /\ ctl'.pc = "switching" /\ ctl'.at = n /\ step_end[n]
              /\ status(n) = "RUNNING" /\ end_age[n] > Hold
           \/ ctl'.pc \in {"start", "next"}
    BY <1>1, SeeStepEndEffect DEF At
  <1>3. /\ EndTimed(n)' /\ Timed(n)' = Timed(n)
        /\ ended[n].age > Hold => ended'[n].age > Hold
    BY <1>2, HoldKept
  <1>4. HeldLong(n)'
    <2>1. ASSUME ctl'.pc = "switching", Timed(n)
          PROVE  ended'[n].age > Hold
      <3>1. ended[n].age >= end_age[n] /\ end_age[n] > Hold
        BY <1>2, <2>1 DEF HoldInv, EndTimed
      <3>2. ended[n].age \in 0..Hold+1 /\ end_age[n] \in 0..Hold+1
        BY <1>1 DEF HoldInv, EndInv, TypeOK
      <3>. QED BY <1>3, <3>1, <3>2, NodeControlAssumption
    <2>. QED BY <1>3, <2>1 DEF HeldLong, At
  <1>. QED BY <1>2, <1>3, <1>4, ControlStepHold

LEMMA ControlHold ==
  ASSUME HoldInv, HistoryNext, EndInv', NEW n \in Node, ControlNode(n)
  PROVE  HoldInv'
  <1>. USE DEF Completion, CompletionStored
  <1>1. TypeOK /\ SupervisionInv' /\ EndInv /\ Scanned(n)
    BY DEF HoldInv, EndInv, SupervisionInv, NodeEnd
  <1>2. CASE StartNode(n)
    <2>1. /\ OnlyNode(n) /\ ctl.at = n /\ ctl'.at = n /\ ctl'.pc \in {"poll", "running"}
      BY <1>1, <1>2, StartNodeEffect DEF At
    <2>2. ~(status(n)' = "RUNNING" /\ step_end'[n])
      BY <1>1, <1>2, StartNodeEnd
    <2>. QED BY <2>1, <2>2, ControlStepHold DEF EndTimed, HeldLong, At
  <1>3. CASE RunStep(n)
    <2>1. /\ OnlyNode(n) /\ ctl.at = n /\ ctl.pc = "running" /\ ctl'.at = n
          /\ ctl'.pc = "driving" /\ UNCHANGED step_end
      BY <1>1, <1>3, RunStepEffect DEF At
    <2>2. ~step_end'[n]
      BY <1>1, <2>1 DEF Scanned
    <2>. QED BY <2>1, <2>2, ControlStepHold DEF EndTimed, HeldLong, At
  <1>4. CASE \/ SeeStart(n) \/ DriveStep(n) \/ SeeRunning(n) \/ SeeStop(n)
             \/ StopNode(n) \/ RestPaused(n)
    <2>1. /\ OnlyNode(n) /\ ctl.at = n
          /\ ctl'.at = n \/ ctl'.pc \in {"start", "next"}
          /\ ctl.pc \in {"start", "driving", "poll", "halt", "stopping", "pausing"}
          /\ ctl'.pc # "switching" /\ UNCHANGED <<step_end, end_age>>
          /\ cursor'[n].now_step = cursor[n].now_step
          /\ cursor'[n].run_status \in {cursor[n].run_status, "IDLE", "PAUSE"}
      BY <1>1, <1>4, SeeStartEffect, DriveStepEffect, SeeRunningEffect,
         SeeStopEffect, StopNodeEffect, RestPausedEffect DEF At
    <2>2. EndTimed(n)'
      BY <2>1, HoldKept DEF OnlyNode
    <2>. QED BY <2>1, <2>2, ControlStepHold DEF HeldLong, At
  <1>5. CASE MoveCursor(n) \/ EnterStep(n)
    <2>1. /\ OnlyNode(n) /\ ctl.at = n /\ ctl'.at = n
          /\ ctl'.pc \in {"entering", "completing", "resetting"}
      BY <1>1, <1>5, MoveCursorEffect, EnterStepEffect DEF At
    <2>. QED BY <2>1, ControlStepHold DEF EndTimed, HeldLong, At
  <1>6. CASE Complete(n) \/ LoadStatus(n) \/ StoreStatus(n) \/ MarkComplete(n)
    <2>1. /\ OnlyNode(n) /\ ctl.at = n /\ ctl'.at = n
          /\ ctl'.pc \in CompletionStored \cup {"resetting"}
      BY <1>1, <1>6, CompleteEffect, LoadStatusEffect, StoreStatusEffect,
         MarkCompleteEffect DEF At
    <2>2. status(n)' # "RUNNING" \/ ctl'.pc = "resetting"
      <3>1. Scanned(n)'
        BY DEF EndInv, NodeEnd
      <3>. QED BY <2>1, <3>1 DEF Scanned
    <2>. QED BY <2>1, <2>2, ControlStepHold DEF EndTimed, HeldLong, At
  <1>7. CASE ResetEnd(n)
    <2>1. /\ OnlyNode(n) /\ ctl.at = n /\ ctl'.pc \in {"start", "next"}
          /\ UNCHANGED cursor /\ (step_end'[n] => status(n) # "RUNNING")
      BY <1>1, <1>7, ResetEndEffect DEF At
    <2>2. status(n)' = status(n)
      BY <2>1 DEF status
    <2>. QED BY <2>1, <2>2, ControlStepHold DEF EndTimed, HeldLong, At
  <1>. QED BY <1>2, <1>3, <1>4, <1>5, <1>6, <1>7, PollHold, SeeStepEndHold
           DEF ControlNode

(* The other threads.                                                      *)
LEMMA OthersHold ==
  ASSUME HoldInv, HistoryNext, EndInv', Commands \subseteq {"start", "stop"},
         Server \/ LcdPanel \/ ReadModuleStatus \/ LinkChanges \/ Tick
  PROVE  HoldInv'
  <1>1. EndInv /\ SupervisionInv'
    BY DEF HoldInv, EndInv
  <1>2. /\ UNCHANGED <<prog, step_end, ctl>> /\ (Tick \/ UNCHANGED end_age)
        /\ \A m \in Node :
             /\ cursor'[m].now_step = cursor[m].now_step
             /\ cursor'[m].run_status \in {cursor[m].run_status, "START", "STOP"}
    BY <1>1, ServerEnd, OthersEnd
  <1>3. \A m \in Node : EndTimed(m)' /\ HeldLong(m)'
    BY <1>2, HoldKept
  <1>. QED BY <1>2, <1>3 DEF HoldInv

(* The values at the end of a charge or discharge stay readable for Hold   *)
(* seconds, if no program has an HCV step.                                 *)
THEOREM ValuesHeld ==
  ASSUME Commands \subseteq {"start", "stop"},
         \A p \in Programs, s \in 0..MaxStep-1 : p.step[s].type # "HCV"
  PROVE  HistorySpec => EndValuesHeld
  <1>1. HistoryInit /\ EndInv => HoldInv
    <2>1. ASSUME Init
          PROVE  /\ \A n \in Node, s \in 0..MaxStep-1 : prog[n].step[s].type # "HCV"
                 /\ ctl.pc = "start" /\ \A n \in Node : cursor[n] = AtRest
      <3>1. \A s \in 0..MaxStep-1 : NoProgram.step[s].type # "HCV"
        BY DEF NoProgram, Blank
      <3>2. \A n \in Node : prog[n] \in Programs \cup {NoProgram}
        BY <2>1 DEF Init
      <3>. QED BY <2>1, <3>1, <3>2 DEF Init, Scan
    <2>. QED BY <2>1 DEF HistoryInit, HoldInv, EndTimed, HeldLong, At, AtRest, status
  <1>2. HoldInv /\ EndInv' /\ [HistoryNext]_historyVars => HoldInv'
    <2>1. ASSUME HoldInv, EndInv', HistoryNext
          PROVE  HoldInv'
      BY <2>1, ControlHold, OthersHold DEF HistoryNext, Next, Control
    <2>2. ASSUME HoldInv, EndInv', UNCHANGED historyVars
          PROVE  HoldInv'
      BY <2>2 DEF HoldInv, historyVars, vars, nodeVars, EndTimed, HeldLong, At,
                  Timed, typeOf, status
    <2>. QED BY <2>1, <2>2
  <1>3. HoldInv => \A n \in Node :
          MoveCursor(n) /\ typeOf(n) \in Charging \cup {"DCV"} => ended[n].age > Hold
    BY DEF HoldInv, HeldLong, MoveCursor, Timed
  <1>. QED BY <1>1, <1>2, <1>3, EndInvariant, PTL DEF HistorySpec, EndValuesHeld
=============================================================================
