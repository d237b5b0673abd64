-------------------------- MODULE RunRecordsProofs --------------------------
(***************************************************************************)
(* For every scene: the variables keep their types, a stop of all nodes    *)
(* leaves no row behind, the program of a node survives a power failure,   *)
(* and no power failure makes the first run of a node skip a step.         *)
(***************************************************************************)
EXTENDS RunRecords, TLAPS

-----------------------------------------------------------------------------
(* The cursor arithmetic, for every MaxStep and program.                   *)

(* Assigning a natural number to a u8 variable gives a byte, and leaves a  *)
(* number that fits unchanged.                                             *)
LEMMA U8Lemma ==
  ASSUME NEW x \in Nat
  PROVE  U8(x) \in Byte /\ (x <= 255 => U8(x) = x)
  BY DEF U8, Byte

(* The step after s is an earlier step, the next one, or the slot behind   *)
(* the last.                                                               *)
LEMMA StepAfterLemma ==
  ASSUME NEW p \in NodeProgram, NEW s \in 0..MaxStep-1, NEW k \in Byte
  PROVE  StepAfter(p, s, k) \in 0..MaxStep
  <1>1. p.step[s] \in NodeStep
    BY MaxStepAssumption DEF NodeProgram
  <1>2. p.step[s].jump_step \in Byte
    BY <1>1 DEF NodeStep
  <1>3. CASE Repeats(p, s, k)
    <2>. DEFINE j == p.step[s].jump_step
    <2>1. j # 0 /\ j - 1 < s /\ StepAfter(p, s, k) = j - 1
      BY <1>3 DEF StepAfter, Repeats, ClosesLoop, LoopStart
    <2>2. j \in Nat
      BY <1>2 DEF Byte
    <2>. HIDE DEF j
    <2>. QED BY <2>1, <2>2, MaxStepAssumption
  <1>4. CASE ~Repeats(p, s, k)
    BY <1>4, MaxStepAssumption DEF StepAfter
  <1>. QED BY <1>3, <1>4

(* The sub-loop counter stays a byte.                                      *)
LEMMA SubCycAfterLemma ==
  ASSUME NEW p \in NodeProgram, NEW s \in 0..MaxStep-1, NEW k \in Byte
  PROVE  SubCycAfter(p, s, k) \in Byte
  <1>1. U8(k + 1) \in Byte
    BY U8Lemma DEF Byte
  <1>. QED BY <1>1 DEF SubCycAfter, Byte

(* next_step_handle maps a cursor to a cursor: no index it stores leaves   *)
(* step[], whatever the program's jumps and counts.                        *)
LEMMA NextStepLemma ==
  ASSUME NEW p \in NodeProgram, NEW c \in Cursor, NEW blocked \in BOOLEAN
  PROVE  NextStep(p, c, blocked) \in Cursor
  <1>. DEFINE next == StepAfter(p, c.now_step, c.sub_now_cyc)
              over == next >= p.step_num
              last == over /\ LastPass(p, next, c.now_cyc)
              at   == IF last THEN c.now_step ELSE IF over THEN 0 ELSE next
              type == IF last THEN "CEND" ELSE p.step[at].type
  <1>1. /\ c.now_step \in 0..MaxStep-1
        /\ c.sub_now_cyc \in Byte
        /\ c.now_cyc \in Byte
        /\ c.recharge_status \in {0, 1}
        /\ c.work_type \in Outputs
        /\ c.run_status \in RunStatus
    BY DEF Cursor
  <1>2. next \in 0..MaxStep
    BY <1>1, StepAfterLemma
  <1>3. p.step_num \in 0..MaxStep
    BY DEF NodeProgram
  <1>4. at \in 0..MaxStep-1
    <2>. HIDE DEF next
    <2>. QED BY <1>1, <1>2, <1>3, MaxStepAssumption
  <1>5. Enter(type, blocked, c.work_type) \in Outputs
    BY <1>1 DEF Enter, OutputOf, Outputs, Charging
  <1>6. SubCycAfter(p, c.now_step, c.sub_now_cyc) \in Byte
    BY <1>1, SubCycAfterLemma
  <1>7. U8(c.now_cyc + 1) \in Byte
    BY <1>1, U8Lemma DEF Byte
  <1>8. RechargeAt(p, next, c.recharge_status) \in {0, 1}
    BY <1>1 DEF RechargeAt
  <1>9. (IF type = "CEND" THEN "COMP" ELSE c.run_status) \in RunStatus
    BY <1>1 DEF RunStatus
  <1>10. NextType(p, c) = type
    BY DEF NextType
  <1>11. Moved(p, c) =
           [ now_step        |-> at,
             sub_now_cyc     |-> SubCycAfter(p, c.now_step, c.sub_now_cyc),
             now_cyc         |-> IF over /\ ~last THEN U8(c.now_cyc + 1)
                                 ELSE c.now_cyc,
             recharge_status |-> RechargeAt(p, next, c.recharge_status),
             work_type       |-> c.work_type,
             run_status      |-> c.run_status ]
    BY DEF Moved
  <1>12. NextStep(p, c, blocked) =
           [ Moved(p, c) EXCEPT
               !.work_type = Enter(type, blocked, c.work_type),
               !.run_status = IF type = "CEND" THEN "COMP" ELSE c.run_status ]
    BY <1>10, <1>11 DEF NextStep
  <1>. HIDE DEF next, over, last, at, type
  <1>13. Moved(p, c) \in Cursor
    BY <1>1, <1>4, <1>6, <1>7, <1>8, <1>11 DEF Cursor
  <1>. QED BY <1>5, <1>9, <1>12, <1>13 DEF Cursor

(* next_step_handle either leaves run_status alone or completes the node,  *)
(* and then the node rests.                                                *)
LEMMA CompletionLemma ==
  ASSUME NEW p, NEW c, NEW blocked \in BOOLEAN
  PROVE  LET d == NextStep(p, c, blocked)
         IN  \/ d.run_status = c.run_status
             \/ d.run_status = "COMP" /\ d.work_type = "REST"
  BY DEF NextStep, Moved, NextType, Enter, Charging
-----------------------------------------------------------------------------

LEMMA RestTyped ==
  /\ AtRest \in Cursor /\ AtRest.now_step = 0 /\ AtRest.run_status = "IDLE"
  /\ NoCopy \in Position /\ NoCopy.now_step = 0 /\ ~NoCopy.step_end
  /\ NoCopy.run_status = "IDLE"
  /\ NoRow \in [working_status: Marks, copy: Position]
<1>1. 0 \in 0..MaxStep-1 /\ 0 \in Byte
  BY MaxStepAssumption DEF Byte
<1>2. AtRest \in Cursor /\ AtRest.now_step = 0 /\ AtRest.run_status = "IDLE"
  BY <1>1 DEF AtRest, Cursor, Outputs, RunStatus
<1>3. /\ NoCopy \in Position /\ NoCopy.now_step = 0 /\ ~NoCopy.step_end
      /\ NoCopy.run_status = "IDLE"
  BY <1>1 DEF NoCopy, Copied, AtRest, Position, RunStatus
<1>4. NoRow \in [working_status: Marks, copy: Position]
  BY <1>3 DEF NoRow, Marks
<1> QED
  BY <1>2, <1>3, <1>4

LEMMA BegunTyped ==
  ASSUME NEW p, NEW c \in Cursor
  PROVE  Begun(p, c) \in Cursor
<1>1. OutputOf(TypeAt(p, c.now_step)) \in Outputs
  BY DEF OutputOf, Outputs
<1>2. RechargeAt(p, c.now_step, c.recharge_status) \in {0, 1}
  BY DEF RechargeAt, Cursor
<1>3. "RUNNING" \in RunStatus
  BY DEF RunStatus
<1> QED
  BY <1>1, <1>2, <1>3 DEF Begun, Cursor

LEMMA CopiedTyped ==
  ASSUME NEW c \in Cursor, NEW ended \in BOOLEAN
  PROVE  Copied(c, ended) \in Position
BY DEF Copied, Position, Cursor

LEMMA RowsTyped ==
  ASSUME NEW p \in NodeProgram
  PROVE  /\ StepRows(p) \in [step: [0..MaxStep-1 -> NodeStep], step_num: 0..MaxStep]
         /\ CfgRow(p) \in [cyc: Word, divcap_end_step: Byte, recharge_start_step: Byte]
BY DEF StepRows, CfgRow, NodeProgram

LEMMA StoresTyped ==
  ASSUME NEW d \in Tables, prog \in NodeProgram
  PROVE  Deleted(d) \in Tables /\ StepsStored(d) \in Tables /\ CfgStored(d) \in Tables
BY RestTyped, RowsTyped DEF Deleted, StepsStored, CfgStored, Tables

(* What is read at power-up has its type again.                            *)
LEMMA RecoveredTyped ==
  ASSUME NEW d \in Tables, NEW p \in NodeProgram
  PROVE  /\ RecoveredCfg(RecoveredSteps(p, d.steps), d.cfg) \in NodeProgram
         /\ Recovered(d.row).cursor \in Cursor
         /\ Recovered(d.row).step_end \in BOOLEAN
         /\ d.row.working_status \in Marks
<1>1. RecoveredSteps(p, d.steps) \in NodeProgram
  BY DEF Tables, RecoveredSteps, NodeProgram
<1>2. RecoveredCfg(RecoveredSteps(p, d.steps), d.cfg) \in NodeProgram
  BY <1>1 DEF Tables, RecoveredCfg, NodeProgram
<1>3. d.row.copy \in Position /\ d.row.working_status \in Marks
  BY DEF Tables
<1>4. Recovered(d.row).cursor \in Cursor /\ Recovered(d.row).step_end \in BOOLEAN
  BY <1>3 DEF Recovered, Position, Cursor, Outputs, RunStatus
<1> QED
  BY <1>2, <1>3, <1>4

(* A program of the host is one.                                           *)
LEMMA ProgramsTyped ==
  ASSUME NEW s \in Scenes
  PROVE  /\ \A p \in s.programs : p \in NodeProgram
         /\ s.runs \in Nat /\ s.crashes \in Nat
BY RunRecordsAssumption
-----------------------------------------------------------------------------
LEMMA InitTyped == Init => TypeOK
<1> SUFFICES ASSUME Init PROVE TypeOK
  OBVIOUS
<1>1. PICK s \in Scenes :
        /\ prog \in s.programs
        /\ left = [scene |-> s, runs |-> s.runs, crashes |-> s.crashes]
  BY DEF Init
<1>2. prog \in NodeProgram /\ s.runs \in Nat /\ s.crashes \in Nat
  BY <1>1, ProgramsTyped
<1>3. /\ left \in [scene: Scenes, runs: Nat, crashes: Nat]
      /\ left.runs <= scene.runs /\ left.crashes <= scene.crashes
  BY <1>1, <1>2 DEF scene
<1>4. disk \in Tables
  BY <1>2, RowsTyped, RestTyped DEF Init, Tables
<1> QED
  BY <1>2, <1>3, <1>4, RestTyped DEF Init, TypeOK, Marks

LEMMA ServerTyped == TypeOK /\ Server => TypeOK'
<1> SUFFICES ASSUME TypeOK, Server PROVE TypeOK'
  OBVIOUS
<1> USE DEF Command
<1>1. cursor \in Cursor /\ prog \in NodeProgram /\ left.scene \in Scenes
  BY DEF TypeOK
<1>2. CASE Start
  <2>1. Begun(prog, cursor) \in Cursor
    BY <1>1, BegunTyped
  <2>2. [AtRest EXCEPT !.recharge_status = cursor.recharge_status] \in Cursor
    BY <1>1, RestTyped DEF Cursor
  <2>3. Begun(prog, [AtRest EXCEPT !.recharge_status = cursor.recharge_status]) \in Cursor
    BY <2>2, BegunTyped
  <2>4. cursor' \in Cursor
    BY <1>2, <2>1, <2>3 DEF Start
  <2>5. /\ step_end' \in BOOLEAN /\ working_status' \in Marks
        /\ done' \subseteq 0..MaxStep-1
    BY <1>2 DEF Start, TypeOK, Marks
  <2>6. /\ left' \in [scene: Scenes, runs: Nat, crashes: Nat]
        /\ left'.runs <= left'.scene.runs /\ left'.crashes <= left'.scene.crashes
    <3>1. scene.runs \in Nat
      BY <1>1, ProgramsTyped DEF scene
    <3> QED BY <1>2, <3>1 DEF Start, TypeOK, scene
  <2> QED
    BY <1>2, <2>4, <2>5, <2>6 DEF Start, TypeOK, scene
<1>3. CASE Pause
  <2>1. cursor' \in Cursor
    BY <1>1, <1>3 DEF Pause, Cursor, RunStatus
  <2> QED BY <1>3, <2>1 DEF Pause, TypeOK, scene
<1>4. CASE Resume
  <2>1. cursor' \in Cursor
    BY <1>1, <1>4 DEF Resume, Cursor, RunStatus
  <2> QED BY <1>4, <2>1 DEF Resume, TypeOK, scene
<1>5. CASE StopOne
  <2>1. cursor' \in Cursor
    BY <1>1, <1>5 DEF StopOne, Cursor, RunStatus
  <2> QED BY <1>5, <2>1 DEF StopOne, TypeOK, scene
<1>6. CASE StopAll
  <2>1. cursor' \in Cursor
    BY <1>1, <1>6 DEF StopAll, Cursor, RunStatus
  <2> QED BY <1>6, <2>1 DEF StopAll, TypeOK, scene
<1>7. CASE Configure
  <2>1. PICK p \in left.scene.programs :
          prog' = [prog EXCEPT !.step = p.step, !.step_num = p.step_num, !.cyc = 0]
    BY <1>7 DEF Configure, scene
  <2>2. p \in NodeProgram
    BY <1>1, <2>1, ProgramsTyped
  <2>3. 0 \in Word
    BY DEF Word
  <2>4. prog' \in NodeProgram
    BY <1>1, <2>1, <2>2, <2>3 DEF NodeProgram
  <2>5. cursor' \in Cursor
    BY <1>1, <1>7, RestTyped DEF Configure, Cursor
  <2> QED
    BY <1>7, <2>4, <2>5 DEF Configure, TypeOK, scene, Marks
<1>8. CASE SetGlobal
  <2>1. PICK p \in left.scene.programs :
          prog' = [p EXCEPT !.step = prog.step, !.step_num = prog.step_num]
    BY <1>8 DEF SetGlobal, scene
  <2>2. p \in NodeProgram
    BY <1>1, <2>1, ProgramsTyped
  <2>3. prog' \in NodeProgram
    BY <1>1, <2>1, <2>2 DEF NodeProgram
  <2> QED
    BY <1>8, <2>3 DEF SetGlobal, TypeOK, scene
<1> QED
  BY <1>2, <1>3, <1>4, <1>5, <1>6, <1>7, <1>8 DEF Server

LEMMA ControlTyped == TypeOK /\ Control => TypeOK'
<1> SUFFICES ASSUME TypeOK, Control PROVE TypeOK'
  OBVIOUS
<1>1. cursor \in Cursor /\ prog \in NodeProgram
  BY DEF TypeOK
<1>2. CASE EndStep
  <2>1. copy' \in Position
    BY <1>1, <1>2, CopiedTyped DEF EndStep, TypeOK
  <2>2. done' \subseteq 0..MaxStep-1
    BY <1>1, <1>2 DEF EndStep, TypeOK, Cursor
  <2> QED
    BY <1>2, <2>1, <2>2 DEF EndStep, TypeOK, scene
<1>3. CASE SwitchStep
  <2>1. cursor' \in Cursor
    BY <1>1, <1>3, NextStepLemma DEF SwitchStep
  <2>2. step_end' \in BOOLEAN /\ working_status' \in Marks
    BY <1>3 DEF SwitchStep, TypeOK, Marks
  <2>3. disk' \in Tables
    <3>1. [working_status |-> "A0", copy |-> copy] \in
            [working_status: Marks, copy: Position]
      BY DEF TypeOK, Marks
    <3> QED
      BY <1>3, <3>1 DEF SwitchStep, TypeOK, Tables
  <2> QED
    BY <1>3, <2>1, <2>2, <2>3 DEF SwitchStep, TypeOK, scene
<1>4. CASE HaltStop
  <2>1. cursor' \in Cursor
    BY <1>1, <1>4 DEF HaltStop, Cursor, RunStatus, Outputs
  <2> QED
    BY <1>4, <2>1 DEF HaltStop, TypeOK, scene, Marks
<1>5. CASE HaltPause
  <2>1. cursor' \in Cursor
    BY <1>1, <1>5 DEF HaltPause, Cursor, RunStatus, Outputs
  <2> QED
    BY <1>5, <2>1 DEF HaltPause, TypeOK, scene, Marks
<1> QED
  BY <1>2, <1>3, <1>4, <1>5 DEF Control

LEMMA SaveThreadTyped == TypeOK /\ SaveThread => TypeOK'
<1> SUFFICES ASSUME TypeOK, SaveThread PROVE TypeOK'
  OBVIOUS
<1> USE DEF Saver
<1>1. CASE BeginSave
  BY <1>1 DEF BeginSave, TypeOK, node, scene
<1>2. CASE CopyField
  <2>1. copy' \in Position
    BY <1>2, ZenonT(40) DEF CopyField, TypeOK, Position, Cursor, status
  <2>2. saver' \in {"idle", "sub_now_cyc", "now_step", "now_cyc", "store"}
    BY <1>2 DEF CopyField
  <2> QED
    BY <1>2, <2>1, <2>2 DEF CopyField, TypeOK, scene
<1>3. CASE StoreRow
  <2>1. disk' \in Tables
    BY <1>3 DEF StoreRow, TypeOK, Tables
  <2> QED
    BY <1>3, <2>1 DEF StoreRow, TypeOK, node, scene
<1>4. CASE KeepRow
  BY <1>4 DEF KeepRow, TypeOK, node, scene
<1>5. ASSUME NEW task \in {"steps", "delete"}, SaveDue(task) PROVE TypeOK'
  <2>1. disk' \in Tables
    BY <1>5, StoresTyped DEF SaveDue, TypeOK
  <2> QED
    BY <1>5, <2>1 DEF SaveDue, TypeOK, node, scene
<1> QED
  BY <1>1, <1>2, <1>3, <1>4, <1>5 DEF SaveThread

LEMMA NextTyped == TypeOK /\ [Next]_vars => TypeOK'
<1> SUFFICES ASSUME TypeOK, [Next]_vars PROVE TypeOK'
  OBVIOUS
<1>1. CASE ServerWrites
  <2>1. disk' \in Tables
    BY <1>1, StoresTyped DEF ServerWrites, TypeOK
  <2> QED
    BY <1>1, <2>1 DEF ServerWrites, TypeOK, node, scene
<1>2. CASE PowerCycle
  <2>1. /\ prog' \in NodeProgram /\ cursor' \in Cursor /\ step_end' \in BOOLEAN
        /\ working_status' \in Marks
    BY <1>2, RecoveredTyped DEF PowerCycle, TypeOK
  <2>2. /\ left' \in [scene: Scenes, runs: Nat, crashes: Nat]
        /\ left'.runs <= left'.scene.runs /\ left'.crashes <= left'.scene.crashes
    <3>1. scene.crashes \in Nat
      BY ProgramsTyped DEF scene, TypeOK
    <3> QED
      BY <1>2, <3>1 DEF PowerCycle, TypeOK, scene
  <2> QED
    BY <1>2, <2>1, <2>2, RestTyped DEF PowerCycle, TypeOK, scene
<1>3. CASE UNCHANGED vars
  BY <1>3 DEF vars, node, TypeOK, scene
<1> QED
  BY <1>1, <1>2, <1>3, ServerTyped, ControlTyped, SaveThreadTyped DEF Next

(* The save thread, the server thread and the power failures between any   *)
(* two steps of them leave every index and every mark in its range,        *)
(* whatever lies in the database.                                          *)
THEOREM TypeCorrect == Spec => []TypeOK
  BY InitTyped, NextTyped, PTL DEF Spec
-----------------------------------------------------------------------------
(***************************************************************************)
(* What the host has sent is in the database, or some thread still has to  *)
(* write it there.  New steps set the number of passes to 0 in memory      *)
(* only; until the settings are sent again the database has the old one.   *)
(***************************************************************************)
SettingsKept ==
  disk.cfg = [CfgRow(prog) EXCEPT !.cyc = IF prog.cyc = 0 THEN disk.cfg.cyc ELSE @]

SurvivalInv ==
  /\ TypeOK
  /\ srv = "steps" \/ "steps" \in due \/ disk.steps = StepRows(prog)
  /\ srv = "cfg" \/ SettingsKept

(* Steps that do not touch the program, its tables or what is due.         *)
LEMMA SurvivalKept ==
  ASSUME SurvivalInv, TypeOK', prog' = prog, disk'.steps = disk.steps,
         disk'.cfg = disk.cfg, srv' = srv \/ srv \notin {"steps", "cfg"},
         "steps" \in due => "steps" \in due'
  PROVE  SurvivalInv'
BY DEF SurvivalInv, SettingsKept

LEMMA SurvivalStep == SurvivalInv /\ [Next]_vars /\ TypeOK' => SurvivalInv'
<1> SUFFICES ASSUME SurvivalInv, [Next]_vars, TypeOK' PROVE SurvivalInv'
  OBVIOUS
<1>1. disk \in Tables /\ disk' \in Tables /\ prog \in NodeProgram /\ prog' \in NodeProgram
  BY DEF SurvivalInv, TypeOK
<1>2. CASE Start \/ Pause \/ Resume \/ StopOne \/ StopAll
  <2>1. /\ prog' = prog /\ disk' = disk /\ srv = "none"
        /\ "steps" \in due => "steps" \in due'
    BY <1>2 DEF Start, Pause, Resume, StopOne, StopAll, Command
  <2> QED
    BY <2>1, SurvivalKept
<1>3. CASE Configure
  <2>1. PICK p \in scene.programs :
          prog' = [prog EXCEPT !.step = p.step, !.step_num = p.step_num, !.cyc = 0]
    BY <1>3 DEF Configure
  <2>2. /\ prog'.cyc = 0 /\ prog'.divcap_end_step = prog.divcap_end_step
        /\ prog'.recharge_start_step = prog.recharge_start_step
    BY <1>1, <2>1 DEF NodeProgram
  <2>3. /\ disk' = disk /\ srv # "cfg" /\ srv' # "cfg"
        /\ srv' = "steps" \/ "steps" \in due'
    BY <1>3 DEF Configure, Command
  <2>4. SettingsKept
    BY <2>3 DEF SurvivalInv
  <2>5. SettingsKept'
    BY <1>1, <2>2, <2>3, <2>4 DEF SettingsKept, CfgRow, Tables
  <2> QED
    BY <2>3, <2>5 DEF SurvivalInv
<1>4. CASE SetGlobal
  <2>1. PICK p \in scene.programs :
          prog' = [p EXCEPT !.step = prog.step, !.step_num = prog.step_num]
    BY <1>4 DEF SetGlobal
  <2>2. p \in NodeProgram
    BY <2>1, ProgramsTyped DEF SurvivalInv, TypeOK, scene
  <2>3. StepRows(prog') = StepRows(prog)
    BY <1>1, <2>1, <2>2 DEF NodeProgram, StepRows
  <2>4. disk' = disk /\ due' = due /\ srv = "none" /\ srv' = "cfg"
    BY <1>4 DEF SetGlobal, Command
  <2> QED
    BY <2>3, <2>4 DEF SurvivalInv
<1>5. CASE ServerWrites
  <2>1. prog' = prog /\ due' = due /\ srv' = "none"
    BY <1>5 DEF ServerWrites, node
  <2>2. CASE srv = "delete"
    <3>1. disk'.steps = disk.steps /\ disk'.cfg = disk.cfg
      BY <1>1, <1>5, <2>2 DEF ServerWrites, Deleted, Tables
    <3> QED
      BY <2>1, <2>2, <3>1, SurvivalKept
  <2>3. CASE srv = "steps"
    <3>1. disk'.steps = StepRows(prog) /\ disk'.cfg = disk.cfg
      BY <1>1, <1>5, <2>3 DEF ServerWrites, StepsStored, Tables
    <3> QED
      BY <2>1, <2>3, <3>1 DEF SurvivalInv, SettingsKept
  <2>4. CASE srv = "cfg"
    <3>1. disk'.steps = disk.steps /\ disk'.cfg = CfgRow(prog)
      BY <1>1, <1>5, <2>4 DEF ServerWrites, CfgStored, Tables
    <3>2. SettingsKept'
      BY <2>1, <3>1 DEF SettingsKept, CfgRow
    <3> QED
      BY <2>1, <2>4, <3>1, <3>2 DEF SurvivalInv
  <2> QED
    BY <1>5, <2>2, <2>3, <2>4 DEF ServerWrites, SurvivalInv, TypeOK
<1>6. CASE Control
  <2>1. prog' = prog /\ srv' = srv /\ due' = due
    BY <1>6 DEF Control, EndStep, SwitchStep, HaltStop, HaltPause
  <2>2. disk'.steps = disk.steps /\ disk'.cfg = disk.cfg
    BY <1>1, <1>6 DEF Control, EndStep, SwitchStep, HaltStop, HaltPause, Tables
  <2> QED
    BY <2>1, <2>2, SurvivalKept
<1>7. CASE BeginSave \/ CopyField \/ StoreRow \/ KeepRow
  <2>1. prog' = prog /\ srv' = srv /\ due' = due
    BY <1>7 DEF BeginSave, CopyField, StoreRow, KeepRow, node
  <2>2. disk'.steps = disk.steps /\ disk'.cfg = disk.cfg
    BY <1>1, <1>7 DEF BeginSave, CopyField, StoreRow, KeepRow, Tables
  <2> QED
    BY <2>1, <2>2, SurvivalKept
<1>8. ASSUME NEW task \in {"steps", "delete"}, SaveDue(task) PROVE SurvivalInv'
  <2>1. prog' = prog /\ srv' = srv /\ due' = due \ {task}
    BY <1>8 DEF SaveDue, node
  <2>2. CASE task = "delete"
    <3>1. disk'.steps = disk.steps /\ disk'.cfg = disk.cfg
      BY <1>1, <1>8, <2>2 DEF SaveDue, Deleted, Tables
    <3> QED
      BY <2>1, <2>2, <3>1, SurvivalKept
  <2>3. CASE task = "steps"
    <3>1. disk'.steps = StepRows(prog) /\ disk'.cfg = disk.cfg
      BY <1>1, <1>8, <2>3 DEF SaveDue, StepsStored, Tables
    <3> QED
      BY <2>1, <3>1 DEF SurvivalInv, SettingsKept
  <2> QED
    BY <2>2, <2>3
<1>9. CASE PowerCycle
  <2>1. disk' = disk /\ prog' = RecoveredCfg(RecoveredSteps(prog, disk.steps), disk.cfg)
    BY <1>9 DEF PowerCycle
  <2>2. StepRows(prog') = disk.steps /\ CfgRow(prog') = disk.cfg
    BY <1>1, <2>1 DEF RecoveredCfg, RecoveredSteps, StepRows, CfgRow, NodeProgram, Tables
  <2> QED
    BY <2>1, <2>2 DEF SurvivalInv, SettingsKept, CfgRow
<1>10. CASE UNCHANGED vars
  BY <1>10 DEF vars, node, SurvivalInv, SettingsKept
<1> QED
  BY <1>2, <1>3, <1>4, <1>5, <1>6, <1>7, <1>8, <1>9, <1>10 DEF Next, Server, SaveThread

LEMMA Survival == Spec => []SurvivalInv
<1>1. Init => SurvivalInv
  <2> SUFFICES ASSUME Init PROVE SurvivalInv
    OBVIOUS
  <2>1. SettingsKept
    BY DEF Init, SettingsKept, CfgRow
  <2> QED
    BY <2>1, InitTyped DEF Init, SurvivalInv
<1> QED
  BY <1>1, SurvivalStep, TypeCorrect, PTL DEF Spec

(* However broadcasts and commands to the node alone follow upon each      *)
(* other, and whenever the power fails: what memory is given back is the   *)
(* program it had, unless a command about it is still in hand              *)
(* (sqlite_opera.c:1240).                                                  *)
THEOREM ProgramKept == Spec => ProgramSurvives
<1>1. SurvivalInv /\ PowerCycle /\ srv = "none" /\ "steps" \notin due
        => prog' = [prog EXCEPT !.cyc = IF @ = 0 THEN disk.cfg.cyc ELSE @]
  <2> SUFFICES ASSUME SurvivalInv, PowerCycle, srv = "none", "steps" \notin due
               PROVE  prog' = [prog EXCEPT !.cyc = IF @ = 0 THEN disk.cfg.cyc ELSE @]
    OBVIOUS
  <2>1. disk \in Tables /\ prog \in NodeProgram
    BY DEF SurvivalInv, TypeOK
  <2>2. disk.steps = StepRows(prog) /\ SettingsKept
    BY DEF SurvivalInv
  <2>3. /\ disk.steps.step = prog.step /\ disk.steps.step_num = prog.step_num
        /\ disk.cfg.divcap_end_step = prog.divcap_end_step
        /\ disk.cfg.recharge_start_step = prog.recharge_start_step
        /\ disk.cfg.cyc = IF prog.cyc = 0 THEN disk.cfg.cyc ELSE prog.cyc
    BY <2>1, <2>2 DEF StepRows, CfgRow, SettingsKept, Tables
  <2>4. prog' = RecoveredCfg(RecoveredSteps(prog, disk.steps), disk.cfg)
    BY DEF PowerCycle
  <2> QED
    BY <2>1, <2>3, <2>4 DEF RecoveredCfg, RecoveredSteps, NodeProgram
<1> QED
  BY <1>1, Survival, PTL DEF Spec, ProgramSurvives
-----------------------------------------------------------------------------
(***************************************************************************)
(* The delete of a broadcast stop waits until the save thread has finished *)
(* what it is writing, and nothing begins to write a node that has been    *)
(* stopped: the row is gone, or its delete is still due.                   *)
(***************************************************************************)
ForgetInv ==
  "stop" \notin scene.commands /\ left.crashes = scene.crashes
    /\ (status = "STOP" \/ StoppedByHost)
    => "delete" \in due \/ (disk.row = NoRow /\ saver = "idle")

LEMMA ForgetStep == TypeOK /\ ForgetInv /\ [Next]_vars => ForgetInv'
<1> SUFFICES ASSUME TypeOK, ForgetInv, [Next]_vars,
                    "stop" \notin scene'.commands, left'.crashes = scene'.crashes,
                    (status = "STOP" \/ StoppedByHost)'
             PROVE  ("delete" \in due \/ (disk.row = NoRow /\ saver = "idle"))'
  BY DEF ForgetInv
<1> USE DEF status, StoppedByHost, scene
<1>1. /\ left \in [scene: Scenes, runs: Nat, crashes: Nat] /\ cursor \in Cursor
      /\ disk \in Tables /\ left.crashes <= scene.crashes
  BY DEF TypeOK
<1>2. CASE Start
  <2>1. cursor'.run_status = "RUNNING"
    BY <1>1, <1>2, RestTyped DEF Start, Begun, Cursor
  <2> QED
    BY <2>1
<1>3. CASE Pause \/ Resume
  <2>1. cursor'.run_status \in {"PAUSE", "RUNNING"}
    BY <1>1, <1>3 DEF Pause, Resume, Cursor
  <2> QED
    BY <2>1
<1>4. CASE StopOne
  <2>1. "stop" \in scene.commands /\ left' = left
    BY <1>4 DEF StopOne, Command
  <2> QED
    BY <2>1
<1>5. CASE StopAll
  BY <1>5 DEF StopAll
<1>6. CASE Configure
  <2>1. cursor'.run_status = "IDLE" /\ working_status' = "none"
    BY <1>1, <1>6, RestTyped DEF Configure, Cursor
  <2> QED
    BY <2>1
<1>7. CASE SetGlobal
  BY <1>7 DEF SetGlobal, ForgetInv
<1>8. CASE ServerWrites
  <2>1. UNCHANGED <<node, due, saver, left>>
    BY <1>8 DEF ServerWrites
  <2>2. srv \in {"delete", "steps", "cfg"}
    BY <1>8 DEF ServerWrites, TypeOK
  <2>3. disk'.row = disk.row \/ disk'.row = NoRow
    BY <1>1, <1>8, <2>2 DEF ServerWrites, Deleted, StepsStored, CfgStored, Tables
  <2> QED
    BY <2>1, <2>3 DEF ForgetInv, node
<1>9. CASE EndStep
  BY <1>9 DEF EndStep
<1>10. CASE SwitchStep
  <2>1. cursor'.run_status \in {"RUNNING", "COMP"}
    BY <1>10, CompletionLemma DEF SwitchStep
  <2> QED
    BY <2>1
<1>11. CASE HaltStop
  BY <1>11 DEF HaltStop, ForgetInv
<1>12. CASE HaltPause
  <2>1. cursor'.run_status = "PAUSE"
    BY <1>1, <1>12 DEF HaltPause, Cursor
  <2> QED
    BY <2>1
<1>13. CASE BeginSave
  BY <1>13 DEF BeginSave, node
<1>14. CASE CopyField \/ StoreRow \/ KeepRow
  BY <1>14 DEF CopyField, StoreRow, KeepRow, Saver, node, ForgetInv
<1>15. ASSUME NEW task \in {"steps", "delete"}, SaveDue(task)
       PROVE  ("delete" \in due \/ (disk.row = NoRow /\ saver = "idle"))'
  <2>1. UNCHANGED <<node, saver, left>> /\ saver = "idle" /\ due' = due \ {task}
    BY <1>15 DEF SaveDue
  <2>2. CASE task = "delete"
    <3>1. disk'.row = NoRow
      BY <1>1, <1>15, <2>2 DEF SaveDue, Deleted, Tables
    <3> QED
      BY <2>1, <3>1
  <2>3. CASE task = "steps"
    <3>1. disk'.row = disk.row
      BY <1>1, <1>15, <2>3 DEF SaveDue, StepsStored, Tables
    <3> QED
      BY <2>1, <2>3, <3>1 DEF ForgetInv, node
  <2> QED
    BY <2>2, <2>3
<1>16. CASE PowerCycle
  <2>1. left'.crashes = left.crashes - 1 /\ left'.scene = left.scene
    BY <1>1, <1>16 DEF PowerCycle
  <2>2. left.scene.crashes \in Nat /\ left.crashes \in Nat
    BY <1>1, ProgramsTyped
  <2>3. left.crashes - 1 = left.scene.crashes
    BY <2>1
  <2>4. left.crashes <= left.scene.crashes
    BY <1>1
  <2>5. \A a, b \in Nat : ~(a - 1 = b /\ a <= b)
    OBVIOUS
  <2> QED
    BY <2>2, <2>3, <2>4, <2>5
<1>17. CASE UNCHANGED vars
  BY <1>17 DEF vars, node, ForgetInv
<1> QED
  BY <1>2, <1>3, <1>4, <1>5, <1>6, <1>7, <1>8, <1>9, <1>10, <1>11, <1>12, <1>13,
     <1>14, <1>15, <1>16, <1>17 DEF Next, Server, Control, SaveThread

(* A stop of all nodes deletes the record of the run for good, even if the *)
(* save thread is in the middle of it (sqlite_opera.c:1425).               *)
THEOREM Forgotten == Spec => []StoppedIsForgotten
<1>1. Init => ForgetInv
  BY RestTyped DEF Init, ForgetInv, status, StoppedByHost
<1>2. ForgetInv => StoppedIsForgotten
  BY DEF ForgetInv, StoppedIsForgotten, Quiet
<1> QED
  BY <1>1, <1>2, ForgetStep, TypeCorrect, PTL DEF Spec
-----------------------------------------------------------------------------
(***************************************************************************)
(* The cursor moves on by one step at most, from a step that has ended.    *)
(* The position comes back from a row whose fields were copied one after   *)
(* the other: the step may be the one the cursor was in earlier, but what  *)
(* the copy says has ended did end in this run (EndsTrue); only between    *)
(* two fields may the mark of the end be that of an earlier step.  Before  *)
(* the first start nothing is stored (Unstarted).                          *)
(***************************************************************************)
EndedBefore(k) == \A s \in 0..k-1 : s \in done

EndsTrue ==
  /\ step_end /\ status # "COMP" => cursor.now_step \in done
  /\ copy.step_end /\ copy.run_status # "COMP"
       => copy.now_step \in done \/ saver = "now_cyc"
  /\ saver = "now_cyc" => copy.now_step \in done \/ copy.now_step = cursor.now_step
  /\ disk.row.copy.step_end /\ disk.row.copy.run_status # "COMP"
       => disk.row.copy.now_step \in done

(* A copy that shows a complete node is stored with the mark of one.       *)
CompleteMarked ==
  /\ disk.row.copy.run_status = "COMP" => disk.row.working_status = "A0"
  /\ copy.run_status = "COMP" => status = "COMP"
  /\ status = "COMP" => working_status = "A0"

Unstarted ==
  /\ status = "IDLE" /\ working_status = "none" /\ disk.row = NoRow
  /\ saver = "idle" /\ copy = NoCopy /\ done = {}

Followed ==
  /\ EndedBefore(cursor.now_step) /\ EndedBefore(copy.now_step)
  /\ EndedBefore(disk.row.copy.now_step)
  /\ EndsTrue /\ CompleteMarked
  /\ left.runs > 0 => Unstarted

FollowInv == Undisturbed => Followed

LEMMA AdvanceLemma ==
  ASSUME NEW p \in NodeProgram, NEW c \in Cursor, NEW blocked \in BOOLEAN
  PROVE  NextStep(p, c, blocked).now_step <= c.now_step + 1
<1> DEFINE next == StepAfter(p, c.now_step, c.sub_now_cyc)
           over == next >= p.step_num
           last == over /\ LastPass(p, next, c.now_cyc)
           at   == IF last THEN c.now_step ELSE IF over THEN 0 ELSE next
<1>1. c.now_step \in 0..MaxStep-1 /\ c.now_step \in Nat /\ c.sub_now_cyc \in Byte
  BY MaxStepAssumption DEF Cursor
<1>2. next \in Int /\ next <= c.now_step + 1
  <2>1. CASE Repeats(p, c.now_step, c.sub_now_cyc)
    <3>1. next = p.step[c.now_step].jump_step - 1 /\ next < c.now_step
      BY <2>1 DEF StepAfter, Repeats, ClosesLoop, LoopStart
    <3>2. next \in 0..MaxStep
      BY <1>1, StepAfterLemma
    <3> HIDE DEF next
    <3> QED
      BY <1>1, <3>1, <3>2, MaxStepAssumption
  <2>2. CASE ~Repeats(p, c.now_step, c.sub_now_cyc)
    BY <1>1, <2>2 DEF StepAfter
  <2> QED
    BY <2>1, <2>2
<1>3. NextStep(p, c, blocked).now_step = at
  BY DEF NextStep, Moved, NextType
<1> HIDE DEF next, last, over
<1> QED
  BY <1>1, <1>2, <1>3

(* Steps of the three threads in which nothing is copied, stored or ended. *)
LEMMA FollowedKept ==
  ASSUME Followed, cursor'.now_step = cursor.now_step, step_end' = step_end,
         copy' = copy, saver' = saver, disk'.row = disk.row, done' = done,
         left'.runs = left.runs,
         working_status' = working_status \/ cursor'.run_status # "COMP",
         cursor'.run_status = cursor.run_status
           \/ (cursor'.run_status # "COMP" /\ cursor.run_status \notin {"IDLE", "COMP"}),
         cursor.run_status = "IDLE" => working_status' = working_status
  PROVE  Followed'
<1> USE DEF status
<1>1. /\ EndedBefore(cursor.now_step)' /\ EndedBefore(copy.now_step)'
      /\ EndedBefore(disk.row.copy.now_step)'
  BY DEF Followed, EndedBefore
<1>2. EndsTrue'
  BY DEF Followed, EndsTrue
<1>3. CompleteMarked'
  BY DEF Followed, CompleteMarked
<1>4. left'.runs > 0 => Unstarted'
  BY DEF Followed, Unstarted
<1> QED
  BY <1>1, <1>2, <1>3, <1>4 DEF Followed

LEMMA FollowedSame ==
  ASSUME Followed, disk'.row = disk.row,
         UNCHANGED <<cursor, step_end, working_status, copy, saver, done, left>>
  PROVE  Followed'
BY DEF Followed, EndedBefore, EndsTrue, CompleteMarked, Unstarted, status

(* The row of the node is deleted.                                         *)
LEMMA FollowedDeleted ==
  ASSUME Followed, disk'.row = NoRow,
         UNCHANGED <<cursor, step_end, working_status, copy, saver, done, left>>
  PROVE  Followed'
<1> USE DEF status
<1>1. NoRow.copy.now_step = 0 /\ ~NoRow.copy.step_end /\ NoRow.copy.run_status = "IDLE"
  BY RestTyped DEF NoRow
<1>2. /\ EndedBefore(cursor.now_step)' /\ EndedBefore(copy.now_step)'
      /\ EndedBefore(disk.row.copy.now_step)'
  BY <1>1 DEF Followed, EndedBefore
<1>3. EndsTrue' /\ CompleteMarked'
  BY <1>1 DEF Followed, EndsTrue, CompleteMarked
<1>4. left'.runs > 0 => Unstarted'
  BY DEF Followed, Unstarted
<1> QED
  BY <1>2, <1>3, <1>4 DEF Followed

LEMMA FollowedStart ==
  ASSUME TypeOK, Followed, Undisturbed, left.runs <= 1, Start
  PROVE  Followed'
<1> USE DEF status
<1>1. cursor \in Cursor /\ left \in [scene: Scenes, runs: Nat, crashes: Nat]
  BY DEF TypeOK
<1>2. CASE working_status = "AA"
  <2>1. /\ cursor'.now_step = cursor.now_step /\ cursor'.run_status = "RUNNING"
        /\ UNCHANGED <<step_end, working_status, copy, saver, disk, left, done>>
    BY <1>1, <1>2 DEF Start, Begun, Cursor
  <2>2. ~(left.runs > 0) /\ status # "COMP"
    BY <1>2 DEF Followed, Unstarted, CompleteMarked
  <2>3. /\ EndedBefore(cursor.now_step)' /\ EndedBefore(copy.now_step)'
        /\ EndedBefore(disk.row.copy.now_step)'
    BY <2>1 DEF Followed, EndedBefore
  <2>4. EndsTrue' /\ CompleteMarked'
    BY <2>1, <2>2 DEF Followed, EndsTrue, CompleteMarked
  <2> QED
    BY <2>1, <2>2, <2>3, <2>4 DEF Followed
<1>3. CASE working_status # "AA"
  <2>1. /\ cursor'.now_step = 0 /\ cursor'.run_status = "RUNNING" /\ ~step_end'
        /\ working_status' = "AA" /\ left'.runs = left.runs - 1 /\ left.runs > 0
        /\ UNCHANGED <<copy, saver, disk>>
    BY <1>1, <1>3, RestTyped DEF Start, Begun, Cursor
  <2>2. saver = "idle" /\ copy = NoCopy /\ disk.row = NoRow
    BY <2>1 DEF Followed, Unstarted
  <2>3. NoRow.copy.now_step = 0 /\ ~NoRow.copy.step_end /\ NoRow.copy.run_status = "IDLE"
    BY RestTyped DEF NoRow
  <2>4. /\ EndedBefore(cursor.now_step)' /\ EndedBefore(copy.now_step)'
        /\ EndedBefore(disk.row.copy.now_step)'
    BY <2>1, <2>2, <2>3, RestTyped DEF EndedBefore
  <2>5. EndsTrue' /\ CompleteMarked'
    BY <2>1, <2>2, <2>3, RestTyped DEF EndsTrue, CompleteMarked
  <2>6. ~(left'.runs > 0)
    BY <1>1, <2>1
  <2> QED
    BY <2>4, <2>5, <2>6 DEF Followed
<1> QED
  BY <1>2, <1>3

LEMMA FollowedEnd == ASSUME TypeOK, Followed, EndStep PROVE Followed'
<1> USE DEF status
<1>1. /\ cursor'= cursor /\ step_end' /\ done' = done \cup {cursor.now_step}
      /\ UNCHANGED <<working_status, disk, left, saver>> /\ status = "RUNNING"
  BY DEF EndStep
<1>2. \/ copy' = copy
      \/ /\ copy'.now_step = cursor.now_step /\ copy'.run_status = "RUNNING"
         /\ copy'.step_end
  BY DEF EndStep, Copied
<1>3. /\ EndedBefore(cursor.now_step)' /\ EndedBefore(copy.now_step)'
      /\ EndedBefore(disk.row.copy.now_step)'
  BY <1>1, <1>2 DEF Followed, EndedBefore
<1>4. EndsTrue'
  BY <1>1, <1>2 DEF Followed, EndsTrue
<1>5. CompleteMarked'
  BY <1>1, <1>2 DEF Followed, CompleteMarked
<1>6. ~(left.runs > 0)
  BY <1>1 DEF Followed, Unstarted
<1> QED
  BY <1>1, <1>3, <1>4, <1>5, <1>6 DEF Followed

LEMMA FollowedSwitch == ASSUME TypeOK, Followed, SwitchStep PROVE Followed'
<1> USE DEF status
<1>1. /\ cursor \in Cursor /\ prog \in NodeProgram /\ disk \in Tables /\ cursor' \in Cursor
      /\ copy \in Position
  BY NextStepLemma DEF SwitchStep, TypeOK
<1>2. /\ status = "RUNNING" /\ step_end /\ UNCHANGED <<copy, saver, left, done>>
      /\ step_end' = (cursor'.run_status # "RUNNING")
      /\ cursor'.run_status = "COMP" => working_status' = "A0"
      /\ cursor'.run_status # "COMP" => working_status' = working_status /\ disk' = disk
  BY DEF SwitchStep
<1>3. cursor'.run_status \in {"RUNNING", "COMP"}
  BY <1>2, CompletionLemma DEF SwitchStep
<1>4. disk'.row = disk.row \/ disk'.row = [working_status |-> "A0", copy |-> copy]
  BY <1>1, <1>2 DEF SwitchStep, Tables
<1>5. cursor.now_step \in done /\ cursor'.now_step <= cursor.now_step + 1
  BY <1>1, <1>2, AdvanceLemma DEF SwitchStep, Followed, EndsTrue
<1>6. EndedBefore(cursor.now_step)'
  <2> SUFFICES ASSUME NEW s \in 0..cursor'.now_step-1 PROVE s \in done
    BY <1>2 DEF EndedBefore
  <2>1. cursor.now_step \in Nat /\ cursor'.now_step \in Nat
    BY <1>1, MaxStepAssumption DEF Cursor
  <2>2. s = cursor.now_step \/ s \in 0..cursor.now_step-1
    BY <1>5, <2>1
  <2> QED
    BY <1>5, <2>2 DEF Followed, EndedBefore
<1>7. EndedBefore(copy.now_step)' /\ EndedBefore(disk.row.copy.now_step)'
  BY <1>2, <1>4 DEF Followed, EndedBefore
<1>8. copy.run_status # "COMP" /\ (copy.step_end => copy.now_step \in done)
  BY <1>2, <1>5 DEF Followed, EndsTrue, CompleteMarked
<1>9. EndsTrue'
  <2>1. step_end' /\ status' # "COMP" => cursor'.now_step \in done'
    BY <1>2, <1>3
  <2>2. copy'.step_end /\ copy'.run_status # "COMP"
          => copy'.now_step \in done' \/ saver' = "now_cyc"
    BY <1>2, <1>8
  <2>3. saver' = "now_cyc" => copy'.now_step \in done'
    BY <1>2, <1>5 DEF Followed, EndsTrue
  <2>4. disk'.row.copy.step_end /\ disk'.row.copy.run_status # "COMP"
          => disk'.row.copy.now_step \in done'
    BY <1>2, <1>4, <1>8 DEF Followed, EndsTrue
  <2> QED
    BY <2>1, <2>2, <2>3, <2>4 DEF EndsTrue
<1>10. CompleteMarked'
  BY <1>2, <1>3, <1>4, <1>8 DEF Followed, CompleteMarked
<1>11. ~(left.runs > 0)
  BY <1>2 DEF Followed, Unstarted
<1> QED
  BY <1>2, <1>6, <1>7, <1>9, <1>10, <1>11 DEF Followed

LEMMA FollowedCopy == ASSUME TypeOK, Followed, CopyField PROVE Followed'
<1> USE DEF status, Saver
<1>1. copy \in Position
  BY DEF TypeOK
<1>2. UNCHANGED <<cursor, step_end, working_status, disk, left, done>>
  BY DEF CopyField
<1>3. ~(left.runs > 0)
  BY DEF CopyField, Followed, Unstarted
<1>4. CASE saver = "sub_now_cyc"
  <2>1. /\ saver' = "now_step" /\ copy'.now_step = copy.now_step
        /\ copy'.run_status = copy.run_status /\ copy'.step_end = copy.step_end
    BY <1>1, <1>4 DEF CopyField, Position
  <2>2. /\ EndedBefore(cursor.now_step)' /\ EndedBefore(copy.now_step)'
        /\ EndedBefore(disk.row.copy.now_step)'
    BY <1>2, <2>1 DEF Followed, EndedBefore
  <2>3. EndsTrue' /\ CompleteMarked'
    BY <1>2, <1>4, <2>1 DEF Followed, EndsTrue, CompleteMarked
  <2> QED
    BY <1>2, <1>3, <2>2, <2>3 DEF Followed
<1>5. CASE saver = "now_step"
  <2>1. /\ saver' = "now_cyc" /\ copy'.now_step = cursor.now_step
        /\ copy'.run_status = copy.run_status /\ copy'.step_end = copy.step_end
    BY <1>1, <1>5 DEF CopyField, Position
  <2>2. /\ EndedBefore(cursor.now_step)' /\ EndedBefore(copy.now_step)'
        /\ EndedBefore(disk.row.copy.now_step)'
    BY <1>2, <2>1 DEF Followed, EndedBefore
  <2>3. EndsTrue' /\ CompleteMarked'
    BY <1>2, <2>1 DEF Followed, EndsTrue, CompleteMarked
  <2> QED
    BY <1>2, <1>3, <2>2, <2>3 DEF Followed
<1>6. CASE saver = "now_cyc"
  <2>1. /\ saver' = "store" /\ copy'.now_step = copy.now_step
        /\ copy'.run_status = status /\ copy'.step_end = step_end
    BY <1>1, <1>6 DEF CopyField, Position
  <2>2. /\ EndedBefore(cursor.now_step)' /\ EndedBefore(copy.now_step)'
        /\ EndedBefore(disk.row.copy.now_step)'
    BY <1>2, <2>1 DEF Followed, EndedBefore
  <2>3. EndsTrue' /\ CompleteMarked'
    BY <1>2, <1>6, <2>1 DEF Followed, EndsTrue, CompleteMarked
  <2> QED
    BY <1>2, <1>3, <2>2, <2>3 DEF Followed
<1> QED
  BY <1>4, <1>5, <1>6 DEF CopyField

LEMMA FollowedStore == ASSUME TypeOK, Followed, StoreRow PROVE Followed'
<1> USE DEF status, Saver
<1>1. /\ disk'.row = [working_status |-> working_status, copy |-> copy]
      /\ saver = "store" /\ saver' = "idle"
      /\ UNCHANGED <<cursor, step_end, working_status, copy, left, done>>
  BY DEF StoreRow, TypeOK, Tables, node
<1>2. /\ EndedBefore(cursor.now_step)' /\ EndedBefore(copy.now_step)'
      /\ EndedBefore(disk.row.copy.now_step)'
  BY <1>1 DEF Followed, EndedBefore
<1>3. EndsTrue' /\ CompleteMarked'
  BY <1>1 DEF Followed, EndsTrue, CompleteMarked
<1>4. ~(left.runs > 0)
  BY <1>1 DEF Followed, Unstarted
<1> QED
  BY <1>1, <1>2, <1>3, <1>4 DEF Followed

LEMMA FollowedPower == ASSUME TypeOK, Followed, PowerCycle PROVE Followed'
<1> USE DEF status
<1> DEFINE row == disk.row
<1>1. row \in [working_status: Marks, copy: Position]
  BY DEF TypeOK, Tables
<1>2. /\ cursor'.now_step = row.copy.now_step /\ step_end' = row.copy.step_end
      /\ cursor'.run_status = IF row.working_status = "AA" THEN "PAUSE"
                              ELSE row.copy.run_status
      /\ working_status' = row.working_status
      /\ copy' = NoCopy /\ saver' = "idle" /\ disk' = disk /\ done' = done
      /\ left'.runs = left.runs
  BY DEF PowerCycle, Recovered, TypeOK
<1> HIDE DEF row
<1>3. disk.row = row /\ disk'.row = row
  BY <1>2 DEF row
<1>4. /\ EndedBefore(cursor.now_step)' /\ EndedBefore(copy.now_step)'
      /\ EndedBefore(disk.row.copy.now_step)'
  BY <1>2, <1>3, RestTyped DEF Followed, EndedBefore
<1>5. EndsTrue'
  BY <1>2, <1>3, RestTyped DEF Followed, EndsTrue, CompleteMarked
<1>6. CompleteMarked'
  BY <1>2, <1>3, RestTyped DEF Followed, CompleteMarked
<1>7. left'.runs > 0 => Unstarted'
  <2>1. NoRow.working_status = "none" /\ NoRow.copy.run_status = "IDLE"
    BY RestTyped DEF NoRow
  <2> QED
    BY <1>2, <1>3, <2>1 DEF Followed, Unstarted
<1> QED
  BY <1>4, <1>5, <1>6, <1>7 DEF Followed

FewRuns == left.runs <= 1

LEMMA FollowStep ==
  ASSUME TypeOK, FollowInv, Undisturbed => FewRuns, [Next]_vars
  PROVE  FollowInv'
<1> SUFFICES ASSUME Undisturbed' PROVE Followed'
  BY DEF FollowInv
<1>1. left'.scene = left.scene
  BY DEF Next, Server, Start, Pause, Resume, StopOne, StopAll, Configure, SetGlobal,
     ServerWrites, Control, EndStep, SwitchStep, HaltStop, HaltPause, SaveThread,
     BeginSave, CopyField, StoreRow, KeepRow, SaveDue, PowerCycle, vars, node, TypeOK
<1>2. Undisturbed /\ Followed /\ left.runs <= 1
  BY <1>1 DEF Undisturbed, scene, FollowInv, FewRuns
<1>3. scene.commands \subseteq {"start", "resume", "stop"}
  BY <1>2 DEF Undisturbed
<1>4. cursor \in Cursor /\ disk \in Tables
  BY DEF TypeOK
<1> USE DEF status, Command
<1>5. CASE Start
  BY <1>2, <1>5, FollowedStart
<1>6. CASE Resume
  <2>1. /\ cursor'.now_step = cursor.now_step /\ cursor'.run_status = "RUNNING"
        /\ cursor.run_status = "PAUSE"
        /\ UNCHANGED <<step_end, working_status, copy, saver, disk, left, done>>
    BY <1>4, <1>6 DEF Resume, Cursor
  <2> QED
    BY <1>2, <2>1, FollowedKept
<1>7. CASE StopOne
  <2>1. /\ cursor'.now_step = cursor.now_step /\ cursor'.run_status = "STOP"
        /\ cursor.run_status \in {"RUNNING", "PAUSE"}
        /\ UNCHANGED <<step_end, working_status, copy, saver, disk, left, done>>
    BY <1>4, <1>7 DEF StopOne, Cursor
  <2> QED
    BY <1>2, <2>1, FollowedKept
<1>8. ~(Pause \/ StopAll \/ Configure \/ SetGlobal)
  BY <1>3 DEF Pause, StopAll, Configure, SetGlobal
<1>9. CASE ServerWrites
  <2>1. /\ UNCHANGED <<cursor, step_end, working_status, copy, saver, done, left>>
        /\ srv \in {"delete", "steps", "cfg"}
    BY <1>9 DEF ServerWrites, node, TypeOK
  <2>2. disk'.row = NoRow \/ disk'.row = disk.row
    BY <1>4, <1>9, <2>1 DEF ServerWrites, Deleted, StepsStored, CfgStored, Tables
  <2> QED
    BY <1>2, <2>1, <2>2, FollowedDeleted, FollowedSame
<1>10. CASE EndStep
  BY <1>2, <1>10, FollowedEnd
<1>11. CASE SwitchStep
  BY <1>2, <1>11, FollowedSwitch
<1>12. CASE HaltStop
  <2>1. /\ cursor'.now_step = cursor.now_step /\ cursor'.run_status = "IDLE"
        /\ cursor.run_status = "STOP"
        /\ UNCHANGED <<step_end, copy, saver, disk, left, done>>
    BY <1>4, <1>12 DEF HaltStop, Cursor
  <2> QED
    BY <1>2, <2>1, FollowedKept
<1>13. CASE HaltPause
  <2>1. /\ cursor'.now_step = cursor.now_step /\ cursor'.run_status = cursor.run_status
        /\ cursor.run_status = "PAUSE"
        /\ UNCHANGED <<step_end, copy, saver, disk, left, done>>
    BY <1>4, <1>13 DEF HaltPause, Cursor
  <2> QED
    BY <1>2, <2>1, FollowedKept
<1>14. CASE BeginSave
  <2>1. saver' = "sub_now_cyc" /\ saver = "idle" /\ cursor.run_status = "RUNNING"
        /\ UNCHANGED <<cursor, step_end, working_status, copy, disk, left, done>>
    BY <1>14 DEF BeginSave, Saver, node
  <2>2. ~(left.runs > 0)
    BY <1>2, <2>1 DEF Followed, Unstarted
  <2> QED
    BY <1>2, <2>1, <2>2 DEF Followed, EndedBefore, EndsTrue, CompleteMarked
<1>15. CASE CopyField
  BY <1>2, <1>15, FollowedCopy
<1>16. CASE StoreRow
  BY <1>2, <1>16, FollowedStore
<1>17. CASE KeepRow
  <2>1. saver' = "idle" /\ saver = "store"
        /\ UNCHANGED <<cursor, step_end, working_status, copy, disk, left, done>>
    BY <1>17 DEF KeepRow, Saver, node
  <2>2. ~(left.runs > 0)
    BY <1>2, <2>1 DEF Followed, Unstarted
  <2> QED
    BY <1>2, <2>1, <2>2 DEF Followed, EndedBefore, EndsTrue, CompleteMarked
<1>18. ASSUME NEW task \in {"steps", "delete"}, SaveDue(task) PROVE Followed'
  <2>1. UNCHANGED <<cursor, step_end, working_status, copy, saver, done, left>>
    BY <1>18 DEF SaveDue, node
  <2>2. disk'.row = NoRow \/ disk'.row = disk.row
    BY <1>4, <1>18 DEF SaveDue, Deleted, StepsStored, Tables
  <2> QED
    BY <1>2, <2>1, <2>2, FollowedDeleted, FollowedSame
<1>19. CASE PowerCycle
  BY <1>2, <1>19, FollowedPower
<1>20. CASE UNCHANGED vars
  <2>1. UNCHANGED <<cursor, step_end, working_status, copy, saver, done, left>>
        /\ disk'.row = disk.row
    BY <1>20 DEF vars, node
  <2> QED
    BY <1>2, <2>1, FollowedSame
<1> QED
  BY <1>5, <1>6, <1>7, <1>8, <1>9, <1>10, <1>11, <1>12, <1>13, <1>14, <1>15, <1>16,
     <1>17, <1>18, <1>19, <1>20 DEF Next, Server, Control, SaveThread

(* No power failure, wherever it strikes, and no mixture of fields in the  *)
(* record make the first run of a node skip a step, whatever its program.  *)
(* (In a later run the copy of the one before may still be stored: with    *)
(* two runs TLC finds a step skipped.)                                     *)
THEOREM NoneSkippedByFailure ==
  ASSUME \A s \in Scenes : s.commands \subseteq {"start", "resume", "stop"} => s.runs <= 1
  PROVE  Spec => []NothingSkipped
<1>1. Init => FollowInv
  <2> SUFFICES ASSUME Init PROVE Followed
    BY DEF FollowInv
  <2>1. disk.row = NoRow /\ cursor = AtRest /\ copy = NoCopy /\ ~step_end /\ done = {}
        /\ saver = "idle" /\ working_status = "none"
    BY DEF Init
  <2>2. NoRow.copy = NoCopy
    BY DEF NoRow
  <2> QED
    BY <2>1, <2>2, RestTyped
       DEF Followed, EndedBefore, EndsTrue, CompleteMarked, Unstarted, status
<1>2. TypeOK => (Undisturbed => FewRuns)
  <2> SUFFICES ASSUME TypeOK, Undisturbed PROVE FewRuns
    OBVIOUS
  <2>1. left.scene \in Scenes /\ left.runs \in Nat /\ left.runs <= left.scene.runs
    BY DEF TypeOK, scene
  <2>2. left.scene.runs \in Nat /\ left.scene.runs <= 1
    BY <2>1, ProgramsTyped DEF Undisturbed, scene
  <2> QED
    BY <2>1, <2>2 DEF FewRuns
<1>3. TypeOK /\ FollowInv /\ [Next]_vars => FollowInv'
  BY <1>2, FollowStep
<1>4. FollowInv => NothingSkipped
  BY DEF FollowInv, Followed, EndedBefore, NothingSkipped
<1> QED
  BY <1>1, <1>3, <1>4, TypeCorrect, PTL DEF Spec
=============================================================================
