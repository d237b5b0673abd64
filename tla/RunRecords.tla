----------------------------- MODULE RunRecords -----------------------------
(***************************************************************************)
(* What survives a power failure: the program and the record of the run of *)
(* one node in the database, written by the save thread every ten seconds, *)
(* by the control thread when the node completes and by the server thread  *)
(* when the node is configured or stopped, and read again at power-up.     *)
(*                                                                         *)
(* The record is built in two stages.  copy_real_data takes the fields of  *)
(* bst.node[n] to save_real_data[n], one after the other, while the        *)
(* control thread may change them; save_global_group_data writes           *)
(* save_real_data[n] to the row of the node.  working_status lives in      *)
(* save_real_data[n] only.  A start, a pause or a switch of steps is one   *)
(* action here (NodeControl has their interleavings); so is a transaction, *)
(* which a power failure undoes or not.  Measurements, which are copied    *)
(* and restored with the position, are left out.                           *)
(***************************************************************************)
EXTENDS StepProgram

CONSTANT
  Scenes        \* what may happen: the programs and commands of the host,
                \* whether a charge may end by a fault, which takes no copy,
                \* and bounds on the new starts and the power failures

AllCommands == {"start", "pause", "resume", "stop", "stopall", "cfg", "global"}

ASSUME RunRecordsAssumption ==
  \A s \in Scenes :
    /\ \A p \in s.programs : p \in NodeProgram /\ Padded(p) /\ p.step_num >= 1
    /\ s.commands \subseteq AllCommands
    /\ s.faultEnds \in BOOLEAN /\ s.runs \in Nat /\ s.crashes \in Nat

VARIABLES
  prog,            \* bst.node[n], the configured part
  cursor,          \* bst.node[n], position, output and run_status
  step_end,        \* bst.node[n].step_end
  working_status,  \* save_real_data[n].working_status
  copy,            \* save_real_data[n], the position in it
  srv,             \* server thread: database work of the command in hand
  due,             \* semaphores of the save thread: steps, delete
  saver,           \* save thread: next field to copy, or store, or idle
  disk,            \* the database: the steps of the node, their settings,
                   \* the row of its run
  left,            \* one of Scenes; starts and power failures still to come
  done             \* history: steps that have ended in this run

node == <<prog, cursor, step_end, working_status, copy>>
vars == <<node, srv, due, saver, disk, left, done>>

status == cursor.run_status
scene  == left.scene

(* What of the position is copied, stored and restored.                    *)
Copied(c, ended) ==
  [ now_step |-> c.now_step, sub_now_cyc |-> c.sub_now_cyc,
    now_cyc |-> c.now_cyc, run_status |-> c.run_status, step_end |-> ended ]

AtRest ==
  [ now_step |-> 0, sub_now_cyc |-> 0, now_cyc |-> 0, recharge_status |-> 0,
    work_type |-> "REST", run_status |-> "IDLE" ]

NoCopy == Copied(AtRest, FALSE)
NoRow  == [working_status |-> "none", copy |-> NoCopy]

(* The program lies in two tables, written by different commands: the rows *)
(* of the steps, inserted or updated, and the row of the settings.         *)
StepRows(p) == [step |-> p.step, step_num |-> p.step_num]

(* Mutant: two columns swapped.                                            *)
CfgRowSwapped(p) ==
  [ cyc |-> p.cyc, divcap_end_step |-> p.recharge_start_step,
    recharge_start_step |-> p.divcap_end_step ]

CfgRow(p) ==
  [ cyc |-> p.cyc, divcap_end_step |-> p.divcap_end_step,
    recharge_start_step |-> p.recharge_start_step ]

Init ==
  /\ \E s \in Scenes :
       /\ prog \in s.programs
       /\ left = [scene |-> s, runs |-> s.runs, crashes |-> s.crashes]
  /\ cursor = AtRest /\ step_end = FALSE
  /\ working_status = "none" /\ copy = NoCopy
  /\ srv = "none" /\ due = {} /\ saver = "idle"
  /\ disk = [steps |-> StepRows(prog), cfg |-> CfgRow(prog), row |-> NoRow]
  /\ done = {}
-----------------------------------------------------------------------------
(* The host's commands.  The server thread takes the next one when it has  *)
(* done the database work of the last.                                     *)
Command(cmd) == cmd \in scene.commands /\ srv = "none"

(* The step under the cursor begins, as node_start begins it.              *)
Begun(p, c) ==
  [c EXCEPT !.run_status = "RUNNING",
            !.work_type = OutputOf(TypeAt(p, c.now_step)),
            !.recharge_status = RechargeAt(p, c.now_step, @)]

(* Start of a node that is marked unfinished goes on, any other anew.  (A  *)
(* node whose step cannot run stays in SYS_START, see NodeControl.)        *)
Start ==
  /\ Command("start") /\ status \in {"IDLE", "COMP", "PAUSE"}
  /\ TypeAt(prog, cursor.now_step) \in Runnable
  /\ IF working_status = "AA"
     THEN /\ cursor' = Begun(prog, cursor)
          /\ UNCHANGED <<step_end, working_status, left, done>>
     ELSE /\ left.runs > 0 /\ left' = [left EXCEPT !.runs = @ - 1]
          /\ cursor' = Begun(prog, [AtRest EXCEPT !.recharge_status =
                                                    cursor.recharge_status])
          /\ step_end' = FALSE
          /\ working_status' = "AA"
          /\ done' = {}
  /\ UNCHANGED <<prog, copy, srv, due, saver, disk>>

Pause ==
  /\ Command("pause") /\ status = "RUNNING"
  /\ cursor' = [cursor EXCEPT !.run_status = "PAUSE"]
  /\ UNCHANGED <<prog, step_end, working_status, copy, srv, due, saver, disk,
                 left, done>>

Resume ==
  /\ Command("resume") /\ status = "PAUSE"
  /\ cursor' = [cursor EXCEPT !.run_status = "RUNNING"]
  /\ UNCHANGED <<prog, step_end, working_status, copy, srv, due, saver, disk,
                 left, done>>

(* A stop of one node has its row deleted by the server thread, a stop of  *)
(* all nodes by the save thread when it comes to it.                       *)
StopOne ==
  /\ Command("stop") /\ status \in {"RUNNING", "PAUSE"}
  /\ cursor' = [cursor EXCEPT !.run_status = "STOP"]
  /\ srv' = "delete"
  /\ UNCHANGED <<prog, step_end, working_status, copy, due, saver, disk, left, done>>

StopAll ==
  /\ Command("stopall")
  /\ cursor' = [cursor EXCEPT !.run_status =
                  IF @ \in {"RUNNING", "PAUSE"} THEN "STOP" ELSE @]
  /\ due' = due \cup {"delete"}
  /\ UNCHANGED <<prog, step_end, working_status, copy, srv, saver, disk, left, done>>

(* cfg_step_decode: para_init, which clears the number of passes with the  *)
(* position, and the new steps, which are stored by the server thread at   *)
(* once, or by the save thread after a broadcast.                          *)
Configure ==
  /\ Command("cfg") /\ status # "RUNNING"
  /\ \E p \in scene.programs :
       prog' = [prog EXCEPT !.step = p.step, !.step_num = p.step_num, !.cyc = 0]
  /\ cursor' = [AtRest EXCEPT !.recharge_status = cursor.recharge_status,
                              !.work_type = cursor.work_type]
  /\ step_end' = FALSE
  /\ working_status' = "none"
  /\ done' = {}
  /\ \/ srv' = "steps" /\ UNCHANGED due
     \/ due' = due \cup {"steps"} /\ UNCHANGED srv
  /\ UNCHANGED <<copy, saver, disk, left>>

(* set_step_global_decode: the number of passes and the sections, which    *)
(* the server thread stores itself, after a broadcast too.                 *)
SetGlobal ==
  /\ Command("global") /\ status # "RUNNING"
  /\ \E p \in scene.programs :
       prog' = [p EXCEPT !.step = prog.step, !.step_num = prog.step_num]
  /\ srv' = "cfg"
  /\ UNCHANGED <<cursor, step_end, working_status, copy, due, saver, disk, left,
                 done>>

(* Mutant: the row stays.                                                  *)
DeletedNot(d) == d

Deleted(d) == [d EXCEPT !.row = NoRow]
StepsStored(d) == [d EXCEPT !.steps = StepRows(prog)]
CfgStored(d) == [d EXCEPT !.cfg = CfgRow(prog)]

ServerWrites ==
  /\ srv # "none"
  /\ srv' = "none"
  /\ disk' = CASE srv = "delete" -> Deleted(disk)
               [] srv = "steps"  -> StepsStored(disk)
               [] srv = "cfg"    -> CfgStored(disk)
  /\ UNCHANGED <<node, due, saver, left, done>>

Server == Start \/ Pause \/ Resume \/ StopOne \/ StopAll \/ Configure \/ SetGlobal
-----------------------------------------------------------------------------
(* The control thread.  A charge that ends by a fault takes no copy.       *)
EndStep ==
  /\ status = "RUNNING" /\ ~step_end
  /\ TypeAt(prog, cursor.now_step) \in Runnable
  /\ step_end' = TRUE
  /\ \/ copy' = Copied(cursor, TRUE)
     \/ /\ scene.faultEnds /\ prog.step[cursor.now_step].type \in Charging
        /\ UNCHANGED copy
  /\ done' = done \cup {cursor.now_step}
  /\ UNCHANGED <<prog, cursor, working_status, srv, due, saver, disk, left>>

(* Mutant: completion is not written to the database.                      *)
SwitchStepUnsaved ==
  /\ status = "RUNNING" /\ step_end
  /\ \E blocked \in BOOLEAN : cursor' = NextStep(prog, cursor, blocked)
  /\ step_end' = (cursor'.run_status # "RUNNING")
  /\ working_status' = IF cursor'.run_status = "COMP" THEN "A0" ELSE working_status
  /\ UNCHANGED <<prog, copy, srv, due, saver, disk, left, done>>

(* On completion the record is written with the copy as it is: the last    *)
(* one taken, while the node still ran.                                    *)
SwitchStep ==
  /\ status = "RUNNING" /\ step_end
  /\ \E blocked \in BOOLEAN : cursor' = NextStep(prog, cursor, blocked)
  /\ step_end' = (cursor'.run_status # "RUNNING")
  /\ IF cursor'.run_status = "COMP"
     THEN /\ working_status' = "A0"
          /\ disk' = [disk EXCEPT !.row = [working_status |-> "A0", copy |-> copy]]
     ELSE UNCHANGED <<working_status, disk>>
  /\ UNCHANGED <<prog, copy, srv, due, saver, left, done>>

HaltStop ==
  /\ status = "STOP"
  /\ cursor' = [cursor EXCEPT !.run_status = "IDLE", !.work_type = "REST"]
  /\ working_status' = "A1"
  /\ UNCHANGED <<prog, step_end, copy, srv, due, saver, disk, left, done>>

(* Every scan; also the first one after a power failure.                   *)
HaltPause ==
  /\ status = "PAUSE" /\ (cursor.work_type # "REST" \/ working_status # "A1")
  /\ cursor' = [cursor EXCEPT !.work_type = "REST"]
  /\ working_status' = "A1"
  /\ UNCHANGED <<prog, step_end, copy, srv, due, saver, disk, left, done>>

Control == EndStep \/ SwitchStep \/ HaltStop \/ HaltPause
-----------------------------------------------------------------------------
(* The save thread.  Every ten seconds it copies, field by field, and      *)
(* stores a node that runs a step which has not ended; every forty it      *)
(* copies such a node for another table, which is not read at power-up.    *)
Saver(from, to) == saver = from /\ saver' = to

BeginSave ==
  /\ Saver("idle", "sub_now_cyc") /\ status = "RUNNING" /\ ~step_end
  /\ UNCHANGED <<node, srv, due, disk, left, done>>

CopyField ==
  /\ \/ /\ Saver("sub_now_cyc", "now_step")
        /\ copy' = [copy EXCEPT !.sub_now_cyc = cursor.sub_now_cyc]
     \/ /\ Saver("now_step", "now_cyc")
        /\ copy' = [copy EXCEPT !.now_step = cursor.now_step]
     \/ /\ Saver("now_cyc", "store")
        /\ copy' = [copy EXCEPT !.now_cyc = cursor.now_cyc,
                                !.run_status = status, !.step_end = step_end]
  /\ UNCHANGED <<prog, cursor, step_end, working_status, srv, due, disk, left, done>>

StoreRow ==
  /\ Saver("store", "idle")
  /\ disk' = [disk EXCEPT !.row = [working_status |-> working_status, copy |-> copy]]
  /\ UNCHANGED <<node, srv, due, left, done>>

KeepRow ==
  /\ Saver("store", "idle")
  /\ UNCHANGED <<node, srv, due, disk, left, done>>

SaveDue(task) ==
  /\ saver = "idle" /\ task \in due
  /\ due' = due \ {task}
  /\ disk' = IF task = "delete" THEN Deleted(disk) ELSE StepsStored(disk)
  /\ UNCHANGED <<node, srv, saver, left, done>>

SaveThread ==
  \/ BeginSave \/ CopyField \/ StoreRow \/ KeepRow
  \/ \E task \in {"steps", "delete"} : SaveDue(task)
-----------------------------------------------------------------------------
(* Mutant: a node goes on with the step after the one it was in.           *)
RecoveredAhead(row) ==
  LET r == row.copy
  IN  [ cursor |-> [ now_step |-> r.now_step + 1, sub_now_cyc |-> r.sub_now_cyc,
                     now_cyc |-> r.now_cyc, recharge_status |-> 0,
                     work_type |-> "REST",
                     run_status |-> IF row.working_status = "AA" THEN "PAUSE"
                                    ELSE r.run_status ],
        step_end |-> r.step_end ]

(* Mutant: a step is taken for ended.                                      *)
RecoveredEnded(row) ==
  LET r == row.copy
  IN  [ cursor |-> [ now_step |-> r.now_step, sub_now_cyc |-> r.sub_now_cyc,
                     now_cyc |-> r.now_cyc, recharge_status |-> 0,
                     work_type |-> "REST",
                     run_status |-> IF row.working_status = "AA" THEN "PAUSE"
                                    ELSE r.run_status ],
        step_end |-> row # NoRow ]

(* recovery_global: a run that is marked unfinished is paused; any other   *)
(* node gets the run_status that was copied.  All outputs are at rest      *)
(* before the control thread begins its scan.                              *)
Recovered(row) ==
  LET r == row.copy
  IN  [ cursor |-> [ now_step |-> r.now_step, sub_now_cyc |-> r.sub_now_cyc,
                     now_cyc |-> r.now_cyc, recharge_status |-> 0,
                     work_type |-> "REST",
                     run_status |-> IF row.working_status = "AA" THEN "PAUSE"
                                    ELSE r.run_status ],
        step_end |-> r.step_end ]

(* read_step_run_status and recover_stepcfg_fun.                           *)
RecoveredSteps(p, rows) == [p EXCEPT !.step = rows.step, !.step_num = rows.step_num]

RecoveredCfg(p, row) ==
  [p EXCEPT !.cyc = row.cyc, !.divcap_end_step = row.divcap_end_step,
            !.recharge_start_step = row.recharge_start_step]

(* The power fails and returns; nothing but the database is left, which    *)
(* gives every field of the program.                                       *)
PowerCycle ==
  /\ left.crashes > 0
  /\ left' = [left EXCEPT !.crashes = @ - 1]
  /\ prog' = RecoveredCfg(RecoveredSteps(prog, disk.steps), disk.cfg)
  /\ cursor' = Recovered(disk.row).cursor
  /\ step_end' = Recovered(disk.row).step_end
  /\ working_status' = disk.row.working_status
  /\ copy' = NoCopy
  /\ srv' = "none" /\ due' = {} /\ saver' = "idle"
  /\ UNCHANGED <<disk, done>>

Next ==
  \/ Server \/ ServerWrites \/ Control \/ SaveThread \/ PowerCycle

(* The threads go on; that a running step ends at last is assumed here.    *)
Fairness == WF_vars(Control) /\ WF_vars(ServerWrites)

Spec == Init /\ [][Next]_vars /\ Fairness
-----------------------------------------------------------------------------
(* A position as it is copied, the marks of a run, and the three tables.   *)
Position ==
  [ now_step: 0..MaxStep-1, sub_now_cyc: Byte, now_cyc: Byte,
    run_status: RunStatus, step_end: BOOLEAN ]

Marks == {"none", "AA", "A0", "A1"}

Tables ==
  [ steps: [step: [0..MaxStep-1 -> NodeStep], step_num: 0..MaxStep],
    cfg: [cyc: Word, divcap_end_step: Byte, recharge_start_step: Byte],
    row: [working_status: Marks, copy: Position] ]

(* Every variable has its type.                                            *)
TypeOK ==
  /\ prog \in NodeProgram /\ cursor \in Cursor /\ step_end \in BOOLEAN
  /\ working_status \in Marks /\ copy \in Position
  /\ srv \in {"none", "delete", "steps", "cfg"} /\ due \subseteq {"delete", "steps"}
  /\ saver \in {"idle", "sub_now_cyc", "now_step", "now_cyc", "store"}
  /\ disk \in Tables
  /\ left \in [scene: Scenes, runs: Nat, crashes: Nat]
  /\ left.runs <= scene.runs /\ left.crashes <= scene.crashes
  /\ done \subseteq 0..MaxStep-1

(* The host gives a node its program, starts it, resumes it and stops it.  *)
Undisturbed == scene.commands \subseteq {"start", "resume", "stop"}

(* No power failure, wherever it strikes, makes the first run of a node    *)
(* that is left alone skip a step: every step before the cursor has ended  *)
(* in this run.                                                            *)
NothingSkipped ==
  Undisturbed /\ status \in {"RUNNING", "PAUSE"} => \A s \in 0..cursor.now_step-1 : s \in done

(* A node that has completed, and is not started again, is complete in the *)
(* end, or stopped by the host, at whatever moment after that the power    *)
(* fails once more, if it was never paused: its row says enough to reach   *)
(* the same end again.  (The row of a node that completes without having   *)
(* copied anything since the last failure says nothing.)                   *)
StoppedByHost == status = "IDLE" /\ working_status = "A1"

CompletionLasts ==
  Undisturbed /\ status = "COMP" /\ left.crashes <= 1 /\ disk.row.copy # NoCopy
    ~> [](status = "COMP" \/ StoppedByHost)

(* The program of a node survives a power failure at any moment when no    *)
(* command about it is in hand, however the broadcasts and the commands    *)
(* to the node alone followed upon each other; only the number of passes,  *)
(* which new steps set to 0 in memory, is the one in the database again.   *)
ProgramSurvives ==
  [][PowerCycle /\ srv = "none" /\ "steps" \notin due
       => prog' = [prog EXCEPT !.cyc = IF @ = 0 THEN disk.cfg.cyc ELSE @]]_vars

(* A node that was stopped with all others leaves no record of its run     *)
(* behind once all work on the database is done, if the power has not      *)
(* failed meanwhile ("deletes the running data and the running status of   *)
(* the node", sqlite_opera.c:1425).  (The row of a node stopped alone is   *)
(* deleted by another thread than the one that may be storing it.)         *)
Quiet == srv = "none" /\ due = {} /\ saver = "idle"

StoppedIsForgotten ==
  "stop" \notin scene.commands /\ StoppedByHost /\ Quiet
    /\ left.crashes = scene.crashes => disk.row = NoRow

(* A run that was interrupted comes back paused (sys_logic_control.c:219,  *)
(* "if the steps were not completed last time, paused after a restart").   *)
UnfinishedPauses ==
  [][PowerCycle /\ status = "RUNNING" => status' = "PAUSE"]_vars

(* So does one that was paused and resumed before, if its mark has reached *)
(* the database (sqlite_opera.c:1172, the same words).                     *)
ResumedPauses ==
  [][PowerCycle /\ status = "RUNNING" /\ disk.row.working_status = "A1"
       => status' = "PAUSE"]_vars

(* A node that has completed is not running after a power failure          *)
(* (sys_logic_control.h:122, 0xA0: the steps are complete).                *)
CompleteStays ==
  [][PowerCycle /\ status = "COMP" => status' = "COMP"]_vars

(* Nor does a node that is marked complete ever charge or discharge again  *)
(* unless it is started (the same words).                                  *)
CompleteRests == working_status = "A0" => cursor.work_type = "REST"

(* A node that was configured and not started since has nothing to resume  *)
(* (sys_logic_control.h:122, 0: no steps have been started).               *)
ConfiguredIsFresh ==
  [][PowerCycle /\ working_status = "none" => status' = "IDLE"]_vars

(* A step of the recharge section runs as one, so that the recharge        *)
(* capacity ends it (sys_logic_control.c:1187, "is the current step a      *)
(* recharge step").                                                        *)
RechargeResumes ==
  status = "RUNNING" /\ prog.recharge_start_step \notin {0, 255}
    /\ cursor.now_step >= prog.recharge_start_step - 1
    /\ cursor.now_step >= prog.divcap_end_step - 1
    => cursor.recharge_status = 1
=============================================================================
