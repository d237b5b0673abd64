---------------------------- MODULE NodeControl ----------------------------
(***************************************************************************)
(* The nodes of one module under all the threads that change them: the     *)
(* control thread, which scans them every 50 ms, the server thread, which  *)
(* carries out the commands of the host, the LCD thread with its manual    *)
(* charge and discharge buttons, and the CAN thread, which reports faults  *)
(* and the state of the link.  They share bst.node[] without any lock.     *)
(*                                                                         *)
(* Every test of run_status and every assignment to it is an action of its *)
(* own, and so is every assignment to work_type in a start or a switch;    *)
(* what a thread does to other fields in between goes with one of them.    *)
(* The compound assignments of a completion are a load and a store.  A     *)
(* broadcast of the host is a command to each node in turn.                *)
(* What only the display reads (node_status, set values, measurements) is  *)
(* left out; the conditions that end a step are StepPolls.                 *)
(***************************************************************************)
EXTENDS StepProgram, FiniteSets

CONSTANTS
  MaxNode,      \* nodes scanned by the control thread
  Programs,     \* the programs a host may send
  Commands,     \* the commands a host may send
  Panel,        \* TRUE if somebody uses the buttons of the node page
  Settle,       \* seconds after a (re)start without fault and end tests: 10
  Hold          \* seconds an ended step is held for the host to read: 4

AllCommands ==
  {"start", "stop", "pause", "resume", "cfg", "global",
   "divcap", "disable", "enable"}

ASSUME NodeControlAssumption ==
  /\ MaxNode \in Nat \ {0}
  /\ \A p \in Programs : p \in NodeProgram /\ p.step_num >= 1
  /\ Commands \subseteq AllCommands
  /\ Panel \in BOOLEAN
  /\ Settle \in Nat
  /\ Hold \in Nat

Node == 0..MaxNode-1

VARIABLES
  prog,            \* bst.node[n], the configured part
  cursor,          \* bst.node[n], position, output and run_status
  step_end,        \* bst.node[n].step_end
  working_status,  \* save_real_data[n].working_status, 0xAA, 0xA0, 0xA1 or 0
  err,             \* NODE_ERR_BIT of bst.node[n].info
  err_cnt,         \* bst.node[n].err_cnt: fault seen in the previous reading
  link,            \* bst.module_info[].link_status is MODULE_LINK_ON
  start_age,       \* seconds since time_tmp_1, counted up to Settle
  end_age,         \* seconds since end_time, counted up to Hold + 1
  ctl,             \* control thread: program counter, node scanned, locals
  srv,             \* server thread: command whose test has passed, or none
  lcd              \* LCD thread: node page, opera_flag, button pressed

nodeVars == <<prog, cursor, step_end, working_status, err, start_age, end_age>>
envVars  == <<err_cnt, link>>
vars     == <<nodeVars, envVars, ctl, srv, lcd>>

status(n) == cursor[n].run_status
output(n) == cursor[n].work_type
typeOf(n) == TypeAt(prog[n], cursor[n].now_step)

SetStatus(n, s) == cursor' = [cursor EXCEPT ![n].run_status = s]
SetOutput(n, o) == cursor' = [cursor EXCEPT ![n].work_type = o]

(* A node nobody has configured, and the program memory of one that is     *)
(* being configured: memset makes every type 0, which is none.             *)
Blank == [type |-> "CYCL", jump_step |-> 0, sub_cyc |-> 0]
NoProgram ==
  [ step_num |-> 0, cyc |-> 0, divcap_end_step |-> 0,
    recharge_start_step |-> 0, step |-> [s \in 0..MaxStep-1 |-> Blank] ]

AtRest ==
  [ now_step |-> 0, sub_now_cyc |-> 0, now_cyc |-> 0, recharge_status |-> 0,
    work_type |-> "REST", run_status |-> "IDLE" ]

(* What node_start_init and para_init have in common: the position goes    *)
(* back to the first step of the first pass, the output stays as it is.    *)
Rewound(c, s) ==
  [ now_step |-> 0, sub_now_cyc |-> 0, now_cyc |-> 0,
    recharge_status |-> c.recharge_status, work_type |-> c.work_type,
    run_status |-> s ]

(* The control thread at pc for node n, its locals not in use: the step    *)
(* number and type it has read (num, temp), and the run_status it has      *)
(* loaded to change one bit of it.                                         *)
Scan(pc, n) ==
  [pc |-> pc, at |-> n, num |-> 0, type |-> "CYCL", status |-> "IDLE"]

(* Power-up with the programs found in the database and no run to resume,  *)
(* after the control thread has put every node to rest.                    *)
Init ==
  /\ prog \in [Node -> Programs \cup {NoProgram}]
  /\ cursor = [n \in Node |-> AtRest]
  /\ step_end = [n \in Node |-> FALSE]
  /\ working_status = [n \in Node |-> "none"]
  /\ err = [n \in Node |-> FALSE]
  /\ err_cnt = [n \in Node |-> 0]
  /\ link = FALSE
  /\ start_age = [n \in Node |-> Settle]
  /\ end_age = [n \in Node |-> Hold + 1]
  /\ ctl = Scan("start", 0)
  /\ srv = [cmd |-> "none", node |-> 0]
  /\ lcd = [open |-> FALSE, node |-> 0, flag |-> 0, press |-> "none"]
-----------------------------------------------------------------------------
(* The control thread: first start, poll and halt for each node in turn,   *)
(* then the step switch for each node.                                     *)
Goto(pc) == ctl' = [ctl EXCEPT !.pc = pc]

GotoNextNode(this, then) ==
  ctl' = IF ctl.at < MaxNode - 1 THEN Scan(this, ctl.at + 1) ELSE Scan(then, 0)

AfterHalt == GotoNextNode("start", "next")

(* Mutant: the last node is left out.                                      *)
AfterSwitchButLast ==
  ctl' = IF ctl.at < MaxNode - 2 THEN Scan("next", ctl.at + 1)
         ELSE Scan("start", 0)

AfterSwitch == GotoNextNode("next", "start")

At(pc, n) == ctl.pc = pc /\ ctl.at = n

(* node_start, its test ...                                                *)
SeeStart(n) ==
  /\ At("start", n)
  /\ Goto(IF status(n) = "START" THEN "starting" ELSE "poll")
  /\ UNCHANGED <<nodeVars, envVars, srv, lcd>>

(* ... the preparation: a node whose last run is marked unfinished is      *)
(* paused at its place, any other begins anew; the step under the cursor   *)
(* is read ...                                                             *)
StartNode(n) ==
  /\ At("starting", n)
  /\ IF prog[n].step_num < 1
     THEN /\ SetStatus(n, "IDLE")
          /\ Goto("poll")
          /\ UNCHANGED <<step_end, working_status, err, start_age>>
     ELSE LET fresh == working_status[n] # "AA"
              c == IF fresh THEN Rewound(cursor[n], status(n))
                   ELSE [cursor[n] EXCEPT !.run_status = "PAUSE"]
              type == TypeAt(prog[n], c.now_step)
          IN  /\ cursor' = [cursor EXCEPT ![n] = c]
              /\ step_end' = [step_end EXCEPT ![n] = @ /\ ~fresh]
              /\ err' = [err EXCEPT ![n] = @ /\ ~fresh]
              /\ working_status' = [working_status EXCEPT ![n] = "AA"]
              /\ start_age' = [start_age EXCEPT ![n] = 0]
              /\ ctl' = IF type \in Runnable
                        THEN [ctl EXCEPT !.pc = "running",
                                         !.num = c.now_step, !.type = type]
                        ELSE Scan("poll", n)
  /\ UNCHANGED <<prog, end_age, envVars, srv, lcd>>

(* ... and if that step can run, the node runs ...                         *)
RunStep(n) ==
  /\ At("running", n)
  /\ Goto("driving")
  /\ SetStatus(n, "RUNNING")
  /\ UNCHANGED <<prog, step_end, working_status, err, start_age, end_age,
                 envVars, srv, lcd>>

(* ... and its output follows.                                             *)
DriveStep(n) ==
  /\ At("driving", n)
  /\ ctl' = Scan("poll", n)
  /\ cursor' = [cursor EXCEPT
       ![n].work_type = OutputOf(ctl.type),
       ![n].recharge_status = RechargeAt(prog[n], ctl.num, @)]
  /\ UNCHANGED <<prog, step_end, working_status, err, start_age, end_age,
                 envVars, srv, lcd>>

(* The test before sys_run_status_poll.                                    *)
SeeRunning(n) ==
  /\ At("poll", n)
  /\ Goto(IF status(n) = "RUNNING" THEN "polling" ELSE "halt")
  /\ UNCHANGED <<nodeVars, envVars, srv, lcd>>

(* Mutant: the fault bit is not tested.                                    *)
PollStepBlind(n, early, timeout, met) ==
  LET type == typeOf(n)
      settled == start_age[n] >= Settle
  IN  /\ early => type = "HCV"
      /\ step_end' = [step_end EXCEPT ![n] =
           CASE type \in Charging \cup {"DCV"} ->
                  early \/ timeout \/ (settled /\ met)
             [] type = "REST" -> timeout
             [] OTHER -> FALSE]
      /\ end_age' = IF type \in Charging \cup {"DCV"} /\ ~early
                    THEN [end_age EXCEPT ![n] = 0] ELSE end_age

(* sys_run_status_poll of a running step.  early: the HCV step meets its   *)
(* full voltage with a falling current; timeout: cond3, or a charging node *)
(* is not enabled; met: any other end or protection condition.             *)
PollStep(n, early, timeout, met) ==
  LET type == typeOf(n)
      settled == start_age[n] >= Settle
  IN  /\ early => type = "HCV"
      /\ step_end' = [step_end EXCEPT ![n] =
           CASE type \in Charging ->
                  early \/ timeout \/ (settled /\ (err[n] \/ met))
             [] type = "DCV"  -> timeout \/ (settled /\ met)
             [] type = "REST" -> timeout
             [] OTHER -> FALSE]
      /\ end_age' = IF type \in Charging \cup {"DCV"} /\ ~early
                    THEN [end_age EXCEPT ![n] = 0] ELSE end_age

Poll(n) ==
  /\ At("polling", n)
  /\ Goto("halt")
  /\ IF ~step_end[n]
     THEN \E early, timeout, met \in BOOLEAN : PollStep(n, early, timeout, met)
     ELSE UNCHANGED <<step_end, end_age>>
  /\ UNCHANGED <<prog, cursor, working_status, err, start_age, envVars, srv, lcd>>

(* Mutant: a stop is seen only while the step has not ended.               *)
SeeStopUnended(n) ==
  /\ At("halt", n)
  /\ Goto(IF status(n) = "STOP" /\ ~step_end[n] THEN "stopping" ELSE "pausing")
  /\ UNCHANGED <<nodeVars, envVars, srv, lcd>>

(* A node to be stopped is put to rest and marked stopped ...              *)
SeeStop(n) ==
  /\ At("halt", n)
  /\ Goto(IF status(n) = "STOP" THEN "stopping" ELSE "pausing")
  /\ UNCHANGED <<nodeVars, envVars, srv, lcd>>

(* Mutant: the output is left on.                                          *)
StopNodeOn(n) ==
  /\ At("stopping", n)
  /\ Goto("pausing")
  /\ SetStatus(n, "IDLE")
  /\ working_status' = [working_status EXCEPT ![n] = "A1"]
  /\ UNCHANGED <<prog, step_end, err, start_age, end_age, envVars, srv, lcd>>

StopNode(n) ==
  /\ At("stopping", n)
  /\ Goto("pausing")
  /\ cursor' = [cursor EXCEPT ![n].run_status = "IDLE", ![n].work_type = "REST"]
  /\ working_status' = [working_status EXCEPT ![n] = "A1"]
  /\ UNCHANGED <<prog, step_end, err, start_age, end_age, envVars, srv, lcd>>

(* ... and a paused one rests.                                             *)
RestPaused(n) ==
  /\ At("pausing", n)
  /\ AfterHalt
  /\ IF status(n) = "PAUSE"
     THEN /\ SetOutput(n, "REST")
          /\ working_status' = [working_status EXCEPT ![n] = "A1"]
     ELSE UNCHANGED <<cursor, working_status>>
  /\ UNCHANGED <<prog, step_end, err, start_age, end_age, envVars, srv, lcd>>

(* Mutant: the next step follows at once.                                  *)
SeeStepEndAtOnce(n) ==
  /\ At("next", n)
  /\ IF step_end[n] /\ status(n) = "RUNNING"
     THEN Goto("switching") ELSE AfterSwitch
  /\ UNCHANGED <<nodeVars, envVars, srv, lcd>>

SeeStepEnd(n) ==
  /\ At("next", n)
  /\ IF step_end[n] /\ status(n) = "RUNNING" /\ end_age[n] > Hold
     THEN Goto("switching") ELSE AfterSwitch
  /\ UNCHANGED <<nodeVars, envVars, srv, lcd>>

(* next_step_handle: the cursor moves ...                                  *)
MoveCursor(n) ==
  /\ At("switching", n)
  /\ cursor' = [cursor EXCEPT ![n] = Moved(prog[n], @)]
  /\ ctl' = [ctl EXCEPT !.pc = "entering", !.type = NextType(prog[n], cursor[n])]
  /\ start_age' = [start_age EXCEPT ![n] = 0]
  /\ UNCHANGED <<prog, step_end, working_status, err, end_age, envVars, srv, lcd>>

(* ... the output follows; after the last step the node completes:         *)
EnterStep(n) ==
  /\ At("entering", n)
  /\ ctl' = Scan(IF ctl.type = "CEND" THEN "completing" ELSE "resetting", n)
  /\ SetOutput(n, Enter(ctl.type, err[n], output(n)))
  /\ UNCHANGED <<prog, step_end, working_status, err, start_age, end_age,
                 envVars, srv, lcd>>

Complete(n) ==
  /\ At("completing", n)
  /\ Goto("clear")
  /\ SetStatus(n, "COMP")
  /\ UNCHANGED <<prog, step_end, working_status, err, start_age, end_age,
                 envVars, srv, lcd>>

(* run_status without NODE_RUN_BIT, and with NODE_CMP_BIT: the values the  *)
(* bits make of SYS_IDLE, 0, to SYS_DISABLE, 7.                            *)
WithoutRunBit(s) ==
  CASE s = "STOP"   -> "IDLE"   [] s = "RUNNING" -> "START"
    [] s = "PAUSE"  -> "COMP"   [] s = "DISABLE" -> "DIVCAP"
    [] OTHER        -> s

WithCmpBit(s) ==
  CASE s = "IDLE"   -> "COMP"   [] s = "START"   -> "DIVCAP"
    [] s = "STOP"   -> "PAUSE"  [] s = "RUNNING" -> "DISABLE"
    [] OTHER        -> s

(* Each of the two assignments loads the status ...                        *)
LoadStatus(n) ==
  /\ \/ At("clear", n) /\ ctl' = [ctl EXCEPT !.pc = "clearing", !.status = status(n)]
     \/ At("set", n)   /\ ctl' = [ctl EXCEPT !.pc = "setting",  !.status = status(n)]
  /\ UNCHANGED <<nodeVars, envVars, srv, lcd>>

(* ... and stores it with one bit changed.                                 *)
StoreStatus(n) ==
  /\ \/ /\ At("clearing", n)
        /\ SetStatus(n, WithoutRunBit(ctl.status))
        /\ ctl' = Scan("set", n)
     \/ /\ At("setting", n)
        /\ SetStatus(n, WithCmpBit(ctl.status))
        /\ ctl' = Scan("marking", n)
  /\ UNCHANGED <<prog, step_end, working_status, err, start_age, end_age,
                 envVars, srv, lcd>>

(* Mutant: the run is marked stopped.                                      *)
MarkStopped(n) ==
  /\ At("marking", n)
  /\ Goto("resetting")
  /\ working_status' = [working_status EXCEPT ![n] = "A1"]
  /\ UNCHANGED <<prog, cursor, step_end, err, start_age, end_age, envVars, srv, lcd>>

MarkComplete(n) ==
  /\ At("marking", n)
  /\ Goto("resetting")
  /\ working_status' = [working_status EXCEPT ![n] = "A0"]
  /\ UNCHANGED <<prog, cursor, step_end, err, start_age, end_age, envVars, srv, lcd>>

(* Mutant: step_end is not reset.                                          *)
ResetEndNever(n) ==
  /\ At("resetting", n)
  /\ AfterSwitch
  /\ UNCHANGED <<nodeVars, envVars, srv, lcd>>

(* A node that still runs after its step switch polls its new step.        *)
ResetEnd(n) ==
  /\ At("resetting", n)
  /\ AfterSwitch
  /\ step_end' = [step_end EXCEPT ![n] = @ /\ status(n) # "RUNNING"]
  /\ UNCHANGED <<prog, cursor, working_status, err, start_age, end_age,
                 envVars, srv, lcd>>

ControlNode(n) ==
  \/ SeeStart(n) \/ StartNode(n) \/ RunStep(n) \/ DriveStep(n)
  \/ SeeRunning(n) \/ Poll(n)
  \/ SeeStop(n) \/ StopNode(n) \/ RestPaused(n)
  \/ SeeStepEnd(n) \/ MoveCursor(n) \/ EnterStep(n)
  \/ Complete(n) \/ LoadStatus(n) \/ StoreStatus(n) \/ MarkComplete(n)
  \/ ResetEnd(n)

Control == \E n \in Node : ControlNode(n)
-----------------------------------------------------------------------------
(* The server thread: a command passes its test, then it is carried out.   *)
(* read_stage_state shows a running step only of a node that is on line    *)
(* and free of faults.                                                     *)
ShowsRunningStep(n) ==
  link /\ ~err[n] /\ status(n) = "RUNNING" /\ typeOf(n) \in Runnable

Accepted(cmd, n) ==
  CASE cmd = "start"  -> status(n) \in {"IDLE", "COMP", "DIVCAP", "PAUSE"}
    [] cmd = "stop"   -> status(n) \in {"RUNNING", "PAUSE"}
    [] cmd = "pause"  -> ShowsRunningStep(n)
    [] cmd = "resume" -> status(n) = "PAUSE"
    [] cmd \in {"cfg", "global"} -> status(n) # "RUNNING"
    [] OTHER -> TRUE

Accept(cmd, n) ==
  /\ srv.cmd = "none"
  /\ Accepted(cmd, n)
  /\ srv' = [cmd |-> cmd, node |-> n]
  /\ start_age' = IF cmd = "start" /\ status(n) = "PAUSE"
                  THEN [start_age EXCEPT ![n] = 0] ELSE start_age
  /\ UNCHANGED <<prog, cursor, step_end, working_status, err, end_age,
                 envVars, ctl, lcd>>

StatusOf(cmd) ==
  CASE cmd = "start"  -> "START"  [] cmd = "stop"    -> "STOP"
    [] cmd = "pause"  -> "PAUSE"  [] cmd = "resume"  -> "RUNNING"
    [] cmd = "divcap" -> "DIVCAP" [] cmd = "disable" -> "DISABLE"
    [] cmd = "enable" -> "IDLE"

SetsStatus == {"start", "stop", "pause", "resume", "divcap", "disable", "enable"}

Done == srv' = [cmd |-> "none", node |-> 0]

(* The commands that only assign run_status; ctr_len_decode and            *)
(* node_enable_decode do so whatever the node is doing.                    *)
ChangeStatus(n) ==
  /\ srv.cmd \in SetsStatus /\ srv.node = n
  /\ Done
  /\ SetStatus(n, StatusOf(srv.cmd))
  /\ start_age' = IF srv.cmd = "resume" THEN [start_age EXCEPT ![n] = 0]
                  ELSE start_age
  /\ UNCHANGED <<prog, step_end, working_status, err, end_age, envVars, ctl, lcd>>

(* Mutant: para_init does not reset the position and the run status.       *)
ClearStepsOnly(n) ==
  /\ srv.cmd = "cfg" /\ srv.node = n
  /\ srv' = [srv EXCEPT !.cmd = "fill"]
  /\ \E p \in Programs :
       prog' = [prog EXCEPT ![n] = [NoProgram EXCEPT
                  !.step_num = p.step_num,
                  !.divcap_end_step = prog[n].divcap_end_step,
                  !.recharge_start_step = prog[n].recharge_start_step]]
  /\ UNCHANGED <<cursor, step_end, working_status, err, start_age, end_age,
                 envVars, ctl, lcd>>

(* cfg_step_decode up to and including para_init ...                       *)
ClearProgram(n) ==
  /\ srv.cmd = "cfg" /\ srv.node = n
  /\ srv' = [srv EXCEPT !.cmd = "fill"]
  /\ \E p \in Programs :
       prog' = [prog EXCEPT ![n] = [NoProgram EXCEPT
                  !.step_num = p.step_num,
                  !.divcap_end_step = prog[n].divcap_end_step,
                  !.recharge_start_step = prog[n].recharge_start_step]]
  /\ cursor' = [cursor EXCEPT ![n] = Rewound(@, "IDLE")]
  /\ step_end' = [step_end EXCEPT ![n] = FALSE]
  /\ working_status' = [working_status EXCEPT ![n] = "none"]
  /\ UNCHANGED <<err, start_age, end_age, envVars, ctl, lcd>>

(* ... and the loop that stores the steps; for a broadcast, working_status *)
(* is cleared once more.                                                   *)
FillProgram(n) ==
  /\ srv.cmd = "fill" /\ srv.node = n
  /\ Done
  /\ \/ UNCHANGED working_status
     \/ working_status' = [working_status EXCEPT ![n] = "none"]
  /\ \E p \in Programs :
       /\ p.step_num = prog[n].step_num
       /\ prog' = [prog EXCEPT ![n].step = p.step]
  /\ start_age' = [start_age EXCEPT ![n] = Settle]
  /\ UNCHANGED <<cursor, step_end, err, end_age, envVars, ctl, lcd>>

(* set_step_global_decode.                                                 *)
SetGlobal(n) ==
  /\ srv.cmd = "global" /\ srv.node = n
  /\ Done
  /\ \E p \in Programs :
       prog' = [prog EXCEPT ![n].cyc = p.cyc,
                            ![n].divcap_end_step = p.divcap_end_step,
                            ![n].recharge_start_step = p.recharge_start_step]
  /\ UNCHANGED <<cursor, step_end, working_status, err, start_age, end_age,
                 envVars, ctl, lcd>>

CarryOut(n) == ChangeStatus(n) \/ ClearProgram(n) \/ FillProgram(n) \/ SetGlobal(n)

Server ==
  \/ \E cmd \in Commands, n \in Node : Accept(cmd, n)
  \/ \E n \in Node : CarryOut(n)
-----------------------------------------------------------------------------
(* The LCD thread: the page of one node and its buttons.                   *)
Manual == <<"CHARGE", "DISCHARGE">>

OpenPage(n) ==
  /\ Panel /\ ~lcd.open
  /\ lcd' = [open |-> TRUE, node |-> n, flag |-> 0, press |-> "none"]
  /\ UNCHANGED <<nodeVars, envVars, ctl, srv>>

(* opera_flag is set even if the node runs and the button is refused.      *)
PressManual(k) ==
  /\ lcd.open /\ lcd.press = "none"
  /\ lcd' = [open |-> TRUE, node |-> lcd.node, flag |-> k,
             press |-> IF status(lcd.node) = "RUNNING" THEN "none" ELSE Manual[k]]
  /\ UNCHANGED <<nodeVars, envVars, ctl, srv>>

DriveManually ==
  /\ lcd.press # "none"
  /\ SetOutput(lcd.node, lcd.press)
  /\ lcd' = [lcd EXCEPT !.press = "none"]
  /\ UNCHANGED <<prog, step_end, working_status, err, start_age, end_age,
                 envVars, ctl, srv>>

PressBack ==
  /\ lcd.open /\ lcd.press = "none"
  /\ IF lcd.flag # 0 THEN SetOutput(lcd.node, "REST") ELSE UNCHANGED cursor
  /\ lcd' = [open |-> FALSE, node |-> lcd.node, flag |-> 0, press |-> "none"]
  /\ UNCHANGED <<prog, step_end, working_status, err, start_age, end_age,
                 envVars, ctl, srv>>

PressClearFault ==
  /\ lcd.open /\ lcd.press = "none" /\ err[lcd.node]
  /\ err' = [err EXCEPT ![lcd.node] = FALSE]
  /\ UNCHANGED <<prog, cursor, step_end, working_status, start_age, end_age,
                 envVars, ctl, srv, lcd>>

LcdPanel ==
  \/ \E n \in Node : OpenPage(n)
  \/ \E k \in {1, 2} : PressManual(k)
  \/ DriveManually \/ PressBack \/ PressClearFault
-----------------------------------------------------------------------------
(* The CAN thread: read_all_module_status marks a node on the second       *)
(* reading in a row that shows a fault; it reads while any node runs.      *)
ReadModuleStatus ==
  /\ link /\ \E n \in Node : status(n) = "RUNNING"
  /\ \E faulty \in SUBSET Node :
       /\ err' = [n \in Node |-> err[n] \/ (n \in faulty /\ err_cnt[n] >= 1)]
       /\ err_cnt' = [n \in Node |-> IF n \in faulty THEN 1 ELSE 0]
  /\ UNCHANGED <<prog, cursor, step_end, working_status, start_age, end_age,
                 link, ctl, srv, lcd>>

(* read_all_battery_v finds the module or has lost it (CanLink).           *)
LinkChanges ==
  /\ link' = ~link
  /\ UNCHANGED <<nodeVars, err_cnt, ctl, srv, lcd>>

(* A second passes.                                                        *)
Older(age, most) == [n \in Node |-> IF age[n] < most THEN age[n] + 1 ELSE most]

Tick ==
  /\ start_age' = Older(start_age, Settle)
  /\ end_age' = Older(end_age, Hold + 1)
  /\ UNCHANGED <<prog, cursor, step_end, working_status, err, envVars, ctl, srv, lcd>>

Next == Control \/ Server \/ LcdPanel \/ ReadModuleStatus \/ LinkChanges \/ Tick

(* Every thread runs: the control thread sleeps 50 ms between its scans,   *)
(* the server and LCD threads finish what they began, and time goes on.    *)
(* The host, the operator and the module owe nothing.                      *)
Fairness ==
  /\ WF_vars(Control)
  /\ WF_vars(\E n \in Node : CarryOut(n))
  /\ WF_vars(DriveManually)
  /\ WF_vars(Tick)

Spec == Init /\ [][Next]_vars /\ Fairness
-----------------------------------------------------------------------------
(* Where the control thread is in the completion of a run: before run_status *)
(* is SYS_COMP, and from there until the run is marked.                    *)
CompletionStored == {"clear", "clearing", "set", "setting", "marking"}
Completion == CompletionStored \cup {"completing"}

ControlState ==
  [ pc: {"start", "starting", "running", "driving", "poll", "polling", "halt",
         "stopping", "pausing", "next", "switching", "entering", "resetting"}
        \cup Completion,
    at: Node, num: 0..MaxStep-1, type: StepTypes, status: RunStatus ]

(* Every variable has its type; the cursor stays inside step[].            *)
TypeOK ==
  /\ prog \in [Node -> NodeProgram]
  /\ cursor \in [Node -> Cursor]
  /\ step_end \in [Node -> BOOLEAN]
  /\ working_status \in [Node -> {"none", "AA", "A0", "A1"}]
  /\ err \in [Node -> BOOLEAN]
  /\ err_cnt \in [Node -> {0, 1}]
  /\ link \in BOOLEAN
  /\ start_age \in [Node -> 0..Settle]
  /\ end_age \in [Node -> 0..Hold+1]
  /\ ctl \in ControlState
  /\ srv \in [cmd: AllCommands \cup {"none", "fill"}, node: Node]
  /\ lcd \in [open: BOOLEAN, node: Node, flag: 0..2,
              press: {"none", "CHARGE", "DISCHARGE"}]

(* The operator has pressed charge or discharge on the open page of n.     *)
Manually(n) == lcd.open /\ lcd.node = n /\ lcd.flag # 0

(* The states in which the control thread answers for the output.          *)
Answering == {"RUNNING", "START", "PAUSE", "STOP"}

(* Output is on only while somebody answers for it: the control thread     *)
(* (the node runs, or is about to be started, paused or stopped), or the   *)
(* operator, who switched it on and has the node's page open.  Any other   *)
(* node, idle, complete or disabled, never draws or feeds current.         *)
OutputSupervised ==
  \A n \in Node : output(n) # "REST" =>
    \/ status(n) \in Answering
    \/ Manually(n)

(* Why OutputSupervised holds when the host only starts, stops, pauses and *)
(* resumes.  Held: whatever the server thread does meanwhile, the control  *)
(* thread switches an output on only under a status that answers for it,   *)
(* and completes only a node at rest.  Configured: a node without a        *)
(* program is never driven.                                                *)
SafeCommands == {"start", "stop", "pause", "resume"}

Held ==
  /\ srv.cmd \in SafeCommands \cup {"none"}
  /\ ctl.pc \in {"driving", "switching", "entering"} => status(ctl.at) \in Answering
  /\ ctl.pc \in Completion => output(ctl.at) = "REST" \/ Manually(ctl.at)
  /\ lcd.press # "none" => lcd.open /\ lcd.flag # 0

Configured ==
  /\ \A n \in Node : prog[n].step_num = 0 =>
       /\ status(n) \in {"IDLE", "START"}
       /\ output(n) # "REST" => Manually(n)
  /\ ctl.pc \in {"running", "driving", "switching", "entering"} \cup Completion =>
       prog[ctl.at].step_num # 0
  /\ srv.cmd \in {"stop", "pause", "resume"} => prog[srv.node].step_num # 0

SupervisionInv == TypeOK /\ Held /\ Configured /\ OutputSupervised

(* A running step drives the module as its type says, or not at all,       *)
(* unless the operator has pressed the other button: no interleaving of    *)
(* the host's commands makes a charge step discharge the battery.  Only in *)
(* a start or a switch is the output of the step before on a little longer *)
(* (sys_logic_control.c:233 to 234, 1199 to 1292).                         *)
RunningOutputMatches ==
  \A n \in Node :
    status(n) = "RUNNING" /\ typeOf(n) \in Runnable
        /\ ~At("driving", n) /\ ~At("entering", n)
      => output(n) \in {"REST", OutputOf(typeOf(n))} \/ Manually(n)

(* A running node is inside its program, so that the display, the server   *)
(* and the next step see a step the host sent.                             *)
CursorInProgram ==
  \A n \in Node : status(n) = "RUNNING" => cursor[n].now_step < prog[n].step_num

(* A complete node is at rest unless its operator drives it by hand, and   *)
(* once its completion is through it is not marked unfinished, whatever    *)
(* command raced with its last step: after a reboot it is not taken for an *)
(* unfinished run (sys_logic_control.h:122).  Only a new program can take  *)
(* the mark of completion away.                                            *)
CompleteIsMarked ==
  \A n \in Node : status(n) = "COMP" =>
    /\ output(n) = "REST" \/ Manually(n)
    /\ \/ ctl.pc \in CompletionStored /\ ctl.at = n
       \/ working_status[n] = "A0"
       \/ working_status[n] = "none" /\ "cfg" \in Commands

(* A complete node is marked complete (sys_logic_control.h:122, 0xA0).     *)
CompleteHasMark ==
  \A n \in Node : status(n) = "COMP" => working_status[n] = "A0"

(* A stop command takes effect: the node leaves SYS_STOP and its output    *)
(* goes off, even if its last step ends meanwhile (sys_logic_control.c:    *)
(* 1649, "on a stop the work type must be set to rest"), unless it comes   *)
(* in the middle of a start, between lines 219 and 233, or the operator    *)
(* drives the node by hand.                                                *)
StopRests ==
  \A n \in Node :
    (status(n) = "STOP" /\ ~At("running", n))
      ~> (status(n) # "STOP" /\ (output(n) = "REST" \/ Manually(n)))

(* A stop command takes effect whenever it is accepted (server.c:1292,     *)
(* "must be stopped").                                                     *)
StopTakesEffect ==
  \A n \in Node : status(n) = "STOP" ~> status(n) # "STOP" /\ output(n) = "REST"

(* A start command takes effect (server.c:1314, "enters the start phase"): *)
(* the node runs, unless it has no program or is stopped or paused first.  *)
StartTakesEffect ==
  \A n \in Node :
    status(n) = "START" ~> status(n) \in {"RUNNING", "IDLE", "STOP", "PAUSE"}

(* A node that is no longer to run has its output switched off: idle and   *)
(* disabled nodes (server.c:905 and 909, "must be stopped") do not stay on.*)
IdleRests ==
  \A n \in Node : status(n) \in {"IDLE", "DISABLE"} ~> output(n) = "REST"

(* A fault reported while a node charges ends the charging, without help   *)
(* of the host, unless the operator charges it by hand or the host starts  *)
(* it again, which gives it another Settle seconds.                        *)
FaultEndsCharge ==
  \A n \in Node :
    (err[n] /\ output(n) = "CHARGE")
      ~> (output(n) = "REST" \/ ~err[n] \/ Manually(n) \/ status(n) = "START")

(* A fault ends a discharge step as it ends a charge step: in the poll     *)
(* that sees it, once the step has settled (sys_logic_control.c:1106,      *)
(* a step not ended by then is taken to have "no fault").                  *)
FaultEndsDischarge ==
  [][\A n \in Node :
       /\ Poll(n) /\ ~step_end[n] /\ typeOf(n) = "DCV"
       /\ err[n] /\ start_age[n] >= Settle
       => step_end'[n]]_vars

(* A node resumed from a pause works again (server.c:1330, "resume"): its  *)
(* running charge step charges unless a fault forbids it.                  *)
ResumedCharges ==
  \A n \in Node :
    status(n) = "RUNNING" /\ typeOf(n) \in Charging /\ ~step_end[n]
      => output(n) = "CHARGE" \/ err[n]

(* The mark of an unfinished run is on every node that runs                *)
(* (sys_logic_control.h:122, 0xAA: the steps are not complete).            *)
RunningIsMarked ==
  \A n \in Node : status(n) = "RUNNING" => working_status[n] = "AA"

(* Starting a node whose last run is unfinished leaves it paused           *)
(* (sys_logic_control.c:219, "paused after a restart").                    *)
UnfinishedStartsPaused ==
  [][\A n \in Node : RunStep(n) => status(n) # "PAUSE"]_vars

(* A button refused because the node runs leaves the node's output alone   *)
(* (lcd_ui.c:726, "the device is running, no charge or discharge test").   *)
PanelLeavesRunningAlone ==
  [][\A n \in Node : PressBack /\ status(n) = "RUNNING"
        => output(n)' = output(n)]_vars
-----------------------------------------------------------------------------
(* An assumption on the battery and the program: a step that is polled     *)
(* again and again meets one of its end conditions at last.                *)
StepsEnd ==
  \A n \in Node : SF_vars(Poll(n) /\ step_end'[n])

EndingSpec == Spec /\ StepsEnd

(* A running node completes, whatever faults and link changes occur,       *)
(* unless the host stops or pauses it.                                     *)
RunsToCompletion ==
  \A n \in Node : status(n) = "RUNNING" ~> status(n) \in {"COMP", "STOP", "PAUSE"}
=============================================================================
