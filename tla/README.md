# Battery formation controller: TLA+ development

The program (`src/sqlite_test/sqlite/`) runs on the control board of a battery
formation and grading cabinet. A host computer sends every *node* (battery
channel) a *step program* (charge, discharge, rest, loops) over UDP, starts,
pauses and stops it; the board drives power modules over CAN, measures, decides
when a step has ended, records the run in an SQLite database so that it
survives a power failure, and shows everything on a serial LCD with buttons.
All threads work on one global array, `bst.node[]`, without locks.

This directory holds TLA+ modules of the parts that decide what a battery is
exposed to, the TLC runs on small instances, and theorems for every value of the
constants. Paths below are relative to `src/sqlite_test/sqlite/`.

## 1. Inventory

| Component | State | Operations | Interacts through | Hard behaviour | Must hold |
|---|---|---|---|---|---|
| Step sequencer (`next_step_handle`, `node_start`, `sys_logic_control.c`) | `now_step`, `sub_now_cyc`, `now_cyc`, `recharge_status`, `work_type` | go to the next step, close a sub-loop, start another pass, complete | called by the control thread | u8 counters against u16 limits, one counter for all loops, end mark behind the program | carries out the program it was given; indices stay in `step[]` |
| Control thread (`sys_logic_control_pthread_task`) | `run_status`, `step_end`, `end_time`, `save_real_data[].working_status` | start, poll, pause, stop, switch steps, every 50 ms, node after node | writes `bst.node[]` with the other threads | test and assignment are separate | no output without supervision; commands take effect; steps are not skipped |
| End and protection conditions (`sys_run_status_poll`) | `node_status`, `v_tmp`, `time_tmp`, record snapshot | twenty-odd poll functions in a fixed order with early returns | reads measurements, sets `step_end` | unsigned arithmetic, values left by earlier steps, order | an unsafe reading ends the step; a sound charge goes on; the reason is true |
| Server thread (`server.c`) | program of a node, `run_status`, `sock_fd`, `net_status`, shared reply buffer | wait for a frame, test it, twenty commands; count timeouts | UDP, `bst.node[]`, database, semaphores of the save thread, the socket the LCD thread replaces | races with control, save and LCD thread; host goes and comes; lost replies | see control thread and records; what was answered is kept; silence is noticed; it hears on the port confirmed |
| Operator pages (`lcd_ui.c`) | page variables, `opera_flag`, `sys_cfg` | twelve pages of keys, values, refreshing polls; manual charge, network and limit settings, restart | commands to the screen, `work_type` of a node, database, socket | keys of a page no longer shown; button race with a start | a manual output is ended; pages stay inside their arrays; what is confirmed is saved |
| LCD link (`lcd.c`, `uart.c`) | ring buffer, one-frame mailbox, two semaphores, `Current_page` | receive, search for frames, hand over; transactions with three tries | UART; receiver and LCD thread | lost bytes, overrun, replaced frame, answers that say nothing of their request, a restart the screen does not make | only whole frames are processed; the receiver finds back; both sides agree on the page at last |
| CAN thread and receiver (`evc.c`, `can.c`, `sys_sem.c`) | request outstanding, receive buffer, semaphore, cache of sent commands, link state | set current, voltage, start/stop, read current, voltage, status | CAN frames | lost and late frames, retries, semaphores left over, stale cache | a success is a delivery; modules come to do what they must; links recover |
| Save thread and database (`sys_logic_control.c`, `sqlite_opera.c`) | record of the run, row of the node, two tables of the program | copy every 10 s, store, delete, recover | semaphores, one database handle | power failure between two steps, record copied field by field, deletion against storing | no step is skipped; completed runs stay complete; stopped runs are forgotten; the program sent last is the one recovered |
| Time thread | run times, capacities | tick | `bst.node[]` | wall clock | not modelled beyond the passing of time |
| Offline history, network state (`net_off_save_data`, history commands) | history table, `net_status`, reply buffer | notice that the host is away, store every minute, query, read a range, delete | database, UDP, semaphores of the save thread | writing against reading, a lost reply, slots left over in the reply | no row vanishes on its way, no gaps, silence is recorded |
| Database and settings (`sqlite_opera.c`, `sys_cfg.c`, `main.c`) | the file, one global handle, `sys_cfg` | make the tables, load or insert the settings, two updates, transactions | server, LCD, save and control thread, each in its own time | one handle for all threads; tables, openings and loading that fail | settings are the row or the defaults; storing one half leaves the other |
| GPIO, lamps, debug, legacy database and ini files | | straight-line | | | not modelled |

`PROJECT.json` lists every component with its status and every hazard at its line.

## 2. Modules and how they correspond to the code

| Module | Models | State and actions |
|---|---|---|
| `StepBasics` | the types of a step and the widths of its fields that the cursor and the poll both use | operators only |
| `StepProgram` | the program of a node and the arithmetic of `next_step_handle` (1141-1309) | operators only: `ClosesLoop`, `Repeats`, `LastPass`, `RechargeAt`, `Moved` (the position), `NextType`, `Enter` (the output), `NextStep` (all of one call) |
| `StepSequencer` | one undisturbed run | `FinishStep` is one call of `next_step_handle` |
| `StepPlan` | **abstract specification**: the fixed sequence of steps a program with disjoint loops stands for | `MakeStep` |
| `StepTrace` | `StepSequencer` with the steps made, refined to `StepPlan` (`INSTANCE StepPlan WITH complete <- ...`) | |
| `NodeControl` | all threads on `bst.node[]` | control thread, with a program counter `ctl`: `node_start` is `SeeStart`, `StartNode`, `RunStep`, `DriveStep`; `SeeRunning`, `Poll`; `SeeStop`, `StopNode`, `RestPaused`; `SeeStepEnd`, then `next_step_handle` as `MoveCursor`, `EnterStep` and, behind the last step, `Complete`, `LoadStatus`, `StoreStatus`, `MarkComplete`; `ResetEnd`. Server thread: `Accept` (test) and `ChangeStatus`, `ClearProgram`, `FillProgram`, `SetGlobal` (act); LCD: `OpenPage`, `PressManual`, `DriveManually`, `PressBack`, `PressClearFault`; CAN: `ReadModuleStatus`, `LinkChanges`; `Tick` |
| `NodeHistory` | `NodeControl` with the step that ended last | a history variable, for properties of the step switch |
| `StepPolls` | `sys_run_status_poll` and every poll function with its limits | `Poll` takes one reading through all conditions in the order of the calls; `BeginStep` keeps what the code does not reset; `ShowStage` is `read_stage_state` |
| `CanLink` | CAN thread, receiver thread, bus and modules | `Scan`, `Send`, `Woken`, `TimedOut`, `Done`, `Failed`; `Receive`, `Test`; `Serve`, `Lose` (external); `Want` |
| `RunRecords` | what survives a power failure: program and record of a node | `Start`, `Pause`, ..., `Configure`, `SetGlobal`, `ServerWrites`; `EndStep`, `SwitchStep`, `HaltStop`, `HaltPause`; `BeginSave`, `CopyField`, `StoreRow`, `SaveDue`; `PowerCycle` |
| `HistoryStore` | the history kept while the host is away | server thread: `Frame`, `Timeout` (silence), `StopOne`, `StopAll`, `ServerDeletes`, `OtherCommand`, `QueryHistory`, `ReadHistory`, `read_hisdata_fun` per node, `Answer` or `LoseAnswer`; save thread: `BeginHistory`, `TestNode`, `InsertRow`, `DeleteDue`; `Alarm`; `Change` (other threads) |
| `LcdChannel` | **abstract specification** of the receiver of the LCD: of the frames sent some are passed on, whole and in order, through one buffer and two semaphores | `Send`, `Lose`, `PassAck`, `Announce`, `Store`, `Consume` |
| `LcdReceiver` | both LCD threads at the level of bytes (`lcd.c` 200-421, `dgus_crc16`, the reads of `uart.c`) | `Send`, `LoseByte` (external); receiver: `Read`, `PollEnds`, `PollSkipsByte`, `PollFindsAck`, `PollFindsFrame`, `StoreFrame`, `PollWaits`; LCD thread: `Wake`, `Empty`, `Process`, `Refresh`; implements `LcdChannel` (`ImplementsChannel`) |
| `OperatorPages` | the pages of `lcd_ui.c` | operators on `ui`, `sys_cfg` and the list `todo` of transactions a handler makes: `Button1` ... `Button15`, `VChange`, `Poll0` ... `Poll10`, `Confirm`, `PageInit`, `Leave` |
| `LcdPanel` | the LCD thread with `OperatorPages` above and `LcdChannel` below it, and the screen | `Wake`, `Empty`, `ui_process`, `update_page`, `Request`, `Acknowledged`, `RegisterRead`, `PageRead`, `TimedOut`; `Receiver`; `Serve`, `Press`, `TypeValue`, `EditFields`, `LoseRequest`, `LoseFrame` (external); `Restart` |
| `Database` | the file and the one handle `db`, the settings, power-up (`sqlite_opera.c`, `sys_cfg.c`, `main.c`) | operators, one per statement: `open_sqlite_db`, `start_commit`, `Change`, `stop_commit`, `close_sqlite_db`; `PowerUp` with each way it may fail |
| `HostServer` | the server thread: socket, frames, every handler; with the save, control and LCD thread as far as they share database and socket | a handler is the sequence of the steps it makes (`cfg_step_decode` ... `recvice_server_decode`); `work[t]` is what thread `t` has still to do: `Opens`, `UseDatabase`, `SetMemory`, `udp_send`, `PostSem`, `SetStatus`, `socket`, `setsockopt`, `bind`; `recvfrom`, `TimedOut`, `Receive`; `SaveThread`, `Complete`, `Confirm`; `PowerOff`, `Misuse`, `PowerOn` |
| `MC...` | instances for TLC | small programs, steps and readings |
| `...Proofs` | theorems | section 5 |

`NodeControl`, `StepSequencer` and `RunRecords` share `StepProgram`; the
conditions that end a step are a free choice in `NodeControl` (`early`,
`timeout`, `met`) and are worked out in `StepPolls`; the link state is free in
`NodeControl` and worked out in `CanLink`; `work_type` is `Want` in `CanLink`;
`running` in `HistoryStore` changes as freely as `NodeControl` allows.
`LcdPanel` takes the receiver as `LcdChannel` promises it, and `LcdReceiver` is
shown to keep that promise. A transaction, one action in `RunRecords`, is a
sequence of steps in `HostServer`, where what matters of an item is only which
command set it; the page's `Confirm` is its fields in `LcdPanel`, and its
database and socket work in `HostServer`.

In `NodeControl` every test of `run_status` and every assignment to it is an action
of its own, and so is every assignment to `work_type` in a start or a switch, since
another thread may act in between. A start stores `SYS_PAUSE` (`sys_logic_control.c:219`)
before `SYS_RUNNING` (233) before the output; a switch stores the cursor (1199) before
the output (1235, 1265). A completion stores `SYS_COMP` (1293), takes `NODE_RUN_BIT` away
(1294), sets `NODE_CMP_BIT` (1295) and marks the run (1296). The two compound
assignments are a load and a store each, so a command between them is lost, and one
before them has its bits changed: a stop becomes a pause, a start or a disable the
capacity state, a resume disables the node, and a node just configured is complete again
(`WithoutRunBit`, `WithCmpBit`). In `RunRecords`, whose subject is the power failure, a
test and its assignment are one action. Time is seconds since the two
timestamps that matter, saturated at the limit they are compared with
(`Settle`, `Hold`). Definitions beside an original, marked "Mutant", are the
same definition with a plausible mistake; every property is refuted when one of
them takes the place of the original, and no specification uses them.

## 3. Runs

| Run | Instance | Shows |
|---|---|---|
| `seq_plan` | all programs of 1 to 3 steps in 3 slots, every jump, 0 to 2 repetitions, 1 or 2 passes, that are `Plain` | `ImplementsPlan`: exactly the plan, in order, to the end; `MainCyclesBounded`, `TypeOK` |
| `nc_core` | one node; start, stop, pause, resume; the manual page; faults; link | `OutputSupervised`, `RunningOutputMatches`, `StopRests` (of every stop that does not fall into the middle of a start), `FaultEndsCharge` |
| `nc_all` | one node; all nine commands; two programs of different length sent again and again, also in the middle of a completion | `CompleteIsMarked`, `CursorInProgram` |
| `nc_steps` | two nodes in one scan, started again and again | `EndValuesHeld`, `NoStepSkipped`, `RunsToCompletion` |
| `poll` | six steps (CV with all conditions, HCV, recharge, two discharges, rest) in any sequence, 6 voltages x 6 currents x 3 times around the limits, capacities beyond 16 bits, faults, a disabled node | `UnsafeEnds`, `RegulatedGoesOn`, `EndReasonTrue` |
| `can` | two modules and one fault, a lost frame or a late answer; or one module (the other not plugged in) and four lost frames; link given up at the second miss | `CacheTrue`, `OneFaultAbsorbed`, `OutputReachesModule`, `LinkComesBack` |
| `rec` | three scenes: the first run of a node with stops and two power failures anywhere; two runs with pauses, resumes, a stop of all nodes, charges that end by a fault, one power failure; two different programs and their settings sent over each other, a stop of all, one power failure | `NothingSkipped`, `StoppedIsForgotten`, `CompletionLasts`, `ProgramSurvives`, `TypeOK` |
| `hist` | three nodes of which two run, three rows in all, requests for up to two nodes, one lost reply | `NothingLost`, `OldestFirst`, `StatusTrue`, `SilenceIsRecorded` |
| `lcd_rx` | frames of 7, 10 and 11 bytes in any order and any pieces, a ring buffer of 32, one lost byte | `WholeFramesOnly`, `FindsBack`, `ImplementsChannel`, `TypeOK` |
| `panel` | eight scenes: five that visit all pages over a perfect line with a patient operator; three on the way to the network settings, with a key pressed too early and a restart, with a late answer, a loss and a restart, with a key too early and a late answer | `PageFound`, `SavedAsTyped`, `TypeOK` |
| `host` | two nodes, eight scenes: every command with its addresses inside, beyond and for all; settings with two confirmations and a restart; with two failures at power-up; programs, configurations and capacities with a restart; failed openings; runs, their records and their end; history kept | `AnsweredIsKept`, `SettingsKept`, `HearsNewPort`, `SilenceNoticed`, `TypeOK` |
| `host_cross` | the same, one node that completes while the runs are recorded | `TransactionsEnd` is refuted |

### Bounds, and why they are enough

- `MaxStep` 2 or 3 instead of 10 slots: one step per role (before, inside and
  behind a loop; the slot behind the program). The arithmetic compares
  neighbours only; for indices the theorems take over.
- One or two nodes: nodes meet only in the scan of the control thread and in the
  reading of the module status; two show both. The theorems hold for any number.
- `Settle` and `Hold` of 0 or 1 second instead of 10 and 4: what is told apart is
  "before the limit" and "after it", and threads may be arbitrarily slow in between.
  `Hold` 0 lets a switch follow at once, which only adds to the races.
- `poll`: limits are linear comparisons, so values at and beside each are enough;
  two times on both sides of a table entry; `UnsafeEnds` is proved for all values.
- `can`: two losses in a row are what one transaction with one retry cannot
  survive, four make the link be given up and strike again on its way back.
  `OffLimit` 0 instead of 10 makes that cheap.
- `hist`: `Copies` 1 instead of 10, since each row is a transaction of its own and
  the ten rows of a minute carry the same measurement; `NetLimit` 0 instead of 30
  seconds: told apart is "before the limit" and "after it"; `MaxSum` 2 instead of
  31: a request for one node, for both, and one that is refused; two rows of one
  node and one of the other give every order and a newer row behind an older one.
- `rec`: power failures strike between any two actions; two show a failure in a
  run that has been recovered already. The scenes divide what belongs together,
  each exhausted on its own.
- `lcd_rx`: `RingSize` 32 instead of 2048: more than the two frames that must be
  told apart, less than three; `ErrLimit` 1 instead of 5. One lost byte suffices for
  every confusion: a missing header, a command byte in the place of the length, a
  wrong check sum. `MaxAhead` 1 lets a frame arrive while another is processed.
- `panel`: `Rows`, `ValueRows`, `PerModulePage` give every paging at least two pages;
  program lengths 0 and 6 fill none and more than one page of steps; two limit values
  show refused and accepted ones; `MaxWire` 2 is one more than the LCD thread waits for.
- `host`: two nodes show a command to one, some and all; a second command shows what
  becomes of the first; `QUIET` 1 instead of 30 timeouts. `MaxValue` covers the
  largest command number.

No run uses symmetry or a state constraint. Deadlock checking is off in `rec`, where
an idle node with no more starts allowed really has nothing to do, in `panel`, where
the operator may be done, and in `host` and `host_cross`, where the process may have
ended.

### Fairness

- `NodeControl`: the control thread sleeps 50 ms between scans and never blocks
  (`sys_logic_control.c:1636`), so `WF(Control)`; the server and LCD threads finish
  what they have begun; time passes. Host, operator and module owe nothing.
  `RunsToCompletion` also needs `StepsEnd`: a step that is polled again and again
  meets an end condition at last, an assumption on the battery and the program,
  not on the code.
- `CanLink`: both threads run, a module serves what reaches it, and the number of
  lost or late frames is finite; the loop of `evc_pthread_task` never stops.
- `RunRecords`: the control thread and the server's write go on.
- `HistoryStore`: seconds pass, the alarm rings every minute, the save thread goes
  on, the server finishes a deletion or a reply it has begun. The host owes nothing.
- `LcdReceiver`, `LcdPanel`: both threads run (their loops sleep or wait at most 100 ms),
  the screen answers what reaches it. The operator owes nothing: `FindsBack` and
  `PageFound` say what follows if he goes on.
- `HostServer`: each thread goes on with the function it is in, the server thread comes
  back to its socket and a second passes (`SO_RCVTIMEO`). Neither host, operator nor
  power owe anything.
- `StepSequencer`: a step that can end does.

## 4. Disagreements between code and comments

One is a run of this project (`host_cross`, with a finding in `PROJECT.json`):

- **A transaction is lost when two threads meet in the database.** All threads open the
  one global handle `db` (`sqlite_opera.c:1493`). When a node completes
  (`sys_logic_control.c:1298`) while the save thread has a transaction open, the
  second open replaces the handle; the COMMIT goes to the new connection and the old
  transaction keeps its lock: nothing can be stored until the program is restarted.

The definitions below are in the modules too, under the names given; TLC refutes
each under the constants named. They are statements the code does not keep, so no
passing run or theorem uses them.

| Definition | What happens | Where | Constants |
|---|---|---|---|
| `MainCyclesMade` | a program shorter than `MAX_STEP` is followed by an end mark, which counts as its last pass: `cyc` is ignored | `sys_logic_control.c:1206` | `MCStepSequencer`, `MaxStep` 3, 2 steps, `Cycs` {2} |
| `Completes` | more than 255 passes never end (u16 against u8); a loop of 255 rounds never ends; a loop inside a loop never ends (one counter) | 1206, 1168, 1172 | `MCStepSequencer`: `Cycs` {300}; `LongLoop`; `Jumps` {0, 1} with 3 steps |
| `RechargeIsCurrent` | the first step of the second pass keeps the recharge mark | 1188 | `MCStepSequencer`, `OneSection`, `MaxStep` 3, 3 steps, `Cycs` {2} |
| `StopRests` with new programs | a new program sent right after a stop swallows it: `cfg_step_decode` refuses a *running* node only, a node in `SYS_STOP` becomes idle with its output on, against the comment at `sys_logic_control.c:1649` | `server.c:391` | `MCNodeControl`, `ChargeRest`, start, stop, cfg |
| `StopTakesEffect` | a stop accepted while a start of an unfinished run shows `SYS_PAUSE` is overwritten by `SYS_RUNNING`, and the node runs on | 219, 233, `server.c:1290` | those of `nc_core` |
| `StartTakesEffect` | a start carried out within a completion is made `SYS_COMP` or `SYS_DIVCAP` by the two bits, and is lost | 1293-1295 | those of `nc_core` |
| `CompleteHasMark` | a node is `SYS_COMP` before it is marked; a configuration carried out in between clears the mark after it was set, and the node stays complete without one | 1293-1296, `server.c:440` | those of `nc_all` |
| `IdleRests` | disabling a running node leaves its output on | `server.c:905` | `MCNodeControl`, start and disable |
| `ResumedCharges`, `RunningIsMarked` | a resumed step has no output and no mark | `server.c:1332` | start, pause, resume |
| `UnfinishedStartsPaused` | `SYS_PAUSE` is overwritten by `SYS_RUNNING` | `sys_logic_control.c:233` | start, pause |
| `PanelLeavesRunningAlone` | a refused button sets `opera_flag`; back rests the running node | `lcd_ui.c:716` | start, `Panel` TRUE |
| `FaultEndsDischarge` | a fault in a discharge step only changes the display | 1089 | `ChargeDischarge`, start |
| `EndValuesHeld` with HCV steps | `end_time` is not set when a full HCV step returns early | 979 | `MCNodeHistory`, `HcvRest` |
| `NoStepSkipped` with pauses | pause, start and resume between test and switch put another step under the cursor | 1670 | `MCNodeHistory`, start, pause, resume |
| `RegulatedGoesOn` below 500 mA | `i < set_i - 500` is unsigned | 492 | `MCStepPolls`, `SmallCurrent`, `LowReadings` |
| `RegulatedGoesOn` with a voltage below 3.1 V | `time - time_tmp` of an earlier step underflows | 632 | `TwoCharges`, `FlatReadings` |
| `DeadBatteryEnds` | the ten minutes below 2 V are tested only while the voltage is unchanged | 527 | `TwoCharges`, `DeadReadings` |
| `EndIsRecorded` | the record of a capacity end is copied before its reason is set | 696 | `FullByCapacity`, `SomeReadings` |
| `StopReachesModule` | a start that is carried out but whose two answers are lost is never undone: the cache of sent commands still says "stop", against the comment at `evc.c:441` | `evc.c:488` | `MCCanLink`, one module, `OneAlone` |
| `LevelReachesModule` | a step with the same output keeps the old current and voltage | `evc.c:488` | `MCCanLink`, `Levels` {1, 2}, a budget without faults |
| `VoltageIsOwn` | the buffer is read after the frame was checked | `evc.c:166` | two modules, a budget of one delay |
| `UnfinishedPauses` | a run just started is idle after a power failure | `sys_logic_control.c:223` | `MCRunRecords`, a scene with one power failure |
| `ResumedPauses` | a run that was paused and resumed runs on by itself | `sqlite_opera.c:1171` | start, pause, resume |
| `CompleteStays`, `CompleteRests` | a complete node is running after a power failure, and charges if its last charge ended by a fault | `sys_logic_control.c:1296`, 1015 | a scene with `faultEnds`, `RestCharge` |
| `ConfiguredIsFresh` | a new program is resumed at the position of the old run | `server.c:410` | start, pause, cfg |
| `StoppedIsForgotten` with the stop of one node | the server thread deletes the row while the save thread stands between its test and its write, which inserts it again | `server.c:1295` | `MCRunRecords`, two runs, start and stop |
| `NothingSkipped` in a second run | a new start leaves the row of the run before in the database; a power failure before the next save resumes there, as running | `sys_logic_control.c:205`, `sqlite_opera.c:1153` | `MCRunRecords`, `FirstRun` with 2 runs |
| `RechargeResumes` | `recharge_status` is not restored | `sqlite_opera.c:1132` | `Recharge`, start, resume |
| `OwnHistory` | rows are stored under the number + 1 and read by the number: the host receives the neighbour's history; the rows of the last node cannot be read, since the range is refused (`server.c:1069`) | `sqlite_opera.c:1570` | `MCHistoryStore` |
| `UploadedOnce` | a node without rows shows the row an earlier reply left in the shared send buffer | `server.c:1080` | `MCHistoryStore` |
| `LossLosesNothing` | a row is deleted before its reply is sent; a lost reply takes it away | `sqlite_opera.c:1870` | `MCHistoryStore` |
| `StopKeepsOthers` | the stop of one node deletes the history of all | `sqlite_opera.c:1449` | `MCHistoryStore` |
| `IntactFramesKept` | the polls that find an unfinished frame are counted over all frames and never reset by a complete one; the seventh throws away a frame that is just arriving | `lcd.c:307` | `MCLcdReceiver`, `MaxNoise` 0, `ErrLimit` 5 |
| `ConfirmTakesFields` | whatever frame comes next is taken for the fields of the page and saved as network settings: a second press of the key, or the late answer to an earlier request | `lcd.c:782` | `MCLcdPanel`, a scene with `Troubled(1, 0, 0, 0)` or `Troubled(0, 1, 0, 0)` |

`StopTakesEffect`, `StartTakesEffect` and `CompleteHasMark` are the claims that
`StopRests` and `CompleteIsMarked` make without their exceptions; the exceptions name the
very lines, and everything outside of them is shown. `StopRests` excepts a status stored
between lines 219 and 233, `CompleteIsMarked` the completion itself and, only where
programs are sent, the mark cleared by a new one.

Met while modelling `HostServer`, `Database` and `OperatorPages`, and in their actions
or exceptions rather than in a property of their own:

- A frame of 256 bytes or more keeps the server thread in the loops of the check sum
  and the debug print for good, since they count with a u8 (`server.c:89`, 1826);
  `SilenceNoticed` excepts it.
- The operator may replace the socket while the server is about to wait: a wait that
  begins between `socket` and `setsockopt` has no timeout (`server.c:226`-241). The old
  socket is never closed, so confirming an unchanged port cannot bind the new one and
  the server hears nothing until a restart; `HearsNewPort` excepts a port still taken.
- A broadcast is answered before anything is stored (`server.c:443`, 1567), and
  `save_step_mun` of a single node runs without a transaction (`server.c:501`);
  `AnsweredIsKept` speaks of commands to one node and of the settings.
- If the tables cannot be made *and* the settings cannot be loaded, the settings stay
  zero (`main.c:45` tests for 0 only); the comment at `sqlite_opera.c:42` promises to
  give up on either failure, the tests need both.
- `page9_init` clears ten steps of an array of five (`lcd_ui.c:1470`), and page 7 reads
  behind `module_info` for a configured number of modules above its size
  (`lcd_ui.c:1130`): outside of any model without memory layout.

Met in `StepPolls`: a module fault of a kind above 2 ends a charge without a reason of
its own (`sys_logic_control.c:1019`-1031 names three kinds), and so does a full HCV
step, which returns before the other polls (line 979); `EndReasonTrue` excepts both as
`Silent`.

Besides, a manual button pressed in the moment a node starts drives the running
node against its step until the page is left (`lcd_ui.c:719`);
`RunningOutputMatches` and `FaultEndsCharge` except a node whose operator has
pressed a button, and hold otherwise. With a lost frame *and* a late answer
`CacheTrue` fails as well; `can` shows that one fault alone does not suffice.

## 5. Theorems

All are checked by TLAPS; each `...Proofs` module extends the module it is about,
`StepProofs` the two about steps, `StepTrace` and `StepPolls`, whose definitions share
no name.
They assume what the modules state in their named `ASSUME`s: programs have their
type and at least one step (`server.c:391`-461 stores `step_num` only then), there
is at least one node, limits fit their width, every frame of the screen fits into
the ring buffer, no frame names `MAX_NODE` as its node (`bst.node[MAX_NODE]`, section 6),
the rows of a page divide the nodes, the operator's keys are keys of pages.
A hypothesis beyond that is in the table; each is needed, since
TLC refutes the property without it (section 4). Those of `HostServer` are part of the
property, and so are those of `SavedAsTyped`. The lemmas about the cursor arithmetic
(`NextStep` keeps the type of a cursor and changes only what its callers rely on) stand
in each of the three modules that need them.

| Module | Theorem | Says | Hypothesis |
|---|---|---|---|
| `StepProofs` | `TypeCorrect`, `PassesBounded`: `TypeOK`, `MainCyclesBounded` | every index stored lies in `step[]`; no pass too many | |
| | `PlanFollowed`: the steps of `ImplementsPlan` | exactly the steps of the plan, in its order, and completion with the last of them | the programs are `Plain` (below) |
| | `Protection`: `UnsafeEnds` | no early return and no order of conditions hides a protection | |
| | `Reasons`: `EndReasonTrue` | the reason shown for an end is one the reading bears out | |
| | `Regulated`: `RegulatedGoesOn`, below 3.1 V only with the step's own time (`OwnTime`) | nothing ends a charge in regulation | set currents of 500 mA or more |
| | `OwnTimeLasts` | the voltage need change only once for the time to be the step's own, and it stays so | |
| `NodeControlProofs` | `TypeCorrect`: `TypeOK` | all interleavings, all commands, any number of nodes | |
| | `Supervision`: `OutputSupervised` | no output without somebody who answers for it | start, stop, pause, resume only |
| | `OutputMatches`: `RunningOutputMatches` | outside a start and a switch, a running node is driven as its step says, rests, or is driven by the operator | no new programs |
| | `CursorStaysInProgram`: `CursorInProgram` | no race leaves a running node behind the end of its program, however often that is replaced | |
| | `CompleteRestsMarked`: `CompleteIsMarked` | a complete node rests unless driven by hand; once its completion is through it is marked complete or, only if programs are sent, not at all: never unfinished | |
| | `NoneSkipped`: `NoStepSkipped` | the step switch leaves the step that ended | start, stop only |
| | `ValuesHeld`: `EndValuesHeld` | the end values of a step stay readable for `Hold` | start, stop only; no HCV step |
| `CanLinkProofs` | `FaultAbsorbed`: `OneFaultAbsorbed` | one lost frame or late answer fails no request to a module that is there | |
| | `CacheIsTrue`: `CacheTrue` | nor does it make the cache of commands wrong | |
| `RunRecordsProofs` | `TypeCorrect`: `TypeOK` | memory and database keep their types whatever fails when | |
| | `ProgramKept`: `ProgramSurvives` | the program sent last is the one given back | |
| | `Forgotten`: `StoppedIsForgotten` | a stop of all nodes leaves no row, although the save thread may be writing it | |
| | `NoneSkippedByFailure`: `NothingSkipped` | no power failure makes a run skip a step | the first run of a node |
| `HistoryStoreProofs` | `TypeCorrect`, `Delivery`, `OldestIsFirst`: `TypeOK`, `NothingLost`, `OldestFirst` | no row of the offline history vanishes on its way or overtakes an older one | |
| | `StatusIsTrue`: `StatusTrue` | a node that was reported to have rows has them when it is read | |
| `LcdReceiverProofs` | `TypeCorrect`: `TypeOK` | one place of the ring buffer always stays free | |
| | `WholeFrames`: `WholeFramesOnly` | no mixture of two frames is processed | |
| | `PromiseKept`: `ImplementsChannel` | ring buffer, search and flag are a channel that stores a frame at most once, whole and in the order sent, or loses it | |
| `LcdPanelProofs` | `TypeCorrect`: `TypeOK` | whatever key, value or answer comes to whatever page, the pages' numbers stay in their tables and a command is there while its transaction runs | |
| | `SavesWhatIsTyped`: `SavedAsTyped` | whatever is lost and however often the program restarts, confirm saves the fields of the page | the operator waits, no answer is late |
| `HostServerProofs` | `TypeCorrect`: `TypeOK` | what every thread has still to do, memory, file, handle and socket keep their types | |
| | `AnswersKept`: `AnsweredIsKept` | what was answered is in the file | nothing failed, no two threads met in the database |
| | `SettingsStay`: `SettingsKept` | the settings in memory are a row or the defaults; and the row of the file | at most one fault at power-up; as above |
| | `NewPortHeard`: `HearsNewPort` | the server hears on the port confirmed | |

Each theorem is `Spec => []P` (for a property of steps, `Spec => P`; the two
refinements are `Spec => ImplementsChannel` and, without its liveness, that every
step of `TraceSpec` is a step of `StepPlan` or a stutter). Hardly any `P` is inductive.
What the invariants add, and why:

- `PlanInv` (`PlanFollowed`): the steps made and those `Ahead` of the cursor are the plan.
  What is ahead is the rest of the round and the later passes; inside a repeated section
  it is the rest of the section, the repetitions left, and then what follows the step
  that closes it (`ReplayRest`). `AheadStep` shows that one call of `next_step_handle`
  takes the first of these steps away, whatever it does with the cursor. The programs
  that are `Plain` are those whose meaning is not disputed (section 4): no end mark among
  the steps, no loop of 255 rounds, no two loops that share a step, 1 to 255 passes, and
  a single pass unless every slot is used. The run `seq_plan` uses the same definition.
- `SupervisionInv` (`OutputSupervised`): a thread acts on a test it made earlier. `Held`
  says what it may still rely on: only safe commands are under way, an output is
  switched on only under a status that answers for it, and only a node at rest is
  completed. `Configured`: a node without a program is never driven.
- `MatchInv` (`RunningOutputMatches`): the property speaks of running nodes, but a
  resume makes any paused node one, so the same is asked of every node (`Driven`),
  except the one whose output the control thread is about to set (`Between`). Before a
  start has made that node run nothing else can: it is `Waiting`, and no command to
  running or paused nodes is `Due` for it.
- `CursorInv` (`CursorInProgram`): a new program replaces the one under a node that
  stands still, so every cursor is `Inside`, and `NeverConfigured` keeps nodes without
  steps from starting. The control thread on its way through a start, a switch or a
  completion (`Stepping`), and the commands under way, refer to a program.
- `CompleteInv` (`CompleteIsMarked`): every node is `Marked`; the thread never starts,
  drives or switches a node that is complete, since only it makes nodes complete; and
  from the first store of a completion to the last the output rests, whatever commands
  do to the status meanwhile.
- `EndInv`, `HoldInv` (`NoStepSkipped`, `EndValuesHeld`): a node marked unfinished is
  running, stopped or on its way there (`Unfinished`), so that a start takes the step
  back only of a node at rest; `step_end` of a running node speaks of the step under the
  cursor (`EndKnown`); `Pending` and `Scanned` say what is left of each test, and of the
  status the control thread has loaded, when it is acted upon. `EndTimed`: `end_time`
  is no older than that end, so a switch finds it `HeldLong`.
- `ReasonInv` (`EndReasonTrue`): the status a running step shows turns into its reason
  when its time is over. `Going` says what that status can be; the lemmas follow one
  poll through its conditions from a status that is `Going` to one that is, or to a
  true reason (`Told`). `UnsafeEnds` is carried by the fact that each unsafe reading
  makes one of the reasons non-zero, whichever is met first.
- `RegulationInv` (`RegulatedGoesOn`): the voltage compared with the next reading is that
  of the last one, so `time - time_tmp` is the time it has been unchanged, if `time_tmp`
  is this step's.
- `AbsorbInv` (`OneFaultAbsorbed`) counts what is under way. An answer not yet taken is a
  frame on the bus, the frame in the buffer, or a post of the semaphore (`Taken`,
  `Load`). With no more than one fault at most one is left over (`OneLeftOver`), the
  newest frame of a module is of the request in hand (`NewestIsOwn`), and a post that
  misleads the thread is the last to do so (`MisledOnce`): the second attempt succeeds.
- `CacheInv` (`CacheTrue`): once what is on its way to a module is served, it does what the
  cache says, or, while a command is under way and not lost, what is commanded (`Settles`).
  That a command counted as failed was not carried out needs `AbsorbInv`: none fails.
- `SurvivalInv`, `ForgetInv` (`ProgramSurvives`, `StoppedIsForgotten`): what differs
  between memory and database is still due to some thread.
- `FollowInv` (`NothingSkipped`): every position that may be resumed, in memory, in the
  half-made copy and in the row, has only finished steps before it.
- `HistoryInv` (`NothingLost`, `OldestFirst`): a slot of the shared reply buffer whose row
  the host does not have yet has been filled by the present request, holds the first row
  of its own node and belongs to a reply that will be sent (`SlotsKnown`), and everything
  older of that node has been dealt with (`SlotsOldest`).
- `ReceiverInv` (`WholeFramesOnly`): what was copied is a frame or known to be torn, and only
  frames are about to be stored, never acknowledgements.
- `StoringHeld` (`PromiseKept`): a frame about to be stored still lies at the front of the
  ring buffer with all its bytes, although the search and the copy are steps of their
  own. The frames in transit are those whose first byte is still in the ring buffer or on
  the line (`FirstFrames`): taking bytes away from the front, or losing one, takes only
  their frames away.

- `PanelInv` (`SavedAsTyped`): whoever waits for each key is in one of three phases. What
  was pressed or typed last is on its way to its handler, alone but for
  acknowledgements (`OneKey`: in transit, in the buffer, copied); confirm is reading the
  page, and nothing but the answer to that request can come (`Reading`); or neither,
  so that no frame on its way can make the thread read a page (`Undisturbed`). A lost key
  ends the first phase, a restart any of them. A second invariant goes with it: network
  settings that are written to the page or to the screen are ones that were typed
  (`FieldsKept`). It rests on what each handler leaves to be sent (`ButtonHandled`,
  `VChangeHandled`, `PollHandled`): only the page of the network settings ever reads a
  page, and no refresh opens it. TLC checked `PanelInv` on the instance of `panel` first.
- `WorkOK` (`HostServer`): what a thread has still to do is a sequence of steps, and the
  properties are about where the threads are in theirs. `Shape` says of such a rest what
  every function of the code has: a use of the database has its close ahead with no open
  before that (`Closed`), two closes have an open between them (`Reopened`), a transaction
  has its end ahead (`Ended`), limits set in memory their writing (`StoredAfter`), a new
  socket its `bind` (`EndsBound`). It is shown of each
  handler and of the functions of the other threads, and kept when the first step is
  taken away.
- `HandleOK`: the four threads share one handle. As long as nothing has failed and no two
  have met in the database, at most one is between its open and its close, the handle is
  open then, and a transaction is open only for the thread that will commit it
  (`Orderly`); outside of it, what the handle sees is what the file has (`Settled`).
- `KeptOK` (`AnsweredIsKept`): an item about to be answered is in the file already
  (`Filed`), or its writing is still ahead of the answer, and it is in memory
  (`Current`) or its setting is ahead of that (`Ready`). So the answer finds it
  `Backed`: in memory, in the file and in what the handle sees. Memory matters because
  the next save writes what memory has.
- `FilledOK`, `RowOK` (`SettingsKept`): a setting is blank only after both the loading and
  a default have failed; memory and row differ only while a write is ahead. All
  conjuncts were checked by TLC on the instance of `host` before they were proved.

Both refinements are about sequences that are built recursively (`FlattenSeq`,
`FirstFrames`). What such a definition yields is shown by least counterexample: the
numbers for which it fails have a least one (`LeastElement`, from the library's
well-founded induction), and the step before it contradicts that (`Induction`).

Only model-checked: liveness (`StopRests`, `FaultEndsCharge`, `RunsToCompletion`,
`LinkComesBack`, `OutputReachesModule`, `CompletionLasts`, `SilenceIsRecorded`,
`FindsBack`, `PageFound`, `SilenceNoticed`), which is outside of the prover;
and that the plan is made to its end, which is the fairness of `ImplementsPlan`.
Every invariant and every property of steps that a run checks has its theorem.

## 6. Not modelled

Measurement arithmetic (capacities over wall-clock time), display values and texts, the
fields of replies, GPIO and lamps, the columns of the tables. The CAN requests for
lamps, status and version take the same transactions as those modelled; the group
commands of `evc.c` (612-1030) are commented out in the source. The legacy database and
ini files and the semaphore experiment are not part of the program, the SQLite headers
are vendored. `bst.node[MAX_NODE]`, which some tests of the node number admit
(`server.c:1428`), and the other accesses behind an array (section 4) lie outside any
model without memory layout. Page 8 of the LCD stores the limits confirmed there
(`lcd_ui.c:1231`-1244). The change is in `OperatorPages`, its storing is not among the
steps of the LCD thread in `HostServer`: it would make two writers of the limits, each
of which passes the settings to the update by value, before it opens the database, so
that the one that read first may write last. `AnsweredIsKept` and `SettingsKept` do not
speak of that race; it is listed as a hazard. `setsem_wait` is modelled by its two
outcomes. The modules and the bus are modelled from how `evc.c` uses them, the screen
from how `lcd.c` and `lcd_ui.c` do, SQLite as one file with a rollback journal and one
writer; the four channels of a module are one.

## 7. Plan

Done, in the order of what harms a battery first: `StepBasics`, `StepProgram`, `StepSequencer`,
`StepPlan`, `StepTrace`, `NodeControl`, `NodeHistory`, `StepPolls`, `CanLink`,
`RunRecords`, `HistoryStore`; then what the host and the operator rely on:
`LcdChannel`, `LcdReceiver`, `OperatorPages`, `LcdPanel`, `Database`, `HostServer`; and
the theorems above.

Next, in this order:

1. The measurements in `RunRecords` (`real_capacity` is stored in mAh and restored
   without its factor 3600, `sqlite_opera.c:1164`).
2. The limits of page 8 as a second writer in `HostServer`, with the copies both take.
3. A composition of `NodeControl` with `CanLink`: a stopped node's *module* is off.
