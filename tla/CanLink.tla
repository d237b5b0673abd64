------------------------------ MODULE CanLink ------------------------------
(***************************************************************************)
(* The CAN thread and its receiver thread against the power modules: one   *)
(* outstanding request at a time, two attempts of 50 ms, an answer that is *)
(* recognised by its command and module only, one buffer for the answers   *)
(* and one semaphore that tells of them; on top of it the cache of start   *)
(* and stop commands and the supervision of the links.                     *)
(*                                                                         *)
(* A module stands for its four channels: one wanted output, one level     *)
(* (the set values of voltage and current), one reading.  The commands for *)
(* the lamps, the status and the version take the same transactions and    *)
(* are left out.                                                           *)
(* Modules answer what they receive, but a frame may be lost or an answer  *)
(* come late; the bus keeps the order of the frames of a module.           *)
(***************************************************************************)
EXTENDS Integers, Sequences

CONSTANTS
  MaxModule,    \* MODULE_NUM
  Levels,       \* set values of the steps
  OffLimit,     \* misses in a row a link survives: 10
  Budgets       \* what may go wrong: bounds on the frames lost, on the
                \* timeouts while an answer is on its way, on both together;
                \* and which modules are there to answer

ASSUME CanLinkAssumption ==
  /\ MaxModule \in Nat \ {0} /\ OffLimit \in Nat
  /\ Levels # {}
  /\ \A b \in Budgets :
       b.losses \in Nat /\ b.delays \in Nat /\ b.both \in Nat
         /\ b.present \subseteq 1..MaxModule

Module  == 1..MaxModule
Outputs == {"CHARGE", "DISCHARGE", "REST"}
Setting == [output: Outputs, level: Levels]
Power   == [output: Outputs, set_i: Levels, set_v: Levels]

(* The commands: current, voltage and start/stop in node_finish_status_poll*)
(* then the readings of current and voltage.                               *)
Cmds == {"SETC", "SETV", "C_S_S", "RNC", "RNV"}

VARIABLES
  wanted,       \* work_type, set_v and set_i of the nodes
  remeder2,     \* the output last sent with success, or none
  link,         \* bst.module_info[]
  v,            \* bst.node[].v: the module it was read from, 0 if zeroed
  task,         \* CAN thread: program counter, command, module, the settings
                \* node_finish_status_poll has read, attempts left
  read_data,    \* the command and module of the request last written
  rx,           \* CAN_RxMessage, and whether the receiver has yet to test it
  can_rx_sem,   \* the semaphore
  requests,     \* frames on their way to a module
  answers,      \* frames on their way back
  module,       \* the module's own output and set values
  faults        \* losses and delays so far, and the budget

Spent   == faults.losses + faults.delays
Present == faults.budget.present

threads == <<wanted, remeder2, link, v, task, read_data>>
bus     == <<requests, answers, module>>
vars    == <<threads, rx, can_rx_sem, bus, faults>>

(* Mutant: no second attempt.                                              *)
BeginOnce(cmd, m) == [pc |-> "scan", cmd |-> cmd, at |-> m, want |-> wanted[m], left |-> 0]

Begin(cmd, m) == [pc |-> "scan", cmd |-> cmd, at |-> m, want |-> wanted[m], left |-> 1]

Init ==
  /\ wanted \in [Module -> Setting]
  /\ remeder2 = [m \in Module |-> "none"]
  /\ link = [m \in Module |-> [on |-> FALSE, off_cnt |-> 0]]
  /\ v = [m \in Module |-> 0]
  /\ task = Begin("SETC", 1)
  /\ read_data = [cmd |-> "none", at |-> 0]
  /\ rx = [cmd |-> "none", from |-> 0, new |-> FALSE]
  /\ can_rx_sem = 0
  /\ requests = [m \in Module |-> <<>>]
  /\ answers = [m \in Module |-> <<>>]
  /\ module \in [Module -> [output: {"REST"}, set_i: Levels, set_v: Levels]]
  /\ \E b \in Budgets : faults = [losses |-> 0, delays |-> 0, budget |-> b]
-----------------------------------------------------------------------------
(* The order of the CAN thread's loop: commands to all modules, then all   *)
(* currents, then all voltages.                                            *)
After(cmd, m) ==
  CASE cmd = "SETC" -> Begin("SETV", m)
    [] cmd = "SETV" -> Begin("C_S_S", m)
    [] cmd \notin {"SETC", "SETV"} /\ m < MaxModule ->
         Begin(IF cmd = "C_S_S" THEN "SETC" ELSE cmd, m + 1)
    [] OTHER -> Begin(CASE cmd = "C_S_S" -> "RNC" [] cmd = "RNC" -> "RNV"
                        [] cmd = "RNV" -> "SETC", 1)

Goto(pc) == task' = [task EXCEPT !.pc = pc]

(* node_finish_status_poll reads the wanted settings of a module once, for *)
(* all three commands.                                                     *)
Continue ==
  task' = [After(task.cmd, task.at) EXCEPT
             !.want = IF task.cmd \in {"SETC", "SETV"} THEN task.want ELSE @]

(* Commands go out if the output differs from the one last sent with       *)
(* success and the module is on line.                                      *)
comper2(m) == task.want.output # remeder2[m]
CommandsSkipped == ~comper2(task.at) \/ ~link[task.at].on

(* Currents are read of modules on line only, voltages of all.             *)
CurrentsSkipped == ~link[task.at].on

(* Mutant: nothing is asked of a module off line.                          *)
SkippedOffLine ==
  \/ task.cmd = "SETC" /\ CommandsSkipped
  \/ task.cmd \in {"RNC", "RNV"} /\ CurrentsSkipped

Skipped ==
  \/ task.cmd = "SETC" /\ CommandsSkipped
  \/ task.cmd = "RNC" /\ CurrentsSkipped

Scan ==
  /\ task.pc = "scan"
  /\ IF Skipped
     THEN task' = (IF task.cmd = "SETC" THEN After("C_S_S", task.at)
                   ELSE After("RNC", task.at))
     ELSE Goto("send")
  /\ UNCHANGED <<wanted, remeder2, link, v, read_data, rx, can_rx_sem, bus, faults>>

(* can_communit_send: write the frame ...                                  *)
Send ==
  /\ task.pc = "send"
  /\ Goto("wait")
  /\ read_data' = [cmd |-> task.cmd, at |-> task.at]
  /\ requests' = IF task.at \notin Present THEN requests
                 ELSE [requests EXCEPT ![task.at] =
                         Append(@, [cmd |-> task.cmd, want |-> task.want])]
  /\ UNCHANGED <<wanted, remeder2, link, v, rx, can_rx_sem, answers, module, faults>>

Matches == rx.cmd = read_data.cmd /\ rx.from = read_data.at

Retry ==
  task' = IF task.left > 0 THEN [task EXCEPT !.pc = "send", !.left = @ - 1]
          ELSE [task EXCEPT !.pc = "failed"]

(* Mutant: a false awakening counts as a failure.                          *)
WokenOnce ==
  /\ task.pc = "wait" /\ can_rx_sem > 0
  /\ can_rx_sem' = can_rx_sem - 1
  /\ Goto(IF Matches THEN "done" ELSE "failed")
  /\ UNCHANGED <<wanted, remeder2, link, v, read_data, rx, bus, faults>>

(* ... and wait for the semaphore; what woke the thread may be an answer   *)
(* to an earlier request.                                                  *)
Woken ==
  /\ task.pc = "wait" /\ can_rx_sem > 0
  /\ can_rx_sem' = can_rx_sem - 1
  /\ IF Matches THEN Goto("done") ELSE Retry
  /\ UNCHANGED <<wanted, remeder2, link, v, read_data, rx, bus, faults>>

OnItsWay(m) ==
  requests[m] # <<>> \/ answers[m] # <<>> \/ rx.new

TimedOut ==
  /\ task.pc = "wait" /\ can_rx_sem = 0
  /\ IF OnItsWay(task.at)
     THEN faults.delays < faults.budget.delays /\ Spent < faults.budget.both
          /\ faults' = [faults EXCEPT !.delays = @ + 1]
     ELSE UNCHANGED faults
  /\ Retry
  /\ UNCHANGED <<wanted, remeder2, link, v, read_data, rx, can_rx_sem, bus>>

(* Mutant: the first command answered is taken for all three.              *)
DoneEarly ==
  /\ task.pc = "done"
  /\ Continue
  /\ remeder2' = [remeder2 EXCEPT ![task.at] =
                    IF task.cmd = "SETC" THEN task.want.output ELSE @]
  /\ IF task.cmd = "RNV"
     THEN /\ link' = [link EXCEPT ![task.at] = [on |-> TRUE, off_cnt |-> 0]]
          /\ v' = [v EXCEPT ![task.at] = rx.from]
     ELSE UNCHANGED <<link, v>>
  /\ UNCHANGED <<wanted, read_data, rx, can_rx_sem, bus, faults>>

(* What the caller does with the result.  The results of SETC and SETV are *)
(* ignored; a voltage is taken from the buffer as it is by then.           *)
Done ==
  /\ task.pc = "done"
  /\ Continue
  /\ remeder2' = [remeder2 EXCEPT ![task.at] =
                    IF task.cmd = "C_S_S" THEN task.want.output ELSE @]
  /\ IF task.cmd = "RNV"
     THEN /\ link' = [link EXCEPT ![task.at] = [on |-> TRUE, off_cnt |-> 0]]
          /\ v' = [v EXCEPT ![task.at] = rx.from]
     ELSE UNCHANGED <<link, v>>
  /\ UNCHANGED <<wanted, read_data, rx, can_rx_sem, bus, faults>>

Failed ==
  /\ task.pc = "failed"
  /\ Continue
  /\ IF task.cmd # "RNV" THEN UNCHANGED <<link, v>>
     ELSE LET l == link[task.at]
          IN  /\ link' = [link EXCEPT ![task.at] =
                   CASE ~l.on -> l
                     [] l.off_cnt > OffLimit -> [l EXCEPT !.on = FALSE]
                     [] OTHER -> [l EXCEPT !.off_cnt = @ + 1]]
              /\ v' = [v EXCEPT ![task.at] = IF l.on THEN @ ELSE 0]
  /\ UNCHANGED <<wanted, remeder2, read_data, rx, can_rx_sem, bus, faults>>

CanThread == Scan \/ Send \/ Woken \/ TimedOut \/ Done \/ Failed
-----------------------------------------------------------------------------
(* The receiver thread reads a frame into the buffer, then compares it     *)
(* with the outstanding request.                                           *)
Receive(m) ==
  /\ ~rx.new /\ answers[m] # <<>>
  /\ rx' = [cmd |-> Head(answers[m]), from |-> m, new |-> TRUE]
  /\ answers' = [answers EXCEPT ![m] = Tail(@)]
  /\ UNCHANGED <<threads, can_rx_sem, requests, module, faults>>

Test ==
  /\ rx.new
  /\ rx' = [rx EXCEPT !.new = FALSE]
  /\ can_rx_sem' = IF Matches THEN can_rx_sem + 1 ELSE can_rx_sem
  /\ UNCHANGED <<threads, bus, faults>>

(* A module carries out a request and answers it.                          *)
Serve(m) ==
  /\ requests[m] # <<>>
  /\ LET frame == Head(requests[m])
     IN  /\ module' = [module EXCEPT ![m] =
              CASE frame.cmd = "C_S_S" -> [@ EXCEPT !.output = frame.want.output]
                [] frame.cmd = "SETC"  -> [@ EXCEPT !.set_i = frame.want.level]
                [] frame.cmd = "SETV"  -> [@ EXCEPT !.set_v = frame.want.level]
                [] OTHER -> @]
         /\ answers' = [answers EXCEPT ![m] = Append(@, frame.cmd)]
  /\ requests' = [requests EXCEPT ![m] = Tail(@)]
  /\ UNCHANGED <<threads, rx, can_rx_sem, faults>>

Lose(m) ==
  /\ faults.losses < faults.budget.losses /\ Spent < faults.budget.both
  /\ faults' = [faults EXCEPT !.losses = @ + 1]
  /\ \/ /\ requests[m] # <<>>
        /\ requests' = [requests EXCEPT ![m] = Tail(@)]
        /\ UNCHANGED answers
     \/ /\ answers[m] # <<>>
        /\ answers' = [answers EXCEPT ![m] = Tail(@)]
        /\ UNCHANGED requests
  /\ UNCHANGED <<threads, rx, can_rx_sem, module>>

(* The control or the LCD thread wants something else of a module.         *)
Want(m) ==
  /\ m \in Present
  /\ \E s \in Setting \ {wanted[m]} : wanted' = [wanted EXCEPT ![m] = s]
  /\ UNCHANGED <<remeder2, link, v, task, read_data, rx, can_rx_sem, bus, faults>>

Next ==
  \/ CanThread \/ Test
  \/ \E m \in Module : Receive(m) \/ Serve(m) \/ Lose(m) \/ Want(m)

(* The threads run and the modules work off what reaches them.             *)
Fairness ==
  /\ WF_vars(CanThread) /\ WF_vars(Test)
  /\ \A m \in Module : WF_vars(Receive(m)) /\ WF_vars(Serve(m))

Spec == Init /\ [][Next]_vars /\ Fairness
-----------------------------------------------------------------------------
(* Every variable has its type.                                            *)
TypeOK ==
  /\ wanted \in [Module -> Setting]
  /\ remeder2 \in [Module -> Outputs \cup {"none"}]
  /\ link \in [Module -> [on: BOOLEAN, off_cnt: 0..OffLimit+1]]
  /\ v \in [Module -> {0} \cup Module]
  /\ task \in [ pc: {"scan", "send", "wait", "done", "failed"}, cmd: Cmds,
                at: Module, want: Setting, left: {0, 1} ]
  /\ read_data \in [cmd: Cmds \cup {"none"}, at: {0} \cup Module]
  /\ rx \in [cmd: Cmds \cup {"none"}, from: {0} \cup Module, new: BOOLEAN]
  /\ can_rx_sem \in Nat
  /\ requests \in [Module -> Seq([cmd: Cmds, want: Setting])]
  /\ answers \in [Module -> Seq(Cmds)]
  /\ module \in [Module -> Power]
  /\ faults \in [losses: Nat, delays: Nat, budget: Budgets]
  /\ faults.losses <= faults.budget.losses
  /\ faults.delays <= faults.budget.delays

(* Between its commands the CAN thread knows what a module does: the cache *)
(* that spares the repetition of a command does not hide a module that     *)
(* missed it, if no more than one frame was lost or late.                  *)
Commanding(m) ==
  \/ task.cmd = "C_S_S" /\ task.at = m /\ task.pc # "scan"
  \/ \E k \in DOMAIN requests[m] : requests[m][k].cmd = "C_S_S"

CacheTrue ==
  \A m \in Module : Spent <= 1 /\ remeder2[m] # "none" /\ ~Commanding(m)
    => module[m].output = remeder2[m]

(* A module whose nodes are to rest for good is switched off at last,      *)
(* whatever was lost or late meanwhile (node_finish_status_poll, "query    *)
(* the nodes that stop or complete, then stop them", evc.c:441).           *)
StopReachesModule ==
  \A m \in Module :
    <>[](wanted[m].output = "REST") => <>[](module[m].output = "REST")

(* What a module that is there is to do for good it does at last, if no    *)
(* more than one fault happens.                                            *)
OutputReachesModule ==
  \A m \in Module : \A o \in Outputs :
    <>[](m \in Present /\ wanted[m].output = o /\ Spent <= 1)
      => <>[](module[m].output = o)

(* A charging or discharging module works at last with the set values of   *)
(* the step it is in, not with those of an earlier one.                    *)
LevelReachesModule ==
  \A m \in Module : \A s \in Setting :
    s.output # "REST" /\ <>[](wanted[m] = s)
      => <>[](module[m] = [output |-> s.output, set_i |-> s.level, set_v |-> s.level])

(* A module that was given up after missed answers is taken back as soon   *)
(* as it answers again: voltages are asked for off line as well.           *)
LinkComesBack == \A m \in Module : m \in Present => <>[](link[m].on)

(* The voltage of a node is one read from its own module.                  *)
VoltageIsOwn == \A m \in Module : v[m] \in {0, m}

(* One fault, a lost frame or a late answer, fails no transaction: the     *)
(* retry makes up for it, and the semaphore and the answer left over from  *)
(* a timeout mislead no later request, to whichever module it goes.        *)
OneFaultAbsorbed == task.pc = "failed" /\ task.at \in Present => Spent > 1
=============================================================================
