--------------------------- MODULE CanLinkProofs ---------------------------
(***************************************************************************)
(* Theorems about CanLink, for any number of modules, any set values and   *)
(* any losses and delays: one lost frame or one late answer fails no       *)
(* transaction, and the cache of start and stop commands tells what the    *)
(* modules do.                                                             *)
(*                                                                         *)
(* Both follow from counting what is under way: an answer not yet taken is *)
(* a frame on the bus, the frame in the buffer, or a post of the           *)
(* semaphore.  While the CAN thread waits for a module that is there, one  *)
(* of them is its own; with no more than one fault there is at most one    *)
(* other, left over from the request that was repeated.                    *)
(***************************************************************************)
EXTENDS CanLink, SequenceTheorems, TLAPS

Waiting == task.pc = "wait" /\ task.at \in Present

Load(m) ==
  Len(requests[m]) + Len(answers[m]) + (IF rx.new /\ rx.from = m THEN 1 ELSE 0)

None(S)  == \A m \in S : Load(m) = 0
OneOf(S) == \E x \in S : \A m \in S : Load(m) = IF m = x THEN 1 ELSE 0

Taken == Load(task.at) + can_rx_sem
Others == Module \ {task.at}

(* A frame was lost that the CAN thread waits for the first time.          *)
Missing == Waiting /\ task.left = 1 /\ Taken = 0

(* At most one answer is left over, and that only after a delay.           *)
OneLeftOver ==
  /\ ~Waiting =>
       \/ can_rx_sem = 0 /\ None(Module)
       \/ Spent = 1 /\ can_rx_sem = 1 /\ None(Module)
       \/ Spent = 1 /\ can_rx_sem = 0 /\ OneOf(Module)
  /\ Waiting =>
       \/ Taken = 0 /\ None(Others) /\ Spent = 1 /\ task.left = 1
       \/ Taken = 1 /\ None(Others)
       \/ Taken = 2 /\ None(Others) /\ Spent = 1
       \/ Taken = 1 /\ OneOf(Others) /\ Spent = 1

(* The frame of module m that was sent last is of the request in hand.     *)
NewestIsOwn ==
  LET m == task.at IN
  Waiting =>
    /\ requests[m] # <<>> => requests[m][Len(requests[m])].cmd = task.cmd
    /\ requests[m] = <<>> /\ answers[m] # <<>> =>
         answers[m][Len(answers[m])] = task.cmd
    /\ requests[m] = <<>> /\ answers[m] = <<>> /\ rx.new /\ rx.from = m => Matches

(* All frames on the bus are of the request in hand.                       *)
OnlyOwn ==
  \A m \in Module :
    \/ requests[m] = <<>> /\ answers[m] = <<>>
    \/ /\ m = task.at
       /\ \A k \in DOMAIN requests[m] : requests[m][k].cmd = task.cmd
       /\ \A k \in DOMAIN answers[m] : answers[m][k] = task.cmd

(* A post that misleads the CAN thread is the only one, and it is the last *)
(* to do so; after the second attempt nothing misleads it any more.        *)
MisledOnce ==
  /\ Waiting /\ can_rx_sem > 0 /\ ~Matches =>
       can_rx_sem = 1 /\ OnlyOwn /\ Spent = 1
  /\ task.pc \in {"send", "wait"} /\ task.at \in Present /\ task.left = 0 =>
       /\ read_data = [cmd |-> task.cmd, at |-> task.at]
       /\ OnlyOwn
       /\ can_rx_sem > 0 => Matches

(* The request in hand is the one answers are compared with; a second      *)
(* attempt, and a failure, has a cause.                                    *)
RequestKnown ==
  /\ task.pc = "wait" => read_data = [cmd |-> task.cmd, at |-> task.at]
  /\ task.pc = "scan" => task.left = 1
  /\ task.at \in Present /\ task.pc \in {"send", "wait"} /\ task.left = 0 => Spent = 1
  /\ task.at \in Present => task.pc # "failed"

Absorbing == OneLeftOver /\ NewestIsOwn /\ MisledOnce /\ RequestKnown

AbsorbInv == Spent <= 1 => Absorbing
-----------------------------------------------------------------------------
(* A module that is not there is never heard of.                           *)
AbsentSilent ==
  /\ rx.new => rx.from \in Present
  /\ rx.from \in {0} \cup Present
  /\ \A m \in Module \ Present : requests[m] = <<>> /\ answers[m] = <<>>
  /\ task.at \notin Present => task.pc # "done"
  /\ task.pc = "wait" => read_data = [cmd |-> task.cmd, at |-> task.at]
  /\ \A m \in Module \ Present : remeder2[m] = "none"

(* Module m will do o when it has served what is on its way.               *)
Settles(m, o) ==
  \/ /\ \A k \in DOMAIN requests[m] : requests[m][k].cmd # "C_S_S"
     /\ module[m].output = o
  \/ \E k \in DOMAIN requests[m] :
       /\ requests[m][k].cmd = "C_S_S" /\ requests[m][k].want.output = o
       /\ \A j \in DOMAIN requests[m] : j > k => requests[m][j].cmd # "C_S_S"

(* The module the CAN thread is commanding, from the first sending on.     *)
Ordered(m) ==
  /\ task.cmd = "C_S_S" /\ task.at = m
  /\ task.pc \in {"wait", "done", "failed"} \/ (task.pc = "send" /\ task.left = 0)

CacheInv ==
  Spent <= 1 =>
    \A m \in Present :
      /\ ~Ordered(m) /\ remeder2[m] # "none" => Settles(m, remeder2[m])
      /\ Ordered(m) /\ task.pc \in {"wait", "done"} /\ ~Missing =>
           Settles(m, task.want.output)
-----------------------------------------------------------------------------
(* The types.                                                              *)
Tasks == [ pc: {"scan", "send", "wait", "done", "failed"}, cmd: Cmds,
           at: Module, want: Setting, left: {0, 1} ]

LEMMA BeginLemma ==
  ASSUME TypeOK, NEW cmd \in Cmds, NEW m \in Module
  PROVE  Begin(cmd, m) \in Tasks /\ Begin(cmd, m).pc = "scan"
         /\ Begin(cmd, m).left = 1 /\ Begin(cmd, m).at = m
         /\ Begin(cmd, m).cmd = cmd
  BY DEF TypeOK, Begin, Tasks

(* The next command begins like any other.                                 *)
LEMMA AfterLemma ==
  ASSUME TypeOK, NEW cmd \in Cmds, NEW m \in Module
  PROVE  /\ After(cmd, m) \in Tasks
         /\ After(cmd, m).pc = "scan" /\ After(cmd, m).left = 1
  <1>1. CASE cmd = "SETC"
    <2>1. After(cmd, m) = Begin("SETV", m)
      BY <1>1 DEF After
    <2>. QED BY <2>1, BeginLemma DEF Cmds
  <1>2. CASE cmd = "SETV"
    <2>1. After(cmd, m) = Begin("C_S_S", m)
      BY <1>2 DEF After
    <2>. QED BY <2>1, BeginLemma DEF Cmds
  <1>3. CASE cmd \notin {"SETC", "SETV"} /\ m < MaxModule
    <2>1. m + 1 \in Module
      BY <1>3, CanLinkAssumption DEF Module
    <2>2. \E c \in Cmds : After(cmd, m) = Begin(c, m + 1)
      BY <1>3 DEF After, Cmds
    <2>. QED BY <2>1, <2>2, BeginLemma
  <1>4. CASE cmd \notin {"SETC", "SETV"} /\ ~(m < MaxModule)
    <2>1. 1 \in Module
      BY CanLinkAssumption DEF Module
    <2>2. \E c \in Cmds : After(cmd, m) = Begin(c, 1)
      BY <1>4 DEF After, Cmds
    <2>. QED BY <2>1, <2>2, BeginLemma
  <1>. QED BY <1>1, <1>2, <1>3, <1>4

LEMMA ContinueLemma ==
  ASSUME TypeOK, Continue
  PROVE  task' \in Tasks /\ task'.pc = "scan" /\ task'.left = 1
  <1>1. task.cmd \in Cmds /\ task.at \in Module /\ task.want \in Setting
    BY DEF TypeOK
  <1>. DEFINE next == After(task.cmd, task.at)
  <1>2. next \in Tasks /\ next.pc = "scan" /\ next.left = 1
    BY <1>1, AfterLemma
  <1>3. \E s \in Setting : task' = [next EXCEPT !.want = s]
    BY <1>1, <1>2 DEF Continue, Tasks
  <1>. HIDE DEF next
  <1>. QED BY <1>2, <1>3 DEF Tasks

(* What Scan, Retry and Goto leave.                                        *)
LEMMA TaskLemma ==
  ASSUME TypeOK
  PROVE  /\ Scan => /\ task' \in Tasks
                    /\ \/ task'.pc = "scan" /\ task'.left = 1
                       \/ task' = [task EXCEPT !.pc = "send"]
         /\ Retry => /\ task' \in Tasks /\ task'.pc \in {"send", "failed"}
                     /\ task'.cmd = task.cmd /\ task'.at = task.at
                     /\ task'.want = task.want /\ task'.left = 0
                     /\ task'.pc = "send" <=> task.left = 1
         /\ \A pc \in {"send", "wait", "done", "failed"} :
              Goto(pc) => /\ task' \in Tasks /\ task'.pc = pc
                          /\ task'.cmd = task.cmd /\ task'.at = task.at
                          /\ task'.want = task.want /\ task'.left = task.left
  <1>1. task \in Tasks /\ task.cmd \in Cmds /\ task.at \in Module
    BY DEF TypeOK, Tasks
  <1>2. "C_S_S" \in Cmds /\ "RNC" \in Cmds
    BY DEF Cmds
  <1>3. Goto("send") => task' = [task EXCEPT !.pc = "send"] /\ task' \in Tasks
    BY <1>1 DEF Goto, Tasks
  <1>4. Scan => /\ task' \in Tasks
                /\ \/ task'.pc = "scan" /\ task'.left = 1
                   \/ task' = [task EXCEPT !.pc = "send"]
    <2>. SUFFICES ASSUME Scan
                  PROVE  /\ task' \in Tasks
                         /\ \/ task'.pc = "scan" /\ task'.left = 1
                            \/ task' = [task EXCEPT !.pc = "send"]
      OBVIOUS
    <2>1. \/ task' = After("C_S_S", task.at) \/ task' = After("RNC", task.at)
          \/ Goto("send")
      BY DEF Scan
    <2>. QED BY <2>1, <1>1, <1>2, <1>3, AfterLemma
  <1>5. Retry => /\ task' \in Tasks /\ task'.pc \in {"send", "failed"}
                 /\ task'.cmd = task.cmd /\ task'.at = task.at
                 /\ task'.want = task.want /\ task'.left = 0
                 /\ task'.pc = "send" <=> task.left = 1
    <2>1. task.left \in {0, 1}
      BY <1>1 DEF Tasks
    <2>2. CASE task.left = 0
      BY <1>1, <2>2 DEF Retry, Tasks
    <2>3. CASE task.left = 1
      <3>1. task.left > 0 /\ task.left - 1 = 0
        BY <2>3
      <3>2. Retry => task' = [task EXCEPT !.pc = "send", !.left = 0]
        BY <3>1, Zenon DEF Retry
      <3>. QED BY <1>1, <2>3, <3>2 DEF Tasks
    <2>. QED BY <2>1, <2>2, <2>3
  <1>6. \A pc \in {"send", "wait", "done", "failed"} :
          Goto(pc) => /\ task' \in Tasks /\ task'.pc = pc
                      /\ task'.cmd = task.cmd /\ task'.at = task.at
                      /\ task'.want = task.want /\ task'.left = task.left
    BY <1>1 DEF Goto, Tasks
  <1>. QED BY <1>4, <1>5, <1>6
-----------------------------------------------------------------------------
FrameOnBus == [cmd: Cmds, want: Setting]

(* A fault more than the budget allowed so far is within the budget.       *)
LEMMA FaultLemma ==
  ASSUME TypeOK
  PROVE  /\ faults.budget.losses \in Nat /\ faults.budget.delays \in Nat
         /\ Present \subseteq Module /\ Spent \in Nat
         /\ faults.losses \in Nat /\ faults.losses <= faults.budget.losses
         /\ faults.delays \in Nat /\ faults.delays <= faults.budget.delays
         /\ faults.budget \in Budgets
         /\ faults = [ losses |-> faults.losses, delays |-> faults.delays,
                       budget |-> faults.budget ]
  <1>1. faults \in [losses: Nat, delays: Nat, budget: Budgets]
    BY DEF TypeOK
  <1>2. faults.budget \in Budgets
    BY <1>1
  <1>3. /\ faults.budget.losses \in Nat /\ faults.budget.delays \in Nat
        /\ faults.budget.present \subseteq 1..MaxModule
    BY <1>2, CanLinkAssumption
  <1>4. faults.losses <= faults.budget.losses /\ faults.delays <= faults.budget.delays
    BY DEF TypeOK
  <1>. QED BY <1>1, <1>2, <1>3, <1>4 DEF Present, Module, Spent

LEMMA TypeInit == Init => TypeOK
  <1>. SUFFICES ASSUME Init PROVE TypeOK
    OBVIOUS
  <1>1. 1 \in Module
    BY CanLinkAssumption DEF Module
  <1>2. wanted \in [Module -> Setting] /\ wanted[1] \in Setting
    BY <1>1 DEF Init
  <1>3. task \in Tasks
    BY <1>1, <1>2 DEF Init, Begin, Tasks, Cmds
  <1>4. module \in [Module -> Power]
    BY DEF Init, Power, Outputs
  <1>5. \A b \in Budgets : b.losses \in Nat /\ b.delays \in Nat
    BY CanLinkAssumption
  <1>. QED BY <1>2, <1>3, <1>4, <1>5, CanLinkAssumption DEF Init, TypeOK, Tasks

LEMMA TypeStep == TypeOK /\ [Next]_vars => TypeOK'
  <1>. SUFFICES ASSUME TypeOK, [Next]_vars PROVE TypeOK'
    OBVIOUS
  <1>0. /\ task \in Tasks /\ task.cmd \in Cmds /\ task.at \in Module
        /\ task.want \in Setting
    BY DEF TypeOK, Tasks
  <1>1. CASE Scan
    <2>1. task' \in Tasks
      BY <1>1, TaskLemma
    <2>. QED BY <1>1, <2>1 DEF Scan, bus, TypeOK, Tasks
  <1>2. CASE Send
    <2>1. task' \in Tasks
      BY <1>2, TaskLemma DEF Send
    <2>2. [cmd |-> task.cmd, want |-> task.want] \in FrameOnBus
      BY <1>0 DEF FrameOnBus
    <2>3. requests[task.at] \in Seq(FrameOnBus)
      BY <1>0 DEF TypeOK, FrameOnBus
    <2>4. Append(requests[task.at], [cmd |-> task.cmd, want |-> task.want])
            \in Seq(FrameOnBus)
      BY <2>2, <2>3, AppendProperties
    <2>5. requests' \in [Module -> Seq(FrameOnBus)]
      BY <1>2, <2>4 DEF Send, TypeOK, FrameOnBus
    <2>6. read_data' \in [cmd: Cmds \cup {"none"}, at: {0} \cup Module]
      BY <1>0, <1>2 DEF Send
    <2>. QED BY <1>2, <2>1, <2>5, <2>6 DEF Send, TypeOK, Tasks, FrameOnBus
  <1>3. CASE Woken
    <2>1. task' \in Tasks
      BY <1>3, TaskLemma DEF Woken
    <2>2. can_rx_sem' \in Nat
      BY <1>3 DEF Woken, TypeOK
    <2>. QED BY <1>3, <2>1, <2>2 DEF Woken, bus, TypeOK, Tasks
  <1>4. CASE TimedOut
    <2>1. task' \in Tasks
      BY <1>4, TaskLemma DEF TimedOut
    <2>2. /\ faults' \in [losses: Nat, delays: Nat, budget: Budgets]
          /\ faults'.losses <= faults'.budget.losses
          /\ faults'.delays <= faults'.budget.delays
      <3>1. CASE UNCHANGED faults
        BY <3>1 DEF TypeOK
      <3>2. CASE /\ faults.delays < faults.budget.delays
                 /\ faults' = [faults EXCEPT !.delays = @ + 1]
        <4>1. faults' = [ losses |-> faults.losses, delays |-> faults.delays + 1,
                          budget |-> faults.budget ]
          BY <3>2, FaultLemma
        <4>. QED BY <3>2, <4>1, FaultLemma
      <3>. QED BY <1>4, <3>1, <3>2 DEF TimedOut
    <2>. QED BY <1>4, <2>1, <2>2 DEF TimedOut, bus, TypeOK, Tasks
  <1>5. CASE Done
    <2>1. task' \in Tasks
      BY <1>5, ContinueLemma DEF Done
    <2>2. remeder2' \in [Module -> Outputs \cup {"none"}]
      <3>1. task.want.output \in Outputs
        BY <1>0 DEF Setting
      <3>2. remeder2' = remeder2
              \/ remeder2' = [remeder2 EXCEPT ![task.at] = task.want.output]
        BY <1>5 DEF Done, TypeOK
      <3>. QED BY <1>0, <3>1, <3>2 DEF TypeOK
    <2>3. /\ link' \in [Module -> [on: BOOLEAN, off_cnt: 0..OffLimit+1]]
          /\ v' \in [Module -> {0} \cup Module]
      <3>1. [on |-> TRUE, off_cnt |-> 0] \in [on: BOOLEAN, off_cnt: 0..OffLimit+1]
        BY CanLinkAssumption
      <3>2. rx.from \in {0} \cup Module
        BY DEF TypeOK
      <3>3. \/ UNCHANGED <<link, v>>
            \/ /\ link' = [link EXCEPT ![task.at] = [on |-> TRUE, off_cnt |-> 0]]
               /\ v' = [v EXCEPT ![task.at] = rx.from]
        BY <1>5 DEF Done
      <3>4. /\ link \in [Module -> [on: BOOLEAN, off_cnt: 0..OffLimit+1]]
            /\ v \in [Module -> {0} \cup Module]
        BY DEF TypeOK
      <3>5. link' \in [Module -> [on: BOOLEAN, off_cnt: 0..OffLimit+1]]
        BY <3>1, <3>3, <3>4
      <3>6. v' \in [Module -> {0} \cup Module]
        BY <3>2, <3>3, <3>4
      <3>. QED BY <3>5, <3>6
    <2>. QED BY <1>5, <2>1, <2>2, <2>3 DEF Done, bus, TypeOK, Tasks
  <1>6. CASE Failed
    <2>1. task' \in Tasks
      BY <1>6, ContinueLemma DEF Failed
    <2>2. /\ link' \in [Module -> [on: BOOLEAN, off_cnt: 0..OffLimit+1]]
          /\ v' \in [Module -> {0} \cup Module]
      <3>. DEFINE l == link[task.at]
                 new == CASE ~l.on -> l
                          [] l.off_cnt > OffLimit -> [l EXCEPT !.on = FALSE]
                          [] OTHER -> [l EXCEPT !.off_cnt = @ + 1]
      <3>1. l \in [on: BOOLEAN, off_cnt: 0..OffLimit+1]
        BY <1>0 DEF TypeOK
      <3>2. new \in [on: BOOLEAN, off_cnt: 0..OffLimit+1]
        <4>. HIDE DEF l
        <4>1. [l EXCEPT !.on = FALSE] \in [on: BOOLEAN, off_cnt: 0..OffLimit+1]
          BY <3>1
        <4>2. l.off_cnt <= OffLimit =>
                [l EXCEPT !.off_cnt = @ + 1] \in [on: BOOLEAN, off_cnt: 0..OffLimit+1]
          BY <3>1, CanLinkAssumption
        <4>3. OffLimit \in Nat /\ l.off_cnt \in Nat
          BY <3>1, CanLinkAssumption
        <4>. QED BY <3>1, <4>1, <4>2, <4>3
      <3>3. (IF l.on THEN v[task.at] ELSE 0) \in {0} \cup Module
        BY <1>0 DEF TypeOK
      <3>4. \/ UNCHANGED <<link, v>>
            \/ /\ link' = [link EXCEPT ![task.at] = new]
               /\ v' = [v EXCEPT ![task.at] = IF l.on THEN @ ELSE 0]
        BY <1>6 DEF Failed
      <3>5. /\ link \in [Module -> [on: BOOLEAN, off_cnt: 0..OffLimit+1]]
            /\ v \in [Module -> {0} \cup Module]
        BY DEF TypeOK
      <3>. HIDE DEF new, l
      <3>. QED BY <1>0, <3>2, <3>3, <3>4, <3>5
    <2>. QED BY <1>6, <2>1, <2>2 DEF Failed, bus, TypeOK, Tasks
  <1>7. CASE Test
    <2>1. can_rx_sem' \in Nat
      BY <1>7 DEF Test, TypeOK
    <2>2. rx' \in [cmd: Cmds \cup {"none"}, from: {0} \cup Module, new: BOOLEAN]
      BY <1>7 DEF Test, TypeOK
    <2>. QED BY <1>7, <2>1, <2>2 DEF Test, threads, bus, TypeOK
  <1>8. ASSUME NEW m \in Module, Receive(m) PROVE TypeOK'
    <2>1. answers[m] \in Seq(Cmds) /\ answers[m] # <<>>
      BY <1>8 DEF Receive, TypeOK
    <2>2. Head(answers[m]) \in Cmds /\ Tail(answers[m]) \in Seq(Cmds)
      BY <2>1, HeadTailProperties
    <2>3. answers' \in [Module -> Seq(Cmds)]
      BY <1>8, <2>2 DEF Receive, TypeOK
    <2>4. rx' \in [cmd: Cmds \cup {"none"}, from: {0} \cup Module, new: BOOLEAN]
      BY <1>8, <2>2 DEF Receive
    <2>. QED BY <1>8, <2>3, <2>4 DEF Receive, threads, TypeOK
  <1>9. ASSUME NEW m \in Module, Serve(m) PROVE TypeOK'
    <2>. DEFINE frame == Head(requests[m])
    <2>1. requests[m] \in Seq(FrameOnBus) /\ requests[m] # <<>>
      BY <1>9 DEF Serve, TypeOK, FrameOnBus
    <2>2. frame \in FrameOnBus /\ Tail(requests[m]) \in Seq(FrameOnBus)
      BY <2>1, HeadTailProperties
    <2>3. frame.cmd \in Cmds /\ frame.want.output \in Outputs
          /\ frame.want.level \in Levels
      BY <2>2 DEF FrameOnBus, Setting
    <2>. HIDE DEF frame
    <2>4. Append(answers[m], frame.cmd) \in Seq(Cmds)
      BY <2>3, AppendProperties DEF TypeOK
    <2>5. answers' = [answers EXCEPT ![m] = Append(@, frame.cmd)]
      BY <1>9 DEF Serve, frame
    <2>6. answers' \in [Module -> Seq(Cmds)]
      BY <2>4, <2>5 DEF TypeOK
    <2>7. requests' \in [Module -> Seq(FrameOnBus)]
      BY <1>9, <2>2 DEF Serve, TypeOK, FrameOnBus
    <2>8. module' = [module EXCEPT ![m] =
              CASE frame.cmd = "C_S_S" -> [@ EXCEPT !.output = frame.want.output]
                [] frame.cmd = "SETC"  -> [@ EXCEPT !.set_i = frame.want.level]
                [] frame.cmd = "SETV"  -> [@ EXCEPT !.set_v = frame.want.level]
                [] OTHER -> @]
      BY <1>9 DEF Serve, frame
    <2>9. module' \in [Module -> Power]
      <3>1. module \in [Module -> Power] /\ module[m] \in Power
        BY DEF TypeOK
      <3>2. /\ [module[m] EXCEPT !.output = frame.want.output] \in Power
            /\ [module[m] EXCEPT !.set_i = frame.want.level] \in Power
            /\ [module[m] EXCEPT !.set_v = frame.want.level] \in Power
        BY <2>3, <3>1 DEF Power
      <3>. QED BY <2>8, <3>1, <3>2
    <2>. QED BY <1>9, <2>6, <2>7, <2>9 DEF Serve, threads, TypeOK, FrameOnBus
  <1>10. ASSUME NEW m \in Module, Lose(m) PROVE TypeOK'
    <2>1. /\ faults' \in [losses: Nat, delays: Nat, budget: Budgets]
          /\ faults'.losses <= faults'.budget.losses
          /\ faults'.delays <= faults'.budget.delays
      <3>1. faults' = [ losses |-> faults.losses + 1, delays |-> faults.delays,
                        budget |-> faults.budget ]
        BY <1>10, FaultLemma DEF Lose
      <3>2. faults.losses < faults.budget.losses
        BY <1>10 DEF Lose
      <3>. QED BY <3>1, <3>2, FaultLemma
    <2>2. /\ requests' \in [Module -> Seq(FrameOnBus)]
          /\ answers' \in [Module -> Seq(Cmds)]
      <3>1. requests \in [Module -> Seq(FrameOnBus)] /\ answers \in [Module -> Seq(Cmds)]
        BY DEF TypeOK, FrameOnBus
      <3>2. /\ requests[m] # <<>> => Tail(requests[m]) \in Seq(FrameOnBus)
            /\ answers[m] # <<>> => Tail(answers[m]) \in Seq(Cmds)
        BY <3>1, HeadTailProperties
      <3>. QED BY <1>10, <3>1, <3>2 DEF Lose
    <2>. QED BY <1>10, <2>1, <2>2 DEF Lose, threads, TypeOK, FrameOnBus
  <1>11. ASSUME NEW m \in Module, Want(m) PROVE TypeOK'
    <2>1. wanted' \in [Module -> Setting]
      BY <1>11 DEF Want, TypeOK
    <2>. QED BY <1>11, <2>1 DEF Want, bus, TypeOK
  <1>12. CASE UNCHANGED vars
    BY <1>12 DEF vars, threads, bus, TypeOK
  <1>. QED
    BY <1>1, <1>2, <1>3, <1>4, <1>5, <1>6, <1>7, <1>8, <1>9, <1>10, <1>11, <1>12
    DEF Next, CanThread

LEMMA Types == Spec => []TypeOK
  BY TypeInit, TypeStep, PTL DEF Spec
-----------------------------------------------------------------------------
(* Faults are only added, and which modules are there does not change.     *)
LEMMA SpentLemma ==
  ASSUME TypeOK, [Next]_vars
  PROVE  /\ Present' = Present /\ Spent \in Nat /\ Spent' \in {Spent, Spent + 1}
         /\ UNCHANGED faults => Spent' = Spent
  <1>1. \/ UNCHANGED faults
        \/ faults' = [faults EXCEPT !.losses = @ + 1]
        \/ faults' = [faults EXCEPT !.delays = @ + 1]
    BY DEF Next, CanThread, Scan, Send, Woken, TimedOut, Done, Failed, Test,
           Receive, Serve, Lose, Want, vars
  <1>2. CASE UNCHANGED faults
    BY <1>2, FaultLemma DEF Present, Spent
  <1>3. CASE faults' = [faults EXCEPT !.losses = @ + 1]
    <2>1. faults' = [ losses |-> faults.losses + 1, delays |-> faults.delays,
                      budget |-> faults.budget ]
      BY <1>3, FaultLemma
    <2>. QED BY <2>1, FaultLemma DEF Present, Spent
  <1>4. CASE faults' = [faults EXCEPT !.delays = @ + 1]
    <2>1. faults' = [ losses |-> faults.losses, delays |-> faults.delays + 1,
                      budget |-> faults.budget ]
      BY <1>4, FaultLemma
    <2>. QED BY <2>1, FaultLemma DEF Present, Spent
  <1>. QED BY <1>1, <1>2, <1>3, <1>4

LEMMA AbsentInit == Init => AbsentSilent
  BY DEF Init, AbsentSilent, Begin

LEMMA AbsentStep == TypeOK /\ AbsentSilent /\ [Next]_vars => AbsentSilent'
  <1>. SUFFICES ASSUME TypeOK, AbsentSilent, [Next]_vars PROVE AbsentSilent'
    OBVIOUS
  <1>0. Present' = Present /\ Present \subseteq Module
    BY SpentLemma, FaultLemma
  <1>1. CASE Scan
    <2>1. task'.pc \in {"scan", "send"}
      BY <1>1, TaskLemma DEF TypeOK
    <2>. QED BY <1>0, <1>1, <2>1 DEF Scan, bus, AbsentSilent
  <1>2. CASE Send
    <2>1. task' = [task EXCEPT !.pc = "wait"] /\ task'.pc = "wait"
          /\ task'.cmd = task.cmd /\ task'.at = task.at
      BY <1>2 DEF Send, Goto, TypeOK
    <2>. QED BY <1>0, <1>2, <2>1 DEF Send, AbsentSilent, TypeOK
  <1>3. CASE Woken
    <2>1. /\ task'.pc \in {"send", "failed", "done"}
          /\ task'.at = task.at
          /\ task'.pc = "done" => Matches
      BY <1>3, TaskLemma DEF Woken
    <2>2. Matches => rx.from = task.at /\ task.at # 0
      BY <1>3 DEF Woken, Matches, AbsentSilent, TypeOK, Module
    <2>. QED BY <1>0, <1>3, <2>1, <2>2 DEF Woken, bus, AbsentSilent
  <1>4. CASE TimedOut
    <2>1. task'.pc \in {"send", "failed"}
      BY <1>4 DEF TimedOut, Retry, TypeOK
    <2>. QED BY <1>0, <1>4, <2>1 DEF TimedOut, bus, AbsentSilent
  <1>5. CASE Done
    <2>1. task'.pc = "scan"
      BY <1>5, ContinueLemma DEF Done
    <2>2. task.at \in Present
      BY <1>5 DEF Done, AbsentSilent
    <2>3. \A m \in Module \ Present : remeder2'[m] = "none"
      BY <1>5, <2>2 DEF Done, AbsentSilent, TypeOK
    <2>. QED BY <1>0, <1>5, <2>1, <2>3 DEF Done, bus, AbsentSilent
  <1>6. CASE Failed
    <2>1. task'.pc = "scan"
      BY <1>6, ContinueLemma DEF Failed
    <2>. QED BY <1>0, <1>6, <2>1 DEF Failed, bus, AbsentSilent
  <1>7. CASE Test
    BY <1>0, <1>7 DEF Test, threads, bus, AbsentSilent, TypeOK
  <1>8. ASSUME NEW m \in Module, Receive(m) PROVE AbsentSilent'
    <2>1. m \in Present
      BY <1>8 DEF Receive, AbsentSilent
    <2>. QED BY <1>0, <1>8, <2>1 DEF Receive, threads, AbsentSilent, TypeOK
  <1>9. ASSUME NEW m \in Module, Serve(m) PROVE AbsentSilent'
    <2>1. m \in Present
      BY <1>9 DEF Serve, AbsentSilent
    <2>. QED BY <1>0, <1>9, <2>1 DEF Serve, threads, AbsentSilent, TypeOK
  <1>10. ASSUME NEW m \in Module, Lose(m) PROVE AbsentSilent'
    <2>1. m \in Present
      BY <1>10 DEF Lose, AbsentSilent
    <2>. QED BY <1>0, <1>10, <2>1, SMTT(40) DEF Lose, threads, AbsentSilent, TypeOK
  <1>11. ASSUME NEW m \in Module, Want(m) PROVE AbsentSilent'
    BY <1>0, <1>11 DEF Want, bus, AbsentSilent
  <1>12. CASE UNCHANGED vars
    BY <1>0, <1>12 DEF vars, threads, bus, AbsentSilent
  <1>. QED
    BY <1>1, <1>2, <1>3, <1>4, <1>5, <1>6, <1>7, <1>8, <1>9, <1>10, <1>11, <1>12
    DEF Next, CanThread

LEMMA Absent == Spec => []AbsentSilent
  BY AbsentInit, AbsentStep, Types, PTL DEF Spec
-----------------------------------------------------------------------------
(* Counting.                                                               *)
LEMMA LoadLemma ==
  ASSUME TypeOK, NEW m \in Module
  PROVE  /\ Len(requests[m]) \in Nat /\ Len(answers[m]) \in Nat /\ Load(m) \in Nat
         /\ requests[m] # <<>> => Len(requests[m]) > 0
         /\ answers[m] # <<>> => Len(answers[m]) > 0
         /\ Load(m) = 0 =>
              requests[m] = <<>> /\ answers[m] = <<>> /\ ~(rx.new /\ rx.from = m)
  <1>1. requests[m] \in Seq(FrameOnBus) /\ answers[m] \in Seq(Cmds)
    BY DEF TypeOK, FrameOnBus
  <1>2. /\ Len(requests[m]) \in Nat /\ Len(answers[m]) \in Nat
        /\ requests[m] # <<>> => Len(requests[m]) > 0
        /\ answers[m] # <<>> => Len(answers[m]) > 0
    BY <1>1
  <1>3. /\ ~(rx.new /\ rx.from = m) =>
             Load(m) = Len(requests[m]) + Len(answers[m]) + 0
        /\ rx.new /\ rx.from = m =>
             Load(m) = Len(requests[m]) + Len(answers[m]) + 1
    BY Zenon DEF Load
  <1>4. \A a, b \in Nat : a + b + 0 = 0 => a = 0 /\ b = 0
    OBVIOUS
  <1>5. \A a, b \in Nat : a + b + 1 # 0 /\ a + b + 0 \in Nat /\ a + b + 1 \in Nat
    OBVIOUS
  <1>6. CASE rx.new /\ rx.from = m
    BY <1>2, <1>3, <1>5, <1>6
  <1>7. CASE ~(rx.new /\ rx.from = m)
    <2>1. Load(m) = Len(requests[m]) + Len(answers[m]) + 0
      BY <1>3, <1>7
    <2>2. Load(m) \in Nat
      BY <1>2, <1>5, <2>1, Zenon
    <2>3. Load(m) = 0 => Len(requests[m]) = 0 /\ Len(answers[m]) = 0
      BY <1>2, <1>4, <2>1, Zenon
    <2>. QED BY <1>2, <1>7, <2>2, <2>3
  <1>. QED BY <1>6, <1>7

(* The counts of the next state, while the CAN thread stays at a module.   *)
LEMMA CountsNext ==
  ASSUME NEW at \in Module, task'.at = at
  PROVE  /\ Taken' = Load(at)' + can_rx_sem'
         /\ None(Others)' <=> \A m \in Module \ {at} : Load(m)' = 0
         /\ OneOf(Others)' <=> \E x \in Module \ {at} :
              \A m \in Module \ {at} : Load(m)' = IF m = x THEN 1 ELSE 0
  BY DEF Taken, None, OneOf, Others, Load

LEMMA LoadSame ==
  ASSUME UNCHANGED <<requests, answers, rx>>
  PROVE  \A m \in Module : Load(m)' = Load(m)
  BY DEF Load

LEMMA NoneSame ==
  ASSUME \A m \in Module : Load(m)' = Load(m)
  PROVE  (None(Module)' <=> None(Module)) /\ (OneOf(Module)' <=> OneOf(Module))
  BY DEF None, OneOf

LEMMA LoadSend ==
  ASSUME TypeOK, Send, task.at \in Present
  PROVE  /\ Load(task.at) \in Nat
         /\ \A m \in Module : Load(m)' = IF m = task.at THEN Load(m) + 1 ELSE Load(m)
         /\ requests'[task.at] # <<>>
         /\ requests'[task.at][Len(requests'[task.at])].cmd = task.cmd
         /\ \A k \in DOMAIN requests'[task.at] :
              \/ requests'[task.at][k].cmd = task.cmd
              \/ k \in DOMAIN requests[task.at]
                 /\ requests'[task.at][k] = requests[task.at][k]
  <1>. DEFINE frame == [cmd |-> task.cmd, want |-> task.want]
  <1>1. task.at \in Module /\ requests[task.at] \in Seq(FrameOnBus)
    BY DEF TypeOK, FrameOnBus
  <1>2. requests' = [requests EXCEPT ![task.at] = Append(@, frame)]
        /\ UNCHANGED <<answers, rx>>
    BY DEF Send
  <1>3. frame \in FrameOnBus /\ frame.cmd = task.cmd
    BY DEF TypeOK, FrameOnBus
  <1>. HIDE DEF frame
  <1>4. requests'[task.at] = Append(requests[task.at], frame)
        /\ \A m \in Module \ {task.at} : requests'[m] = requests[m]
    BY <1>1, <1>2 DEF TypeOK
  <1>5. Len(requests'[task.at]) = Len(requests[task.at]) + 1
    BY <1>1, <1>3, <1>4, AppendProperties
  <1>6. PICK at \in Module : at = task.at
    BY <1>1
  <1>7. Load(at)' = Load(at) + 1
    <2>. DEFINE new == IF rx.new /\ rx.from = at THEN 1 ELSE 0
    <2>1. /\ Load(at) = Len(requests[at]) + Len(answers[at]) + new
          /\ Load(at)' = (Len(requests[at]) + 1) + Len(answers[at]) + new
          /\ new \in {0, 1}
      BY <1>2, <1>5, <1>6, Zenon DEF Load
    <2>. HIDE DEF new
    <2>2. \A a, b \in Nat, c \in {0, 1} : (a + 1) + b + c = (a + b + c) + 1
      OBVIOUS
    <2>3. Len(requests[at]) \in Nat /\ Len(answers[at]) \in Nat
      BY LoadLemma
    <2>. QED BY <2>1, <2>2, <2>3, Zenon
  <1>9. \A m \in Module \ {at} : Load(m)' = Load(m)
    BY <1>2, <1>4, <1>6 DEF Load
  <1>10. \A m \in Module : Load(m)' = IF m = task.at THEN Load(m) + 1 ELSE Load(m)
    BY <1>6, <1>7, <1>9
  <1>8. /\ requests'[task.at] # <<>>
        /\ requests'[task.at][Len(requests'[task.at])].cmd = task.cmd
        /\ \A k \in DOMAIN requests'[task.at] :
              \/ requests'[task.at][k].cmd = task.cmd
              \/ k \in DOMAIN requests[task.at]
                 /\ requests'[task.at][k] = requests[task.at][k]
    BY <1>1, <1>3, <1>4, AppendProperties, SMTT(40)
  <1>11. Load(task.at) \in Nat
    BY <1>1, LoadLemma
  <1>. QED BY <1>8, <1>10, <1>11

(* What taking the first frame from a queue leaves.                        *)
LEMMA TailLemma ==
  ASSUME NEW S, NEW s \in Seq(S), s # <<>>
  PROVE  /\ Len(Tail(s)) = Len(s) - 1 /\ Len(s) \in Nat \ {0} /\ Len(Tail(s)) \in Nat
         /\ Head(s) = s[1] /\ Head(s) \in S
         /\ Tail(s) # <<>> => Tail(s)[Len(Tail(s))] = s[Len(s)] /\ Len(s) > 1
         /\ Tail(s) = <<>> => Len(s) = 1
         /\ \A k \in DOMAIN Tail(s) : k + 1 \in DOMAIN s /\ Tail(s)[k] = s[k+1]
  <1>1. Len(s) \in Nat \ {0}
    OBVIOUS
  <1>2. Tail(s) \in Seq(S) /\ Len(Tail(s)) = Len(s) - 1 /\ Head(s) \in S
        /\ \A i \in 1..Len(Tail(s)) : Tail(s)[i] = s[i+1]
    BY HeadTailProperties
  <1>3. DOMAIN Tail(s) = 1..Len(s)-1 /\ DOMAIN s = 1..Len(s) /\ Head(s) = s[1]
    BY <1>1, <1>2
  <1>4. Tail(s) # <<>> => Len(s) > 1
    <2>1. Tail(s) # <<>> => Len(Tail(s)) \in Nat \ {0}
      BY <1>2, EmptySeq
    <2>. QED BY <1>1, <1>2, <2>1
  <1>5. Tail(s) # <<>> => Tail(s)[Len(Tail(s))] = s[Len(s)]
    BY <1>1, <1>2, <1>4
  <1>6. Tail(s) = <<>> => Len(s) = 1
    BY <1>1, <1>2, EmptySeq
  <1>. QED BY <1>1, <1>2, <1>3, <1>4, <1>5, <1>6

LEMMA LoadReceive ==
  ASSUME TypeOK, NEW m \in Module, Receive(m)
  PROVE  /\ \A n \in Module : Load(n)' = Load(n)
         /\ Load(m) > 0
  <1>1. answers[m] \in Seq(Cmds) /\ answers[m] # <<>>
    BY DEF Receive, TypeOK
  <1>2. /\ answers'[m] = Tail(answers[m])
        /\ \A n \in Module \ {m} : answers'[n] = answers[n]
        /\ ~rx.new /\ rx'.new /\ rx'.from = m /\ UNCHANGED requests
    BY DEF Receive, TypeOK
  <1>3. Len(answers'[m]) = Len(answers[m]) - 1 /\ Len(answers[m]) \in Nat \ {0}
    BY <1>1, <1>2, TailLemma
  <1>4. Len(requests[m]) \in Nat
    BY LoadLemma
  <1>5. Load(m) = Len(requests[m]) + Len(answers[m]) + 0
    BY <1>2, Zenon DEF Load
  <1>6. Load(m)' = Len(requests[m]) + (Len(answers[m]) - 1) + 1
    BY <1>2, <1>3, Zenon DEF Load
  <1>7. \A n \in Module \ {m} : Load(n)' = Load(n)
    BY <1>2 DEF Load
  <1>8. \A a \in Nat, b \in Nat \ {0} : a + (b - 1) + 1 = a + b + 0 /\ a + b + 0 > 0
    OBVIOUS
  <1>9. Load(m)' = Load(m) /\ Load(m) > 0
    BY <1>3, <1>4, <1>5, <1>6, <1>8, Zenon
  <1>. QED BY <1>7, <1>9

LEMMA LoadServe ==
  ASSUME TypeOK, NEW m \in Module, Serve(m)
  PROVE  /\ \A n \in Module : Load(n)' = Load(n)
         /\ Load(m) > 0
  <1>. DEFINE frame == Head(requests[m])
  <1>1. requests[m] \in Seq(FrameOnBus) /\ requests[m] # <<>>
    BY DEF Serve, TypeOK, FrameOnBus
  <1>2. /\ requests'[m] = Tail(requests[m]) /\ answers'[m] = Append(answers[m], frame.cmd)
        /\ \A n \in Module \ {m} : requests'[n] = requests[n] /\ answers'[n] = answers[n]
        /\ UNCHANGED rx
    BY DEF Serve, TypeOK
  <1>3. Len(requests'[m]) = Len(requests[m]) - 1 /\ Len(requests[m]) \in Nat \ {0}
        /\ frame \in FrameOnBus
    BY <1>1, <1>2, TailLemma
  <1>4. Len(answers'[m]) = Len(answers[m]) + 1 /\ Len(answers[m]) \in Nat
    <2>1. frame.cmd \in Cmds /\ answers[m] \in Seq(Cmds)
      BY <1>3 DEF FrameOnBus, TypeOK
    <2>. QED BY <1>2, <2>1, AppendProperties
  <1>. DEFINE new == IF rx.new /\ rx.from = m THEN 1 ELSE 0
  <1>5. /\ Load(m) = Len(requests[m]) + Len(answers[m]) + new
        /\ Load(m)' = (Len(requests[m]) - 1) + (Len(answers[m]) + 1) + new
        /\ new \in {0, 1}
    BY <1>2, <1>3, <1>4, Zenon DEF Load
  <1>6. \A n \in Module \ {m} : Load(n)' = Load(n)
    BY <1>2 DEF Load
  <1>. HIDE DEF new
  <1>7. \A a \in Nat \ {0}, b \in Nat, c \in {0, 1} :
          (a - 1) + (b + 1) + c = a + b + c /\ a + b + c > 0
    OBVIOUS
  <1>8. Load(m)' = Load(m) /\ Load(m) > 0
    BY <1>3, <1>4, <1>5, <1>7, Zenon
  <1>. QED BY <1>6, <1>8

LEMMA LoadLose ==
  ASSUME TypeOK, NEW m \in Module, Lose(m)
  PROVE  /\ \A n \in Module : Load(n)' = IF n = m THEN Load(n) - 1 ELSE Load(n)
         /\ Load(m) > 0 /\ Spent' = Spent + 1
  <1>1. requests[m] \in Seq(FrameOnBus) /\ answers[m] \in Seq(Cmds)
    BY DEF TypeOK, FrameOnBus
  <1>2. Spent' = Spent + 1
    <2>1. faults' = [ losses |-> faults.losses + 1, delays |-> faults.delays,
                      budget |-> faults.budget ]
      BY FaultLemma DEF Lose
    <2>. QED BY <2>1, FaultLemma DEF Spent
  <1>. DEFINE new == IF rx.new /\ rx.from = m THEN 1 ELSE 0
  <1>3. Load(m) = Len(requests[m]) + Len(answers[m]) + new /\ new \in {0, 1}
        /\ Load(m)' = Len(requests'[m]) + Len(answers'[m]) + new
    BY Zenon DEF Lose, Load
  <1>4. Len(requests[m]) \in Nat /\ Len(answers[m]) \in Nat
    BY LoadLemma
  <1>. HIDE DEF new
  <1>5. CASE /\ requests[m] # <<>>
             /\ requests' = [requests EXCEPT ![m] = Tail(@)]
             /\ UNCHANGED answers
    <2>1. Len(requests'[m]) = Len(requests[m]) - 1 /\ Len(requests[m]) > 0
          /\ \A n \in Module \ {m} : requests'[n] = requests[n]
      BY <1>1, <1>5, TailLemma DEF TypeOK
    <2>2. \A n \in Module \ {m} : Load(n)' = Load(n)
      BY <1>5, <2>1 DEF Load, Lose
    <2>3. Load(m)' = Load(m) - 1 /\ Load(m) > 0
      <3>1. answers'[m] = answers[m] /\ Len(requests[m]) \in Nat \ {0}
        BY <1>4, <1>5, <2>1
      <3>2. Load(m)' = (Len(requests[m]) - 1) + Len(answers[m]) + new
        BY <1>3, <2>1, <3>1, Zenon
      <3>3. Load(m) = Len(requests[m]) + Len(answers[m]) + new /\ new \in {0, 1}
        BY <1>3
      <3>4. PICK a \in Nat \ {0}, b \in Nat, c \in {0, 1} :
              /\ a = Len(requests[m]) /\ b = Len(answers[m]) /\ c = new
        BY <1>4, <3>1, <3>3, Zenon
      <3>5. Load(m) = a + b + c /\ Load(m)' = (a - 1) + b + c
        BY <3>2, <3>3, <3>4, Zenon
      <3>. QED BY <3>5
    <2>. QED BY <1>2, <2>2, <2>3
  <1>6. CASE /\ answers[m] # <<>>
             /\ answers' = [answers EXCEPT ![m] = Tail(@)]
             /\ UNCHANGED requests
    <2>1. Len(answers'[m]) = Len(answers[m]) - 1 /\ Len(answers[m]) > 0
          /\ \A n \in Module \ {m} : answers'[n] = answers[n]
      BY <1>1, <1>6, TailLemma DEF TypeOK
    <2>2. \A n \in Module \ {m} : Load(n)' = Load(n)
      BY <1>6, <2>1 DEF Load, Lose
    <2>3. Load(m)' = Load(m) - 1 /\ Load(m) > 0
      <3>1. requests'[m] = requests[m] /\ Len(answers[m]) \in Nat \ {0}
        BY <1>4, <1>6, <2>1
      <3>2. Load(m)' = Len(requests[m]) + (Len(answers[m]) - 1) + new
        BY <1>3, <2>1, <3>1, Zenon
      <3>3. Load(m) = Len(requests[m]) + Len(answers[m]) + new /\ new \in {0, 1}
        BY <1>3
      <3>4. PICK a \in Nat, b \in Nat \ {0}, c \in {0, 1} :
              /\ a = Len(requests[m]) /\ b = Len(answers[m]) /\ c = new
        BY <1>4, <3>1, <3>3, Zenon
      <3>5. Load(m) = a + b + c /\ Load(m)' = a + (b - 1) + c
        BY <3>2, <3>3, <3>4, Zenon
      <3>. QED BY <3>5
    <2>. QED BY <1>2, <2>2, <2>3
  <1>. QED BY <1>5, <1>6 DEF Lose

LEMMA LoadTest ==
  ASSUME TypeOK, AbsentSilent, Test
  PROVE  /\ rx.from \in Module /\ Load(rx.from) > 0
         /\ \A n \in Module : Load(n)' = IF n = rx.from THEN Load(n) - 1 ELSE Load(n)
         /\ (Matches' <=> Matches) /\ ~rx'.new
         /\ requests[rx.from] # <<>> \/ answers[rx.from] # <<>> => Load(rx.from) > 1
  <1>1. rx.new /\ rx.from \in Module
    BY FaultLemma DEF Test, AbsentSilent
  <1>2. ~rx'.new /\ rx'.from = rx.from /\ rx'.cmd = rx.cmd
        /\ UNCHANGED <<requests, answers, read_data>>
    BY DEF Test, TypeOK, bus, threads
  <1>3. PICK m \in Module : m = rx.from
    BY <1>1
  <1>4. /\ Len(requests[m]) \in Nat /\ Len(answers[m]) \in Nat
        /\ requests[m] # <<>> => Len(requests[m]) > 0
        /\ answers[m] # <<>> => Len(answers[m]) > 0
    BY LoadLemma
  <1>5. Load(m) = Len(requests[m]) + Len(answers[m]) + 1
    BY <1>1, <1>3, Zenon DEF Load
  <1>6. Load(m)' = Len(requests[m]) + Len(answers[m]) + 0
    BY <1>2, Zenon DEF Load
  <1>7. \A n \in Module \ {m} : Load(n)' = Load(n)
    BY <1>2, <1>3 DEF Load
  <1>8. \A a, b \in Nat : /\ a + b + 0 = (a + b + 1) - 1 /\ a + b + 1 > 0
                          /\ a > 0 \/ b > 0 => a + b + 1 > 1
    OBVIOUS
  <1>9. /\ Load(m)' = Load(m) - 1 /\ Load(m) > 0
        /\ requests[m] # <<>> \/ answers[m] # <<>> => Load(m) > 1
    BY <1>4, <1>5, <1>6, <1>8, Zenon
  <1>10. Matches' <=> Matches
    BY <1>2 DEF Matches
  <1>. QED BY <1>1, <1>2, <1>3, <1>7, <1>9, <1>10

LEMMA AbsorbInit == Init => AbsorbInv
  <1>. SUFFICES ASSUME Init PROVE Absorbing
    BY DEF AbsorbInv
  <1>1. task.pc = "scan" /\ task.left = 1 /\ ~Waiting
    BY DEF Init, Begin, Waiting
  <1>2. can_rx_sem = 0 /\ ~rx.new
        /\ \A m \in Module : requests[m] = <<>> /\ answers[m] = <<>>
    BY DEF Init
  <1>3. None(Module)
    <2>1. \A m \in Module : Load(m) = Len(<<>>) + Len(<<>>) + 0
      BY <1>2, Zenon DEF Load
    <2>. QED BY <2>1 DEF None
  <1>. QED
    BY <1>1, <1>2, <1>3
    DEF Absorbing, OneLeftOver, NewestIsOwn, MisledOnce, RequestKnown

(* The CAN thread goes on to the next command, or sets out to send one.    *)
LEMMA GoesOn ==
  ASSUME TypeOK, Absorbing, ~Waiting,
         task'.pc \in {"scan", "send"}, task'.left = 1,
         UNCHANGED <<rx, can_rx_sem, requests, answers, read_data>>, Spent' = Spent
  PROVE  Absorbing'
  <1>1. ~Waiting'
    BY DEF Waiting
  <1>2. (None(Module)' <=> None(Module)) /\ (OneOf(Module)' <=> OneOf(Module))
    BY LoadSame, NoneSame
  <1>3. OneLeftOver'
    BY <1>1, <1>2 DEF Absorbing, OneLeftOver
  <1>4. NewestIsOwn' /\ MisledOnce' /\ RequestKnown'
    BY <1>1 DEF NewestIsOwn, MisledOnce, RequestKnown
  <1>. QED BY <1>3, <1>4 DEF Absorbing

LEMMA AbsorbSend ==
  ASSUME TypeOK, Absorbing, Send, Spent' = Spent, Present' = Present
  PROVE  Absorbing'
  <1>1. /\ task.pc = "send" /\ task'.pc = "wait" /\ task'.cmd = task.cmd
        /\ task'.at = task.at /\ task'.left = task.left
        /\ read_data' = [cmd |-> task.cmd, at |-> task.at]
        /\ UNCHANGED <<rx, can_rx_sem, answers>>
    BY TaskLemma DEF Send
  <1>2. ~Waiting
    BY <1>1 DEF Waiting
  <1>3. RequestKnown'
    BY <1>1 DEF Absorbing, RequestKnown
  <1>4. CASE task.at \notin Present
    <2>1. ~Waiting' /\ UNCHANGED requests
      BY <1>1, <1>4 DEF Waiting, Send
    <2>2. (None(Module)' <=> None(Module)) /\ (OneOf(Module)' <=> OneOf(Module))
      BY <1>1, <2>1, LoadSame, NoneSame
    <2>3. OneLeftOver'
      BY <1>1, <1>2, <2>1, <2>2 DEF Absorbing, OneLeftOver
    <2>4. NewestIsOwn' /\ MisledOnce'
      BY <1>1, <1>4, <2>1 DEF NewestIsOwn, MisledOnce
    <2>. QED BY <1>3, <2>3, <2>4 DEF Absorbing
  <1>5. CASE task.at \in Present
    <2>1. Waiting'
      BY <1>1, <1>5 DEF Waiting
    <2>2. PICK at \in Module : at = task.at
      BY DEF TypeOK
    <2>3. /\ Load(at) \in Nat /\ Load(at)' = Load(at) + 1
          /\ \A m \in Module \ {at} : Load(m)' = Load(m)
      BY <1>5, <2>2, LoadSend
    <2>4. /\ Taken' = Load(at)' + can_rx_sem
          /\ None(Others)' <=> \A m \in Module \ {at} : Load(m)' = 0
          /\ OneOf(Others)' <=> \E x \in Module \ {at} :
               \A m \in Module \ {at} : Load(m)' = IF m = x THEN 1 ELSE 0
      BY <1>1, <2>2, CountsNext
    <2>5. OneLeftOver'
      <3>1. CASE can_rx_sem = 0 /\ None(Module)
        <4>1. Taken' = 1 /\ None(Others)'
          BY <2>2, <2>3, <2>4, <3>1 DEF None
        <4>. QED BY <2>1, <4>1 DEF OneLeftOver
      <3>2. CASE Spent = 1 /\ can_rx_sem = 1 /\ None(Module)
        <4>1. Taken' = 2 /\ None(Others)'
          BY <2>2, <2>3, <2>4, <3>2 DEF None
        <4>. QED BY <2>1, <3>2, <4>1 DEF OneLeftOver
      <3>3. CASE Spent = 1 /\ can_rx_sem = 0 /\ OneOf(Module)
        <4>1. PICK x \in Module : \A m \in Module : Load(m) = IF m = x THEN 1 ELSE 0
          BY <3>3 DEF OneOf
        <4>2. CASE x = at
          <5>1. Taken' = 2 /\ None(Others)'
            BY <2>2, <2>3, <2>4, <3>3, <4>1, <4>2
          <5>. QED BY <2>1, <3>3, <5>1 DEF OneLeftOver
        <4>3. CASE x # at
          <5>1. Taken' = 1 /\ OneOf(Others)'
            BY <2>2, <2>3, <2>4, <3>3, <4>1, <4>3
          <5>. QED BY <2>1, <3>3, <5>1 DEF OneLeftOver
        <4>. QED BY <4>2, <4>3
      <3>. QED BY <1>2, <3>1, <3>2, <3>3 DEF Absorbing, OneLeftOver
    <2>6. NewestIsOwn'
      BY <1>1, <1>5, LoadSend DEF NewestIsOwn
    <2>7. /\ \A m \in Module \ {at} : requests'[m] = requests[m] /\ answers'[m] = answers[m]
          /\ \A k \in DOMAIN requests'[at] :
                \/ requests'[at][k].cmd = task.cmd
                \/ k \in DOMAIN requests[at] /\ requests'[at][k] = requests[at][k]
      BY <1>1, <1>5, <2>2, LoadSend DEF Send, TypeOK
    <2>8. OnlyOwn => OnlyOwn'
      <3>. SUFFICES ASSUME OnlyOwn PROVE OnlyOwn'
        OBVIOUS
      <3>1. ASSUME NEW m \in Module \ {at}
            PROVE  requests'[m] = <<>> /\ answers'[m] = <<>>
        BY <2>2, <2>7 DEF OnlyOwn
      <3>2. /\ \A k \in DOMAIN requests'[at] : requests'[at][k].cmd = task.cmd
            /\ \A k \in DOMAIN answers'[at] : answers'[at][k] = task.cmd
        BY <1>1, <2>2, <2>7 DEF OnlyOwn
      <3>. QED BY <1>1, <2>2, <3>1, <3>2 DEF OnlyOwn
    <2>9. CASE task.left = 0
      <3>1. /\ read_data = [cmd |-> task.cmd, at |-> task.at] /\ OnlyOwn
            /\ can_rx_sem > 0 => Matches
        BY <1>1, <1>5, <2>9 DEF Absorbing, MisledOnce
      <3>2. Matches' <=> Matches
        BY <1>1, <3>1 DEF Matches
      <3>3. MisledOnce'
        BY <1>1, <2>8, <3>1, <3>2 DEF MisledOnce
      <3>. QED BY <1>3, <2>5, <2>6, <3>3 DEF Absorbing
    <2>10. CASE task.left = 1
      <3>1. can_rx_sem > 0 => can_rx_sem = 1 /\ Spent = 1 /\ None(Module)
        BY <1>2 DEF Absorbing, OneLeftOver
      <3>2. None(Module) => OnlyOwn
        BY LoadLemma DEF None, OnlyOwn
      <3>3. MisledOnce'
        BY <1>1, <2>8, <2>10, <3>1, <3>2 DEF MisledOnce
      <3>. QED BY <1>3, <2>5, <2>6, <3>3 DEF Absorbing
    <2>. QED BY <2>9, <2>10 DEF TypeOK
  <1>. QED BY <1>4, <1>5

LEMMA AbsorbWoken ==
  ASSUME TypeOK, Absorbing, Woken, Spent' = Spent, Present' = Present
  PROVE  Absorbing'
  <1>1. /\ task.pc = "wait" /\ can_rx_sem > 0 /\ can_rx_sem' = can_rx_sem - 1
        /\ task'.at = task.at /\ task'.cmd = task.cmd
        /\ UNCHANGED <<read_data, rx, requests, answers>>
        /\ \/ Matches /\ task'.pc = "done"
           \/ /\ ~Matches /\ task'.pc \in {"send", "failed"} /\ task'.left = 0
              /\ task'.pc = "send" <=> task.left = 1
    BY TaskLemma DEF Woken, bus
  <1>2. ~Waiting'
    BY <1>1 DEF Waiting
  <1>3. (None(Module)' <=> None(Module)) /\ (OneOf(Module)' <=> OneOf(Module))
    BY <1>1, LoadSame, NoneSame
  <1>4. PICK at \in Module : at = task.at
    BY DEF TypeOK
  <1>5. Load(at) \in Nat /\ can_rx_sem \in Nat /\ Taken = Load(at) + can_rx_sem
    BY <1>4, LoadLemma DEF Taken, TypeOK
  <1>6. OneLeftOver'
    <2>1. CASE ~Waiting
      BY <1>1, <1>2, <1>3, <1>5, <2>1 DEF Absorbing, OneLeftOver
    <2>2. CASE Waiting /\ Taken = 1 /\ None(Others)
      <3>1. can_rx_sem' = 0 /\ Load(at) = 0
        BY <1>1, <1>5, <2>2
      <3>2. None(Module)
        BY <1>4, <2>2, <3>1 DEF None, Others
      <3>. QED BY <1>2, <1>3, <3>1, <3>2 DEF OneLeftOver
    <2>3. CASE Waiting /\ Taken = 2 /\ None(Others) /\ Spent = 1
      <3>1. \/ can_rx_sem' = 0 /\ Load(at) = 1
            \/ can_rx_sem' = 1 /\ Load(at) = 0
        BY <1>1, <1>5, <2>3
      <3>2. CASE can_rx_sem' = 0 /\ Load(at) = 1
        <4>1. OneOf(Module)
          BY <1>4, <2>3, <3>2 DEF None, OneOf, Others
        <4>. QED BY <1>2, <1>3, <2>3, <3>2, <4>1 DEF OneLeftOver
      <3>3. CASE can_rx_sem' = 1 /\ Load(at) = 0
        <4>1. None(Module)
          BY <1>4, <2>3, <3>3 DEF None, Others
        <4>. QED BY <1>2, <1>3, <2>3, <3>3, <4>1 DEF OneLeftOver
      <3>. QED BY <3>1, <3>2, <3>3
    <2>4. CASE Waiting /\ Taken = 1 /\ OneOf(Others) /\ Spent = 1
      <3>1. can_rx_sem' = 0 /\ Load(at) = 0
        BY <1>1, <1>5, <2>4
      <3>2. OneOf(Module)
        BY <1>4, <2>4, <3>1 DEF OneOf, Others
      <3>. QED BY <1>2, <1>3, <2>4, <3>1, <3>2 DEF OneLeftOver
    <2>5. Taken # 0
      BY <1>1, <1>5
    <2>. QED BY <2>1, <2>2, <2>3, <2>4, <2>5 DEF Absorbing, OneLeftOver
  <1>7. NewestIsOwn'
    BY <1>2 DEF NewestIsOwn
  <1>8. CASE task.at \notin Present \/ Matches
    BY <1>1, <1>2, <1>6, <1>7, <1>8 DEF Absorbing, MisledOnce, RequestKnown
  <1>9. CASE task.at \in Present /\ ~Matches
    <2>1. Waiting
      BY <1>1, <1>9 DEF Waiting
    <2>2. can_rx_sem = 1 /\ OnlyOwn /\ Spent = 1
      BY <1>1, <1>9, <2>1 DEF Absorbing, MisledOnce
    <2>3. task.left # 0
      BY <1>1, <1>9 DEF Absorbing, MisledOnce
    <2>4. task'.pc = "send"
      BY <1>1, <1>9, <2>3 DEF TypeOK
    <2>5. read_data' = [cmd |-> task'.cmd, at |-> task'.at]
      BY <1>1 DEF Absorbing, RequestKnown
    <2>6. OnlyOwn'
      BY <1>1, <2>2 DEF OnlyOwn
    <2>7. can_rx_sem' = 0
      BY <1>1, <2>2
    <2>8. MisledOnce' /\ RequestKnown'
      BY <1>2, <2>2, <2>4, <2>5, <2>6, <2>7 DEF MisledOnce, RequestKnown
    <2>. QED BY <1>6, <1>7, <2>8 DEF Absorbing
  <1>. QED BY <1>8, <1>9

LEMMA AbsorbTimedOut ==
  ASSUME TypeOK, AbsentSilent, Spent <= 1, Absorbing, TimedOut, Spent' <= 1,
         Present' = Present
  PROVE  Absorbing'
  <1>1. /\ task.pc = "wait" /\ can_rx_sem = 0 /\ can_rx_sem' = 0
        /\ task'.at = task.at /\ task'.cmd = task.cmd
        /\ UNCHANGED <<read_data, rx, requests, answers>>
        /\ task'.pc \in {"send", "failed"} /\ task'.left = 0
        /\ task'.pc = "send" <=> task.left = 1
    BY TaskLemma DEF TimedOut, bus
  <1>2. ~Waiting'
    BY <1>1 DEF Waiting
  <1>3. (None(Module)' <=> None(Module)) /\ (OneOf(Module)' <=> OneOf(Module))
    BY <1>1, LoadSame, NoneSame
  <1>4. PICK at \in Module : at = task.at
    BY DEF TypeOK
  <1>5. Load(at) \in Nat /\ Taken = Load(at)
    BY <1>1, <1>4, LoadLemma DEF Taken
  <1>6. IF OnItsWay(task.at) THEN Spent = 0 /\ Spent' = 1 ELSE Spent' = Spent
    <2>1. CASE OnItsWay(task.at)
      <3>1. faults' = [ losses |-> faults.losses, delays |-> faults.delays + 1,
                        budget |-> faults.budget ]
        BY <2>1, FaultLemma DEF TimedOut
      <3>2. Spent' = Spent + 1 /\ Spent \in Nat
        BY <3>1, FaultLemma DEF Spent
      <3>. QED BY <2>1, <3>2
    <2>2. CASE ~OnItsWay(task.at)
      BY <2>2 DEF TimedOut, Spent
    <2>. QED BY <2>1, <2>2
  <1>7. NewestIsOwn'
    BY <1>2 DEF NewestIsOwn
  <1>8. CASE task.at \notin Present
    <2>1. ~Waiting
      BY <1>8 DEF Waiting
    <2>2. ~OnItsWay(task.at)
      <3>. SUFFICES ASSUME OnItsWay(task.at) PROVE FALSE
        OBVIOUS
      <3>1. Spent = 0 /\ None(Module)
        BY <1>6, <2>1 DEF Absorbing, OneLeftOver
      <3>2. rx.new /\ rx.from \in Module
        BY <1>4, <1>8, FaultLemma DEF OnItsWay, AbsentSilent
      <3>3. PICK m \in Module : m = rx.from
        BY <3>2
      <3>. QED BY <3>1, <3>2, <3>3, LoadLemma DEF None
    <2>3. OneLeftOver'
      BY <1>1, <1>2, <1>3, <1>6, <2>1, <2>2 DEF Absorbing, OneLeftOver
    <2>. QED BY <1>1, <1>2, <1>7, <1>8, <2>3 DEF Absorbing, MisledOnce, RequestKnown
  <1>9. CASE task.at \in Present
    <2>1. Waiting
      BY <1>1, <1>9 DEF Waiting
    <2>2. read_data' = [cmd |-> task'.cmd, at |-> task'.at]
      BY <1>1 DEF Absorbing, RequestKnown
    <2>3. CASE Taken = 0 /\ None(Others) /\ Spent = 1 /\ task.left = 1
      <3>1. None(Module)
        BY <1>4, <1>5, <2>3 DEF None, Others
      <3>2. OnlyOwn'
        BY <1>1, <3>1, LoadLemma DEF None, OnlyOwn
      <3>3. OneLeftOver'
        BY <1>1, <1>2, <1>3, <3>1 DEF OneLeftOver
      <3>4. task'.pc = "send" /\ Spent' = 1
        BY <1>1, <1>6, <2>3
      <3>5. MisledOnce' /\ RequestKnown'
        BY <1>1, <1>2, <2>2, <3>2, <3>4 DEF MisledOnce, RequestKnown
      <3>. QED BY <1>7, <3>3, <3>5 DEF Absorbing
    <2>4. CASE Taken # 0
      <3>1. OnItsWay(task.at)
        <4>1. CASE requests[at] # <<>> \/ answers[at] # <<>> \/ rx.new
          BY <1>4, <4>1 DEF OnItsWay
        <4>2. CASE requests[at] = <<>> /\ answers[at] = <<>> /\ ~rx.new
          <5>1. Load(at) = Len(<<>>) + Len(<<>>) + 0
            BY <4>2, Zenon DEF Load
          <5>. QED BY <1>5, <2>4, <5>1
        <4>. QED BY <4>1, <4>2
      <3>2. Spent = 0 /\ Spent' = 1
        BY <1>6, <3>1
      <3>3. Load(at) = 1 /\ None(Others)
        BY <1>5, <2>1, <2>4, <3>2 DEF Absorbing, OneLeftOver
      <3>4. OneOf(Module)
        BY <1>4, <3>3 DEF None, OneOf, Others
      <3>5. OneLeftOver'
        BY <1>1, <1>2, <1>3, <3>2, <3>4 DEF OneLeftOver
      <3>6. task.left = 1
        BY <1>1, <1>9, <3>2 DEF Absorbing, RequestKnown, TypeOK
      <3>7. OnlyOwn
        <4>1. \A m \in Module \ {at} : requests[m] = <<>> /\ answers[m] = <<>>
          BY <1>4, <3>3, LoadLemma DEF None, Others
        <4>2. /\ requests[at] # <<>> => requests[at][Len(requests[at])].cmd = task.cmd
              /\ requests[at] = <<>> /\ answers[at] # <<>> =>
                   answers[at][Len(answers[at])] = task.cmd
          BY <1>4, <2>1 DEF Absorbing, NewestIsOwn
        <4>3. /\ Len(requests[at]) <= 1 /\ Len(answers[at]) <= 1
              /\ Len(requests[at]) = 0 \/ Len(answers[at]) = 0
              /\ requests[at] \in Seq(FrameOnBus) /\ answers[at] \in Seq(Cmds)
          <5>1. Load(at) = Len(requests[at]) + Len(answers[at])
                             + (IF rx.new /\ rx.from = at THEN 1 ELSE 0)
            BY DEF Load
          <5>2. (IF rx.new /\ rx.from = at THEN 1 ELSE 0) \in {0, 1}
            BY Zenon
          <5>3. PICK a \in Nat, b \in Nat, c \in {0, 1} :
                  /\ a = Len(requests[at]) /\ b = Len(answers[at])
                  /\ c = IF rx.new /\ rx.from = at THEN 1 ELSE 0
            BY <5>2, LoadLemma, Zenon
          <5>4. a + b + c = 1
            BY <3>3, <5>1, <5>3, Zenon
          <5>5. a <= 1 /\ b <= 1 /\ (a = 0 \/ b = 0)
            BY <5>4
          <5>. QED BY <5>3, <5>5 DEF TypeOK, FrameOnBus
        <4>4. ASSUME NEW k \in DOMAIN requests[at]
              PROVE  requests[at][k].cmd = task.cmd
          <5>1. k \in 1..Len(requests[at])
            BY <4>3
          <5>2. k = Len(requests[at]) /\ requests[at] # <<>>
            BY <4>3, <5>1, LoadLemma
          <5>. QED BY <4>2, <5>2
        <4>5. ASSUME NEW k \in DOMAIN answers[at]
              PROVE  answers[at][k] = task.cmd
          <5>1. k \in 1..Len(answers[at])
            BY <4>3
          <5>2. k = Len(answers[at]) /\ answers[at] # <<>> /\ Len(requests[at]) = 0
            BY <4>3, <5>1, LoadLemma
          <5>3. requests[at] = <<>>
            BY <5>2, LoadLemma
          <5>. QED BY <4>2, <5>2, <5>3
        <4>. QED BY <1>4, <4>1, <4>4, <4>5 DEF OnlyOwn
      <3>8. MisledOnce' /\ RequestKnown'
        <4>1. OnlyOwn'
          BY <1>1, <3>7 DEF OnlyOwn
        <4>. QED
          BY <1>1, <1>2, <2>2, <3>2, <3>6, <4>1 DEF MisledOnce, RequestKnown
      <3>. QED BY <1>7, <3>5, <3>8 DEF Absorbing
    <2>. QED BY <2>1, <2>3, <2>4 DEF Absorbing, OneLeftOver
  <1>. QED BY <1>8, <1>9

LEMMA AbsorbTest ==
  ASSUME TypeOK, AbsentSilent, Absorbing, Test, Spent' = Spent, Present' = Present
  PROVE  Absorbing'
  <1>1. /\ UNCHANGED <<task, read_data, requests, answers>>
        /\ can_rx_sem' = IF Matches THEN can_rx_sem + 1 ELSE can_rx_sem
    BY DEF Test, threads, bus
  <1>2. PICK m \in Module : m = rx.from
    BY LoadTest
  <1>3. PICK at \in Module : at = task.at
    BY DEF TypeOK
  <1>4. /\ Load(m) > 0 /\ Load(m)' = Load(m) - 1
        /\ \A n \in Module \ {m} : Load(n)' = Load(n)
        /\ (Matches' <=> Matches) /\ ~rx'.new
        /\ requests[m] # <<>> \/ answers[m] # <<>> => Load(m) > 1
    BY <1>2, LoadTest
  <1>5. /\ \A n \in Module : Load(n) \in Nat
        /\ can_rx_sem \in Nat /\ Taken = Load(at) + can_rx_sem
    BY <1>3, LoadLemma DEF Taken, TypeOK
  <1>6. /\ Taken' = Load(at)' + can_rx_sem'
        /\ None(Others)' <=> \A n \in Module \ {at} : Load(n)' = 0
        /\ OneOf(Others)' <=> \E x \in Module \ {at} :
             \A n \in Module \ {at} : Load(n)' = IF n = x THEN 1 ELSE 0
    BY <1>1, <1>3, CountsNext
  <1>7. Waiting' <=> Waiting
    BY <1>1 DEF Waiting
  <1>8. OneLeftOver'
    <2>1. CASE ~Waiting
      <3>1. ~None(Module)
        BY <1>4 DEF None
      <3>2. Spent = 1 /\ can_rx_sem = 0 /\ OneOf(Module)
        BY <2>1, <3>1 DEF Absorbing, OneLeftOver
      <3>3. None(Module)'
        BY <1>4, <3>2 DEF None, OneOf
      <3>4. can_rx_sem' \in {0, 1}
        BY <1>1, <3>2
      <3>. QED BY <1>7, <2>1, <3>2, <3>3, <3>4 DEF OneLeftOver
    <2>2. CASE Waiting /\ m # at
      <3>1. ~Matches
        BY <1>2, <1>3, <2>2 DEF Absorbing, RequestKnown, Matches, Waiting
      <3>2. ~None(Others)
        BY <1>3, <1>4, <2>2 DEF None, Others
      <3>3. Taken = 1 /\ OneOf(Others) /\ Spent = 1
        BY <2>2, <3>2 DEF Absorbing, OneLeftOver
      <3>4. Taken' = 1
        BY <1>1, <1>4, <1>5, <1>6, <2>2, <3>1, <3>3
      <3>5. \A n \in Module \ {at} : Load(n)' = 0
        BY <1>3, <1>4, <2>2, <3>3 DEF OneOf, Others
      <3>. QED BY <1>6, <1>7, <2>2, <3>4, <3>5 DEF OneLeftOver
    <2>3. CASE Waiting /\ m = at /\ Matches
      <3>1. Taken' = Taken
        BY <1>1, <1>4, <1>5, <1>6, <2>3, SMTT(40)
      <3>2. (None(Others)' <=> None(Others)) /\ (OneOf(Others)' <=> OneOf(Others))
        BY <1>3, <1>4, <1>6, <2>3 DEF None, OneOf, Others
      <3>3. task'.left = task.left
        BY <1>1
      <3>. QED BY <1>7, <2>3, <3>1, <3>2, <3>3 DEF Absorbing, OneLeftOver
    <2>4. CASE Waiting /\ m = at /\ ~Matches
      <3>1. requests[m] # <<>> \/ answers[m] # <<>>
        BY <1>2, <1>3, <2>4 DEF Absorbing, NewestIsOwn, Test
      <3>2. Taken > 1
        BY <1>4, <1>5, <2>4, <3>1
      <3>3. Taken = 2 /\ None(Others) /\ Spent = 1
        BY <2>4, <3>2 DEF Absorbing, OneLeftOver
      <3>4. Taken' = 1
        BY <1>1, <1>4, <1>5, <1>6, <2>4, <3>3
      <3>5. None(Others)'
        BY <1>3, <1>4, <1>6, <2>4, <3>3 DEF None, Others
      <3>. QED BY <1>7, <2>4, <3>4, <3>5 DEF OneLeftOver
    <2>. QED BY <2>1, <2>2, <2>3, <2>4
  <1>9. NewestIsOwn'
    BY <1>1, <1>4, <1>7 DEF Absorbing, NewestIsOwn
  <1>10. OnlyOwn' <=> OnlyOwn
    BY <1>1 DEF OnlyOwn
  <1>11. can_rx_sem' > 0 /\ ~Matches' => can_rx_sem' = can_rx_sem /\ ~Matches
    BY <1>1, <1>4
  <1>12. MisledOnce'
    BY <1>1, <1>7, <1>10, <1>11 DEF Absorbing, MisledOnce
  <1>13. RequestKnown'
    BY <1>1 DEF Absorbing, RequestKnown
  <1>. QED BY <1>8, <1>9, <1>12, <1>13 DEF Absorbing

(* Frames move on, none is added or lost.                                  *)
LEMMA CountsKept ==
  ASSUME TypeOK, OneLeftOver, UNCHANGED <<task, can_rx_sem>>, Spent' = Spent,
         Present' = Present, \A n \in Module : Load(n)' = Load(n)
  PROVE  OneLeftOver'
  <1>1. PICK at \in Module : at = task.at
    BY DEF TypeOK
  <1>2. Waiting' <=> Waiting
    BY DEF Waiting
  <1>3. (None(Module)' <=> None(Module)) /\ (OneOf(Module)' <=> OneOf(Module))
    BY NoneSame
  <1>4. /\ Taken' = Load(at)' + can_rx_sem'
        /\ None(Others)' <=> \A n \in Module \ {at} : Load(n)' = 0
        /\ OneOf(Others)' <=> \E x \in Module \ {at} :
             \A n \in Module \ {at} : Load(n)' = IF n = x THEN 1 ELSE 0
    BY <1>1, CountsNext
  <1>5. Taken' = Taken /\ (None(Others)' <=> None(Others))
          /\ (OneOf(Others)' <=> OneOf(Others))
    BY <1>1, <1>4 DEF Taken, None, OneOf, Others
  <1>. QED BY <1>2, <1>3, <1>5 DEF OneLeftOver

LEMMA AbsorbReceive ==
  ASSUME TypeOK, Absorbing, NEW m \in Module, Receive(m), Spent' = Spent,
         Present' = Present
  PROVE  Absorbing'
  <1>1. /\ UNCHANGED <<task, read_data, requests, can_rx_sem>>
        /\ rx' = [cmd |-> Head(answers[m]), from |-> m, new |-> TRUE]
        /\ answers'[m] = Tail(answers[m])
        /\ \A n \in Module \ {m} : answers'[n] = answers[n]
        /\ answers[m] # <<>> /\ answers[m] \in Seq(Cmds)
    BY DEF Receive, threads, TypeOK
  <1>2. PICK at \in Module : at = task.at
    BY DEF TypeOK
  <1>3. Load(m) > 0 /\ \A n \in Module : Load(n)' = Load(n)
    BY LoadReceive
  <1>4. OneLeftOver'
    BY <1>1, <1>3, CountsKept DEF Absorbing
  <1>5. Waiting' <=> Waiting
    BY <1>1 DEF Waiting
  <1>6. m = at /\ Head(answers[m]) = task.cmd /\ read_data = [cmd |-> task.cmd, at |-> task.at]
          => Matches'
    BY <1>1, <1>2 DEF Matches
  <1>7. NewestIsOwn'
    <2>. SUFFICES ASSUME Waiting PROVE NewestIsOwn'
      BY <1>5 DEF NewestIsOwn
    <2>1. read_data = [cmd |-> task.cmd, at |-> task.at]
      BY DEF Waiting, Absorbing, RequestKnown
    <2>2. CASE m = at
      <3>1. requests[at] = <<>> => answers[at][Len(answers[at])] = task.cmd
        BY <1>1, <1>2, <2>2 DEF Absorbing, NewestIsOwn
      <3>2. /\ answers'[at] # <<>> => answers'[at][Len(answers'[at])] = answers[at][Len(answers[at])]
            /\ answers'[at] = <<>> => Head(answers[at]) = answers[at][Len(answers[at])]
        BY <1>1, <2>2, TailLemma
      <3>3. requests[at] # <<>> => requests[at][Len(requests[at])].cmd = task.cmd
        BY <1>2 DEF Absorbing, NewestIsOwn
      <3>. QED BY <1>1, <1>2, <1>6, <2>1, <2>2, <3>1, <3>2, <3>3 DEF NewestIsOwn
    <2>3. CASE m # at
      BY <1>1, <1>2, <2>3 DEF Absorbing, NewestIsOwn
    <2>. QED BY <2>2, <2>3
  <1>8. OnlyOwn => OnlyOwn' /\ m = at /\ Head(answers[m]) = task.cmd
    <2>. SUFFICES ASSUME OnlyOwn
                  PROVE  OnlyOwn' /\ m = at /\ Head(answers[m]) = task.cmd
      OBVIOUS
    <2>1. m = at /\ \A k \in DOMAIN answers[m] : answers[m][k] = task.cmd
      BY <1>1, <1>2 DEF OnlyOwn
    <2>2. Head(answers[m]) = task.cmd /\ \A k \in DOMAIN answers'[m] : answers'[m][k] = task.cmd
      <3>1. Head(answers[m]) = answers[m][1] /\ 1 \in DOMAIN answers[m]
        BY <1>1, TailLemma
      <3>2. \A k \in DOMAIN answers'[m] :
              k + 1 \in DOMAIN answers[m] /\ answers'[m][k] = answers[m][k+1]
        BY <1>1, TailLemma
      <3>. QED BY <2>1, <3>1, <3>2
    <2>3. \A n \in Module \ {at} : answers'[n] = <<>> /\ requests'[n] = <<>>
      BY <1>1, <1>2, <2>1 DEF OnlyOwn
    <2>4. \A k \in DOMAIN requests'[at] : requests'[at][k].cmd = task.cmd
      BY <1>1, <1>2 DEF OnlyOwn
    <2>5. task'.at = at /\ task'.cmd = task.cmd
      BY <1>1, <1>2
    <2>6. OnlyOwn'
      BY <2>1, <2>2, <2>3, <2>4, <2>5, Zenon DEF OnlyOwn
    <2>. QED BY <2>1, <2>2, <2>6
  <1>9. Waiting /\ can_rx_sem > 0 => can_rx_sem = 1 /\ Spent = 1 /\ OnlyOwn'
    <2>. SUFFICES ASSUME Waiting, can_rx_sem > 0
                  PROVE  can_rx_sem = 1 /\ Spent = 1 /\ OnlyOwn'
      OBVIOUS
    <2>1. /\ \A n \in Module : Load(n) \in Nat
          /\ can_rx_sem \in Nat /\ Taken = Load(at) + can_rx_sem
      BY <1>2, LoadLemma DEF Taken, TypeOK
    <2>2. can_rx_sem = 1 /\ Spent = 1 /\ Load(m) = 1 /\ \A n \in Module \ {m} : Load(n) = 0
      <3>1. CASE Taken = 1 /\ None(Others)
        <4>1. Load(at) = 0
          BY <2>1, <3>1
        <4>. QED BY <1>2, <1>3, <3>1, <4>1 DEF None, Others
      <3>2. CASE Taken = 2 /\ None(Others) /\ Spent = 1
        <4>1. m = at
          BY <1>2, <1>3, <3>2 DEF None, Others
        <4>2. Load(at) > 0
          BY <1>3, <4>1
        <4>3. Load(at) = 1 /\ can_rx_sem = 1
          BY <2>1, <3>2, <4>2
        <4>. QED BY <1>2, <3>2, <4>1, <4>3 DEF None, Others
      <3>3. CASE Taken = 1 /\ OneOf(Others) /\ Spent = 1
        <4>1. Load(at) = 0 /\ can_rx_sem = 1
          BY <2>1, <3>3
        <4>2. m # at
          BY <1>3, <4>1
        <4>. QED BY <1>2, <1>3, <3>3, <4>1, <4>2 DEF OneOf, Others
      <3>. QED BY <2>1, <3>1, <3>2, <3>3 DEF Absorbing, OneLeftOver
    <2>3. \A n \in Module \ {m} : requests'[n] = <<>> /\ answers'[n] = <<>>
      BY <1>1, <2>2, LoadLemma
    <2>4. requests'[m] = <<>> /\ answers'[m] = <<>>
      <3>1. ~rx.new
        BY DEF Receive
      <3>2. Load(m) = Len(requests[m]) + Len(answers[m]) + 0
        BY <3>1, Zenon DEF Load
      <3>3. PICK a \in Nat, b \in Nat \ {0} : a = Len(requests[m]) /\ b = Len(answers[m])
        BY <1>1, LoadLemma
      <3>4. a + b + 0 = 1
        BY <2>2, <3>2, <3>3, Zenon
      <3>5. a = 0 /\ b = 1
        BY <3>4
      <3>6. requests[m] = <<>>
        <4>1. Len(requests[m]) = 0
          BY <3>3, <3>5
        <4>. QED BY <1>1, <4>1, LoadLemma
      <3>7. answers'[m] = <<>>
        <4>1. Len(answers[m]) = 1
          BY <3>3, <3>5
        <4>. QED BY <1>1, <4>1, TailLemma
      <3>. QED BY <1>1, <3>6, <3>7
    <2>. QED BY <2>2, <2>3, <2>4 DEF OnlyOwn
  <1>10. MisledOnce'
    <2>1. Waiting' /\ can_rx_sem' > 0 => can_rx_sem' = 1 /\ OnlyOwn' /\ Spent' = 1
      BY <1>1, <1>5, <1>9
    <2>2. task.pc \in {"send", "wait"} /\ task.at \in Present /\ task.left = 0 =>
            read_data = [cmd |-> task.cmd, at |-> task.at] /\ OnlyOwn
      BY DEF Absorbing, MisledOnce
    <2>. QED BY <1>1, <1>6, <1>8, <2>1, <2>2 DEF MisledOnce
  <1>11. RequestKnown'
    BY <1>1 DEF Absorbing, RequestKnown
  <1>. QED BY <1>4, <1>7, <1>10, <1>11 DEF Absorbing

(* What the frames of a module are once it has served the oldest request.  *)
LEMMA ServeFrames ==
  ASSUME TypeOK, NEW m \in Module, Serve(m)
  PROVE  /\ requests'[m] = Tail(requests[m]) /\ requests[m] # <<>>
         /\ requests[m] \in Seq(FrameOnBus)
         /\ answers'[m] # <<>> /\ answers[m] \in Seq(Cmds)
         /\ answers'[m][Len(answers'[m])] = requests[m][1].cmd
         /\ \A k \in DOMAIN answers'[m] :
              \/ answers'[m][k] = requests[m][1].cmd
              \/ k \in DOMAIN answers[m] /\ answers'[m][k] = answers[m][k]
         /\ \A n \in Module \ {m} : requests'[n] = requests[n] /\ answers'[n] = answers[n]
  <1>. DEFINE cmd == Head(requests[m]).cmd
  <1>1. requests[m] \in Seq(FrameOnBus) /\ requests[m] # <<>> /\ answers[m] \in Seq(Cmds)
    BY DEF Serve, TypeOK, FrameOnBus
  <1>2. /\ requests'[m] = Tail(requests[m]) /\ answers'[m] = Append(answers[m], cmd)
        /\ \A n \in Module \ {m} : requests'[n] = requests[n] /\ answers'[n] = answers[n]
    BY DEF Serve, TypeOK
  <1>3. cmd \in Cmds /\ cmd = requests[m][1].cmd
    <2>1. Head(requests[m]) \in FrameOnBus /\ Head(requests[m]) = requests[m][1]
      BY <1>1, TailLemma
    <2>. QED BY <2>1 DEF FrameOnBus
  <1>. HIDE DEF cmd
  <1>4. /\ answers'[m] # <<>> /\ answers'[m][Len(answers'[m])] = cmd
        /\ \A k \in DOMAIN answers'[m] :
             \/ answers'[m][k] = cmd
             \/ k \in DOMAIN answers[m] /\ answers'[m][k] = answers[m][k]
    BY <1>1, <1>2, <1>3, AppendProperties
  <1>. QED BY <1>1, <1>2, <1>3, <1>4

LEMMA AbsorbServe ==
  ASSUME TypeOK, Absorbing, NEW m \in Module, Serve(m), Spent' = Spent,
         Present' = Present
  PROVE  Absorbing'
  <1>1. UNCHANGED <<task, read_data, rx, can_rx_sem>> /\ (Matches' <=> Matches)
    BY DEF Serve, threads, Matches
  <1>2. PICK at \in Module : at = task.at
    BY DEF TypeOK
  <1>3. OneLeftOver'
    BY <1>1, LoadServe, CountsKept DEF Absorbing
  <1>4. Waiting' <=> Waiting
    BY <1>1 DEF Waiting
  <1>5. /\ requests'[m] = Tail(requests[m]) /\ requests[m] # <<>>
        /\ requests[m] \in Seq(FrameOnBus)
        /\ answers'[m] # <<>>
        /\ answers'[m][Len(answers'[m])] = requests[m][1].cmd
        /\ \A k \in DOMAIN answers'[m] :
             \/ answers'[m][k] = requests[m][1].cmd
             \/ k \in DOMAIN answers[m] /\ answers'[m][k] = answers[m][k]
        /\ \A n \in Module \ {m} : requests'[n] = requests[n] /\ answers'[n] = answers[n]
    BY ServeFrames
  <1>6. /\ requests'[m] # <<>> =>
             requests'[m][Len(requests'[m])] = requests[m][Len(requests[m])]
        /\ requests'[m] = <<>> => Len(requests[m]) = 1
        /\ 1 \in DOMAIN requests[m]
        /\ \A k \in DOMAIN requests'[m] :
             k + 1 \in DOMAIN requests[m] /\ requests'[m][k] = requests[m][k+1]
    BY <1>5, TailLemma
  <1>7. NewestIsOwn'
    <2>. SUFFICES ASSUME Waiting PROVE NewestIsOwn'
      BY <1>4 DEF NewestIsOwn
    <2>1. CASE m = at
      <3>1. requests[at][Len(requests[at])].cmd = task.cmd
        BY <1>2, <1>5, <2>1 DEF Absorbing, NewestIsOwn
      <3>2. requests'[at] # <<>> => requests'[at][Len(requests'[at])].cmd = task.cmd
        BY <1>6, <2>1, <3>1
      <3>3. requests'[at] = <<>> => answers'[at][Len(answers'[at])] = task.cmd
        BY <1>5, <1>6, <2>1, <3>1
      <3>. QED BY <1>1, <1>2, <1>5, <2>1, <3>2, <3>3 DEF NewestIsOwn
    <2>2. CASE m # at
      BY <1>1, <1>2, <1>5, <2>2 DEF Absorbing, NewestIsOwn
    <2>. QED BY <2>1, <2>2
  <1>8. OnlyOwn => OnlyOwn'
    <2>. SUFFICES ASSUME OnlyOwn PROVE OnlyOwn'
      OBVIOUS
    <2>1. /\ m = at
          /\ \A k \in DOMAIN requests[m] : requests[m][k].cmd = task.cmd
          /\ \A k \in DOMAIN answers[m] : answers[m][k] = task.cmd
      BY <1>2, <1>5 DEF OnlyOwn
    <2>2. /\ \A k \in DOMAIN requests'[m] : requests'[m][k].cmd = task.cmd
          /\ \A k \in DOMAIN answers'[m] : answers'[m][k] = task.cmd
      BY <1>5, <1>6, <2>1
    <2>3. \A n \in Module \ {m} : requests'[n] = <<>> /\ answers'[n] = <<>>
      BY <1>2, <1>5, <2>1 DEF OnlyOwn
    <2>. QED BY <1>1, <1>2, <2>1, <2>2, <2>3 DEF OnlyOwn
  <1>9. MisledOnce' /\ RequestKnown'
    BY <1>1, <1>4, <1>8 DEF Absorbing, MisledOnce, RequestKnown
  <1>. QED BY <1>3, <1>7, <1>9 DEF Absorbing

(* The first fault, if a loss, takes the one frame that is under way.      *)
LEMMA LoseOnly ==
  ASSUME TypeOK, Spent \in Nat, Absorbing, NEW m \in Module, Lose(m),
         Spent' <= 1, Present' = Present
  PROVE  /\ Waiting /\ Waiting' /\ m = task.at /\ task.left = 1 /\ can_rx_sem = 0
         /\ Load(m) = 1 /\ Load(m)' = 0 /\ Taken' = 0 /\ None(Others)'
         /\ Spent' = 1
  <1>1. /\ UNCHANGED <<task, read_data, rx, can_rx_sem>>
    BY DEF Lose, threads
  <1>2. PICK at \in Module : at = task.at
    BY DEF TypeOK
  <1>3. /\ \A n \in Module : Load(n)' = IF n = m THEN Load(n) - 1 ELSE Load(n)
        /\ Load(m) > 0 /\ Spent = 0 /\ Spent' = 1
    BY LoadLose
  <1>4. Waiting' <=> Waiting
    BY <1>1 DEF Waiting
  <1>5. Waiting /\ Taken = 1 /\ None(Others)
    <2>1. ~None(Module)
      BY <1>3 DEF None
    <2>. QED BY <1>3, <2>1 DEF Absorbing, OneLeftOver
  <1>6. m = at
    BY <1>2, <1>3, <1>5 DEF None, Others
  <1>7. Load(at) = 1 /\ can_rx_sem = 0
    <2>1. Load(at) \in Nat /\ can_rx_sem \in Nat /\ Load(at) + can_rx_sem = 1
      BY <1>2, <1>5, LoadLemma DEF Taken, TypeOK
    <2>. QED BY <1>3, <1>6, <2>1
  <1>8. task.left = 1
    BY <1>3, <1>5 DEF Absorbing, RequestKnown, Waiting, TypeOK
  <1>9. Taken' = 0 /\ None(Others)'
    <2>1. /\ Taken' = Load(at)' + can_rx_sem'
          /\ None(Others)' <=> \A n \in Module \ {at} : Load(n)' = 0
      BY <1>1, <1>2, CountsNext
    <2>. QED BY <1>1, <1>2, <1>3, <1>5, <1>6, <1>7, <2>1 DEF None, Others
  <1>. QED BY <1>2, <1>3, <1>4, <1>5, <1>6, <1>7, <1>8, <1>9

LEMMA AbsorbLose ==
  ASSUME TypeOK, TypeOK', Spent \in Nat, Absorbing, NEW m \in Module, Lose(m),
         Spent' <= 1, Present' = Present
  PROVE  Absorbing'
  <1>1. /\ UNCHANGED <<task, read_data, rx, can_rx_sem>>
    BY DEF Lose, threads
  <1>2. PICK at \in Module : at = task.at
    BY DEF TypeOK
  <1>3. /\ Waiting /\ Waiting' /\ m = at /\ task.left = 1 /\ can_rx_sem = 0
        /\ Load(m)' = 0 /\ Taken' = 0 /\ None(Others)' /\ Spent' = 1
    BY <1>2, LoseOnly
  <1>9. OneLeftOver'
    BY <1>1, <1>3 DEF OneLeftOver
  <1>10. NewestIsOwn'
    <2>1. requests'[at] = <<>> /\ answers'[at] = <<>> /\ ~(rx'.new /\ rx'.from = at)
      <3>1. Load(at)' = 0
        BY <1>3
      <3>2. requests'[at] \in Seq(FrameOnBus) /\ answers'[at] \in Seq(Cmds)
        BY DEF TypeOK, FrameOnBus
      <3>3. PICK a \in Nat, b \in Nat, c \in {0, 1} :
              /\ a = Len(requests'[at]) /\ b = Len(answers'[at])
              /\ c = IF rx'.new /\ rx'.from = at THEN 1 ELSE 0
        <4>1. Len(requests'[at]) \in Nat /\ Len(answers'[at]) \in Nat
          BY <3>2
        <4>2. (IF rx'.new /\ rx'.from = at THEN 1 ELSE 0) \in {0, 1}
          BY Zenon
        <4>. QED BY <4>1, <4>2, Zenon
      <3>4. a + b + c = 0
        BY <3>1, <3>3, Zenon DEF Load
      <3>5. a = 0 /\ b = 0 /\ c = 0
        BY <3>4
      <3>6. requests'[at] = <<>> /\ answers'[at] = <<>>
        <4>1. Len(requests'[at]) = 0 /\ Len(answers'[at]) = 0
          BY <3>3, <3>5
        <4>. QED BY <3>2, <4>1
      <3>7. (IF rx'.new /\ rx'.from = at THEN 1 ELSE 0) # 1
        BY <3>3, <3>5
      <3>. QED BY <3>6, <3>7, Zenon
    <2>. QED BY <1>1, <1>2, <2>1 DEF NewestIsOwn
  <1>11. MisledOnce' /\ RequestKnown'
    BY <1>1, <1>3 DEF Absorbing, MisledOnce, RequestKnown, Waiting
  <1>. QED BY <1>9, <1>10, <1>11 DEF Absorbing

LEMMA AbsorbStep ==
  TypeOK /\ TypeOK' /\ AbsentSilent /\ AbsorbInv /\ [Next]_vars => AbsorbInv'
  <1>. SUFFICES ASSUME TypeOK, TypeOK', AbsentSilent, AbsorbInv, [Next]_vars,
                       Spent' <= 1
                PROVE  Absorbing'
    BY DEF AbsorbInv
  <1>1. /\ Present' = Present /\ Spent \in Nat /\ Spent' \in {Spent, Spent + 1}
        /\ UNCHANGED faults => Spent' = Spent
    BY SpentLemma
  <1>2. Spent <= 1 /\ Absorbing
    BY <1>1 DEF AbsorbInv
  <1>3. CASE Scan
    <2>1. /\ task.pc = "scan" /\ task.left = 1
          /\ UNCHANGED <<rx, can_rx_sem, requests, answers, read_data, faults>>
      BY <1>2, <1>3 DEF Scan, bus, Absorbing, RequestKnown
    <2>2. task'.pc \in {"scan", "send"} /\ task'.left = 1
      BY <1>3, <2>1, TaskLemma DEF TypeOK
    <2>. QED BY <1>1, <1>2, <2>1, <2>2, GoesOn DEF Waiting
  <1>4. CASE Send
    BY <1>1, <1>2, <1>4, AbsorbSend DEF Send
  <1>5. CASE Woken
    BY <1>1, <1>2, <1>5, AbsorbWoken DEF Woken
  <1>6. CASE TimedOut
    BY <1>1, <1>2, <1>6, AbsorbTimedOut
  <1>7. CASE Done
    <2>1. ~Waiting /\ UNCHANGED <<rx, can_rx_sem, requests, answers, read_data, faults>>
      BY <1>7 DEF Done, bus, Waiting
    <2>2. task'.pc = "scan" /\ task'.left = 1
      BY <1>7, ContinueLemma DEF Done
    <2>. QED BY <1>1, <1>2, <2>1, <2>2, GoesOn
  <1>8. CASE Failed
    <2>1. ~Waiting /\ UNCHANGED <<rx, can_rx_sem, requests, answers, read_data, faults>>
      BY <1>8 DEF Failed, bus, Waiting
    <2>2. task'.pc = "scan" /\ task'.left = 1
      BY <1>8, ContinueLemma DEF Failed
    <2>. QED BY <1>1, <1>2, <2>1, <2>2, GoesOn
  <1>9. CASE Test
    BY <1>1, <1>2, <1>9, AbsorbTest DEF Test
  <1>10. ASSUME NEW m \in Module, Receive(m) PROVE Absorbing'
    BY <1>1, <1>2, <1>10, AbsorbReceive DEF Receive
  <1>11. ASSUME NEW m \in Module, Serve(m) PROVE Absorbing'
    BY <1>1, <1>2, <1>11, AbsorbServe DEF Serve
  <1>12. ASSUME NEW m \in Module, Lose(m) PROVE Absorbing'
    BY <1>1, <1>2, <1>12, AbsorbLose
  <1>13. ASSUME UNCHANGED <<task, read_data, rx, can_rx_sem, requests, answers, faults>>
         PROVE  Absorbing'
    <2>1. \A n \in Module : Load(n)' = Load(n)
      BY <1>13, LoadSame
    <2>2. OneLeftOver'
      BY <1>1, <1>2, <1>13, <2>1, CountsKept DEF Absorbing
    <2>3. NewestIsOwn' /\ MisledOnce' /\ RequestKnown'
      BY <1>1, <1>2, <1>13
      DEF Absorbing, NewestIsOwn, MisledOnce, RequestKnown, OnlyOwn, Matches, Waiting
    <2>. QED BY <2>2, <2>3 DEF Absorbing
  <1>14. ASSUME NEW m \in Module, Want(m) PROVE Absorbing'
    BY <1>13, <1>14 DEF Want, bus
  <1>15. CASE UNCHANGED vars
    BY <1>13, <1>15 DEF vars, threads, bus
  <1>. QED
    BY <1>3, <1>4, <1>5, <1>6, <1>7, <1>8, <1>9, <1>10, <1>11, <1>12, <1>14, <1>15
    DEF Next, CanThread

LEMMA Absorbs == Spec => []AbsorbInv
  BY AbsorbInit, AbsorbStep, Types, Absent, PTL DEF Spec

(* A request to a module that is there fails only after two faults: the    *)
(* second attempt of can_communit_send makes up for one (evc.c:78).        *)
THEOREM FaultAbsorbed == Spec => []OneFaultAbsorbed
  <1>1. TypeOK /\ AbsorbInv => OneFaultAbsorbed
    BY FaultLemma DEF AbsorbInv, Absorbing, RequestKnown, OneFaultAbsorbed
  <1>. QED BY <1>1, Types, Absorbs, PTL
-----------------------------------------------------------------------------
(* What a module will do, once the requests on their way are served.       *)
LEMMA SettlesSame ==
  ASSUME NEW m, NEW o, requests'[m] = requests[m], module'[m] = module[m]
  PROVE  Settles(m, o)' <=> Settles(m, o)
  BY DEF Settles

LEMMA SettlesServe ==
  ASSUME TypeOK, NEW n \in Module, Serve(n), NEW m \in Module, NEW o, Settles(m, o)
  PROVE  Settles(m, o)'
  <1>1. CASE m # n
    <2>1. requests'[m] = requests[m] /\ module'[m] = module[m]
      BY <1>1 DEF Serve, TypeOK
    <2>. QED BY <2>1, SettlesSame
  <1>2. CASE m = n
    <2>1. /\ requests[m] \in Seq(FrameOnBus) /\ requests[m] # <<>>
          /\ requests'[m] = Tail(requests[m])
      BY <1>2, ServeFrames
    <2>. DEFINE r == requests[m]
    <2>2. /\ Len(r) \in Nat \ {0} /\ Len(Tail(r)) = Len(r) - 1 /\ Head(r) = r[1]
          /\ Tail(r) \in Seq(FrameOnBus)
          /\ \A k \in DOMAIN Tail(r) : k + 1 \in DOMAIN r /\ Tail(r)[k] = r[k+1]
          /\ DOMAIN r = 1..Len(r) /\ DOMAIN Tail(r) = 1..Len(Tail(r))
      BY <2>1, TailLemma, HeadTailProperties
    <2>3. /\ r[1].cmd = "C_S_S" => module'[m].output = r[1].want.output
          /\ r[1].cmd # "C_S_S" => module'[m].output = module[m].output
      <3>1. module'[m] =
              CASE r[1].cmd = "C_S_S" -> [module[m] EXCEPT !.output = r[1].want.output]
                [] r[1].cmd = "SETC"  -> [module[m] EXCEPT !.set_i = r[1].want.level]
                [] r[1].cmd = "SETV"  -> [module[m] EXCEPT !.set_v = r[1].want.level]
                [] OTHER -> module[m]
        BY <1>2, <2>2 DEF Serve, TypeOK
      <3>2. module[m] \in Power
        BY DEF TypeOK
      <3>. HIDE DEF r
      <3>. QED BY <3>1, <3>2 DEF Power
    <2>4. requests'[m] = Tail(r)
      BY <2>1
    <2>. HIDE DEF r
    <2>5. CASE /\ \A k \in DOMAIN r : r[k].cmd # "C_S_S"
               /\ module[m].output = o
      <3>1. \A k \in DOMAIN Tail(r) : Tail(r)[k].cmd # "C_S_S"
        BY <2>2, <2>5
      <3>2. module'[m].output = o
        BY <2>2, <2>3, <2>5
      <3>. QED BY <2>4, <3>1, <3>2 DEF Settles
    <2>6. ASSUME NEW k \in DOMAIN r, r[k].cmd = "C_S_S", r[k].want.output = o,
                 \A j \in DOMAIN r : j > k => r[j].cmd # "C_S_S"
          PROVE  Settles(m, o)'
      <3>0. k \in 1..Len(r)
        BY <2>2
      <3>1. CASE k = 1
        <4>1. \A j \in DOMAIN Tail(r) : Tail(r)[j].cmd # "C_S_S"
          BY <2>2, <2>6, <3>1
        <4>2. module'[m].output = o
          BY <2>3, <2>6, <3>1
        <4>. QED BY <2>4, <4>1, <4>2 DEF Settles
      <3>2. CASE k # 1
        <4>1. k - 1 \in DOMAIN Tail(r) /\ Tail(r)[k-1] = r[k]
          BY <2>2, <3>0, <3>2
        <4>2. \A j \in DOMAIN Tail(r) : j > k - 1 => Tail(r)[j].cmd # "C_S_S"
          BY <2>2, <2>6, <3>0
        <4>. QED BY <2>4, <2>6, <4>1, <4>2 DEF Settles
      <3>. QED BY <3>1, <3>2
    <2>. QED BY <2>5, <2>6 DEF Settles, r
  <1>. QED BY <1>1, <1>2

(* A start or stop command settles what the module will do; the others     *)
(* leave it.                                                               *)
LEMMA SettlesSend ==
  ASSUME TypeOK, Send, NEW m \in Module, m \in Present
  PROVE  /\ \A o : (task.at # m \/ task.cmd # "C_S_S") /\ Settles(m, o) => Settles(m, o)'
         /\ task.at = m /\ task.cmd = "C_S_S" => Settles(m, task.want.output)'
  <1>0. UNCHANGED module
    BY DEF Send
  <1>1. CASE task.at # m
    <2>1. requests'[m] = requests[m] /\ module'[m] = module[m]
      BY <1>1 DEF Send, TypeOK
    <2>. QED BY <1>1, <2>1, SettlesSame
  <1>2. CASE task.at = m
    <2>. DEFINE frame == [cmd |-> task.cmd, want |-> task.want]
                r == requests[m]
    <2>1. r \in Seq(FrameOnBus) /\ frame \in FrameOnBus
      BY DEF TypeOK, FrameOnBus
    <2>2. requests'[m] = Append(r, frame)
      BY <1>2 DEF Send, TypeOK
    <2>3. frame.cmd = task.cmd /\ frame.want = task.want
      OBVIOUS
    <2>. HIDE DEF frame
    <2>4. /\ Len(r) \in Nat /\ DOMAIN r = 1..Len(r)
          /\ DOMAIN Append(r, frame) = 1..(Len(r) + 1)
          /\ \A k \in 1..Len(r) : Append(r, frame)[k] = r[k]
          /\ Append(r, frame)[Len(r) + 1] = frame
      BY <2>1, AppendProperties
    <2>5. requests[m] = r
      OBVIOUS
    <2>. HIDE DEF r
    <2>6. CASE task.cmd = "C_S_S"
      <3>1. \A j \in DOMAIN Append(r, frame) : ~(j > Len(r) + 1)
        BY <2>4
      <3>2. Len(r) + 1 \in DOMAIN Append(r, frame)
        BY <2>4
      <3>3. Settles(m, task.want.output)'
        <4>. SUFFICES /\ requests'[m] = Append(r, frame)
                      /\ \E k \in DOMAIN Append(r, frame) :
                           /\ Append(r, frame)[k].cmd = "C_S_S"
                           /\ Append(r, frame)[k].want.output = task.want.output
                           /\ \A j \in DOMAIN Append(r, frame) :
                                j > k => Append(r, frame)[j].cmd # "C_S_S"
          BY <1>2, TaskLemma DEF Settles, Send
        <4>. QED BY <2>2, <2>3, <2>4, <2>6, <3>1, <3>2
      <3>. QED BY <1>2, <2>6, <3>3
    <2>7. ASSUME task.cmd # "C_S_S", NEW o, Settles(m, o) PROVE Settles(m, o)'
      <3>1. CASE /\ \A k \in DOMAIN r : r[k].cmd # "C_S_S"
                 /\ module[m].output = o
        <4>1. \A k \in DOMAIN Append(r, frame) : Append(r, frame)[k].cmd # "C_S_S"
          BY <2>3, <2>4, <2>7, <3>1
        <4>. QED BY <1>0, <2>2, <3>1, <4>1 DEF Settles
      <3>2. ASSUME NEW k \in DOMAIN r, r[k].cmd = "C_S_S", r[k].want.output = o,
                   \A j \in DOMAIN r : j > k => r[j].cmd # "C_S_S"
            PROVE  Settles(m, o)'
        <4>1. k \in DOMAIN Append(r, frame) /\ Append(r, frame)[k] = r[k]
          BY <2>4
        <4>2. \A j \in DOMAIN Append(r, frame) : j > k => Append(r, frame)[j].cmd # "C_S_S"
          BY <2>3, <2>4, <2>7, <3>2
        <4>. QED BY <2>2, <3>2, <4>1, <4>2 DEF Settles
      <3>. QED BY <2>5, <2>7, <3>1, <3>2 DEF Settles
    <2>. QED BY <1>2, <2>6, <2>7
  <1>. QED BY <1>1, <1>2

LEMMA CacheInit == Init => CacheInv
  <1>. SUFFICES ASSUME Init PROVE CacheInv
    OBVIOUS
  <1>1. Present \subseteq Module
    BY TypeInit, FaultLemma
  <1>2. task.pc = "scan" /\ \A m \in Module : remeder2[m] = "none"
    BY DEF Init, Begin
  <1>. QED BY <1>1, <1>2 DEF CacheInv, Ordered

(* Nothing is on its way to or from anywhere while a frame is missing.     *)
LEMMA MissingLemma ==
  ASSUME TypeOK, OneLeftOver, Missing
  PROVE  None(Module) /\ can_rx_sem = 0
  <1>1. PICK at \in Module : at = task.at
    BY DEF TypeOK
  <1>2. Waiting /\ Taken = 0 /\ None(Others)
    BY DEF Missing, OneLeftOver
  <1>3. Load(at) \in Nat /\ can_rx_sem \in Nat /\ Load(at) + can_rx_sem = 0
    BY <1>1, <1>2, LoadLemma DEF Taken, TypeOK
  <1>4. Load(at) = 0 /\ can_rx_sem = 0
    BY <1>3
  <1>. QED BY <1>1, <1>2, <1>4 DEF None, Others

(* The cache and the modules are left alone, and so is the order given.    *)
LEMMA CacheKept ==
  ASSUME CacheInv, Spent <= 1, Present' = Present, UNCHANGED <<remeder2, requests, module>>,
         \A m \in Present : Ordered(m)' <=> Ordered(m),
         \A m \in Present : Ordered(m) /\ task'.pc \in {"wait", "done"} /\ ~Missing' =>
           /\ task.pc \in {"wait", "done"} /\ ~Missing
           /\ task'.want.output = task.want.output
  PROVE  CacheInv'
  <1>1. \A m \in Present : \A o : Settles(m, o)' <=> Settles(m, o)
    BY SettlesSame
  <1>2. ASSUME NEW m \in Present, ~Ordered(m)', remeder2'[m] # "none"
        PROVE  Settles(m, remeder2[m])'
    BY <1>1, <1>2 DEF CacheInv
  <1>3. ASSUME NEW m \in Present, Ordered(m)', task'.pc \in {"wait", "done"}, ~Missing'
        PROVE  Settles(m, task.want.output)' /\ task'.want.output = task.want.output
    BY <1>1, <1>3 DEF CacheInv
  <1>. QED BY <1>2, <1>3 DEF CacheInv, Settles

LEMMA CacheStep ==
  TypeOK /\ AbsentSilent /\ AbsorbInv /\ CacheInv /\ [Next]_vars => CacheInv'
  <1>. SUFFICES ASSUME TypeOK, AbsentSilent, AbsorbInv, CacheInv, [Next]_vars,
                       Spent' <= 1
                PROVE  CacheInv'
    BY DEF CacheInv
  <1>1. /\ Present' = Present /\ Spent \in Nat /\ Spent' \in {Spent, Spent + 1}
        /\ Present \subseteq Module
    BY SpentLemma, FaultLemma
  <1>2. Spent <= 1 /\ Absorbing
    BY <1>1 DEF AbsorbInv
  <1>3. CASE Scan
    <2>1. /\ UNCHANGED <<remeder2, requests, module>> /\ task.pc = "scan"
          /\ task'.pc \in {"scan", "send"} /\ task'.left = 1
      BY <1>2, <1>3, TaskLemma DEF Scan, bus, Absorbing, RequestKnown, TypeOK
    <2>2. \A m \in Present : ~Ordered(m) /\ ~Ordered(m)'
      BY <2>1 DEF Ordered
    <2>. QED BY <1>1, <1>2, <2>1, <2>2, CacheKept
  <1>4. CASE Send
    <2>1. /\ UNCHANGED remeder2 /\ task.pc = "send" /\ task'.pc = "wait"
          /\ task'.cmd = task.cmd /\ task'.at = task.at /\ task'.want = task.want
      BY <1>4, TaskLemma DEF Send
    <2>2. ASSUME NEW m \in Present, ~Ordered(m)', remeder2'[m] # "none"
          PROVE  Settles(m, remeder2[m])'
      <3>1. ~Ordered(m) /\ (task.at # m \/ task.cmd # "C_S_S")
        BY <2>1, <2>2 DEF Ordered
      <3>2. PICK o : o = remeder2[m]
        OBVIOUS
      <3>3. Settles(m, o)
        BY <1>2, <2>1, <2>2, <3>1, <3>2 DEF CacheInv
      <3>4. Settles(m, o)'
        BY <1>1, <1>4, <3>1, <3>3, SettlesSend
      <3>. QED BY <2>1, <3>2, <3>4
    <2>3. ASSUME NEW m \in Present, Ordered(m)'
          PROVE  Settles(m, task.want.output)'
      <3>1. task.at = m /\ task.cmd = "C_S_S"
        BY <2>1, <2>3 DEF Ordered
      <3>. QED BY <1>1, <1>4, <3>1, SettlesSend
    <2>. QED BY <1>1, <2>2, <2>3 DEF CacheInv
  <1>5. CASE Woken
    <2>1. /\ UNCHANGED <<remeder2, requests, module>> /\ task.pc = "wait" /\ can_rx_sem > 0
          /\ task'.pc \in {"send", "failed", "done"}
          /\ task'.pc = "send" => task'.left = 0
          /\ task'.cmd = task.cmd /\ task'.at = task.at /\ task'.want = task.want
      BY <1>5, TaskLemma DEF Woken, bus
    <2>2. ~Missing
      BY <1>2, <2>1, MissingLemma DEF Absorbing
    <2>3. \A m \in Present : Ordered(m)' <=> Ordered(m)
      BY <2>1 DEF Ordered
    <2>. QED BY <1>1, <1>2, <2>1, <2>2, <2>3, CacheKept
  <1>6. CASE TimedOut
    <2>1. /\ UNCHANGED <<remeder2, requests, module>> /\ task.pc = "wait"
          /\ task'.pc \in {"send", "failed"} /\ task'.left = 0
          /\ task'.cmd = task.cmd /\ task'.at = task.at /\ task'.want = task.want
      BY <1>6, TaskLemma DEF TimedOut, bus
    <2>2. \A m \in Present : Ordered(m)' <=> Ordered(m)
      BY <2>1 DEF Ordered
    <2>. QED BY <1>1, <1>2, <2>1, <2>2, CacheKept
  <1>7. CASE Done
    <2>1. /\ UNCHANGED <<requests, module>> /\ task.pc = "done"
          /\ remeder2' = [remeder2 EXCEPT ![task.at] =
               IF task.cmd = "C_S_S" THEN task.want.output ELSE @]
      BY <1>7 DEF Done, bus
    <2>2. task'.pc = "scan"
      BY <1>7, ContinueLemma DEF Done
    <2>3. ~Missing
      BY <2>1 DEF Missing, Waiting
    <2>4. ASSUME NEW m \in Present, remeder2'[m] # "none"
          PROVE  Settles(m, remeder2[m])'
      <3>1. PICK o : o = remeder2'[m]
        OBVIOUS
      <3>2. Settles(m, o)
        <4>1. CASE Ordered(m)
          <5>1. o = task.want.output
            BY <1>1, <2>1, <3>1, <4>1 DEF Ordered, TypeOK
          <5>. QED BY <1>2, <2>1, <2>3, <4>1, <5>1 DEF CacheInv
        <4>2. CASE ~Ordered(m)
          <5>1. o = remeder2[m]
            BY <1>1, <2>1, <3>1, <4>2 DEF Ordered, TypeOK
          <5>. QED BY <1>2, <2>4, <3>1, <4>2, <5>1 DEF CacheInv
        <4>. QED BY <4>1, <4>2
      <3>3. Settles(m, o)'
        BY <2>1, <3>2, SettlesSame
      <3>. QED BY <3>1, <3>3
    <2>5. \A m \in Present : ~Ordered(m)'
      BY <2>2 DEF Ordered
    <2>. QED BY <1>1, <2>4, <2>5 DEF CacheInv
  <1>8. CASE Failed
    <2>1. /\ UNCHANGED <<remeder2, requests, module>> /\ task.pc = "failed"
      BY <1>8 DEF Failed, bus
    <2>2. task'.pc = "scan"
      BY <1>8, ContinueLemma DEF Failed
    <2>3. task.at \notin Present
      BY <1>2, <2>1 DEF Absorbing, RequestKnown
    <2>4. \A m \in Present : ~Ordered(m) /\ ~Ordered(m)'
      BY <2>2, <2>3 DEF Ordered
    <2>. QED BY <1>1, <1>2, <2>1, <2>4, CacheKept
  <1>9. CASE Test
    <2>1. UNCHANGED <<remeder2, requests, module, task>>
      BY <1>9 DEF Test, threads, bus
    <2>2. ~Missing
      BY <1>2, <1>9, LoadTest, MissingLemma DEF Absorbing, None
    <2>3. \A m \in Present : Ordered(m)' <=> Ordered(m)
      BY <2>1 DEF Ordered
    <2>. QED BY <1>1, <1>2, <2>1, <2>2, <2>3, CacheKept
  <1>10. ASSUME NEW n \in Module, Receive(n) PROVE CacheInv'
    <2>1. UNCHANGED <<remeder2, requests, module, task>>
      BY <1>10 DEF Receive, threads
    <2>2. ~Missing
      BY <1>2, <1>10, LoadReceive, MissingLemma DEF Absorbing, None
    <2>3. \A m \in Present : Ordered(m)' <=> Ordered(m)
      BY <2>1 DEF Ordered
    <2>. QED BY <1>1, <1>2, <2>1, <2>2, <2>3, CacheKept
  <1>11. ASSUME NEW n \in Module, Serve(n) PROVE CacheInv'
    <2>1. UNCHANGED <<remeder2, task>>
      BY <1>11 DEF Serve, threads
    <2>2. ~Missing
      BY <1>2, <1>11, LoadServe, MissingLemma DEF Absorbing, None
    <2>3. \A m \in Present : \A o : Settles(m, o) => Settles(m, o)'
      BY <1>1, <1>11, SettlesServe
    <2>4. ASSUME NEW m \in Present, ~Ordered(m)', remeder2'[m] # "none"
          PROVE  Settles(m, remeder2[m])'
      <3>1. PICK o : o = remeder2[m]
        OBVIOUS
      <3>2. Settles(m, o)
        BY <1>2, <2>1, <2>4, <3>1 DEF CacheInv, Ordered
      <3>. QED BY <2>1, <2>3, <3>1, <3>2
    <2>5. ASSUME NEW m \in Present, Ordered(m)', task'.pc \in {"wait", "done"}
          PROVE  Settles(m, task.want.output)'
      <3>1. PICK o : o = task.want.output
        OBVIOUS
      <3>2. Settles(m, o)
        BY <1>2, <2>1, <2>2, <2>5, <3>1 DEF CacheInv, Ordered
      <3>. QED BY <2>1, <2>3, <3>1, <3>2
    <2>. QED BY <1>1, <2>4, <2>5 DEF CacheInv
  <1>12. ASSUME NEW n \in Module, Lose(n) PROVE CacheInv'
    <2>1. UNCHANGED <<remeder2, task, rx, module>>
      BY <1>12 DEF Lose, threads
    <2>2. /\ Waiting /\ Waiting' /\ n = task.at /\ task.left = 1
          /\ Load(n) = 1 /\ Taken' = 0
      BY <1>1, <1>2, <1>12, LoseOnly
    <2>3. Missing'
      BY <2>1, <2>2 DEF Missing
    <2>4. ASSUME NEW m \in Present, Ordered(m)', task'.pc \in {"wait", "done"}, ~Missing'
          PROVE  Settles(m, task.want.output)'
      BY <2>3, <2>4
    <2>5. ASSUME NEW m \in Present, ~Ordered(m)', remeder2'[m] # "none"
          PROVE  Settles(m, remeder2[m])'
      <3>1. PICK o : o = remeder2[m]
        OBVIOUS
      <3>2. Settles(m, o) /\ ~Ordered(m)
        BY <1>2, <2>1, <2>5, <3>1 DEF CacheInv, Ordered
      <3>3. CASE m # n
        <4>1. requests'[m] = requests[m] /\ module'[m] = module[m]
          BY <1>1, <1>12, <2>1, <3>3 DEF Lose, TypeOK
        <4>2. Settles(m, o)'
          BY <3>2, <4>1, SettlesSame
        <4>. QED BY <2>1, <3>1, <4>2
      <3>4. CASE m = n
        <4>1. task.cmd # "C_S_S"
          BY <2>2, <3>2, <3>4 DEF Ordered, Waiting
        <4>2. \A k \in DOMAIN requests[m] : requests[m][k].cmd # "C_S_S"
          <5>. SUFFICES ASSUME NEW k \in DOMAIN requests[m]
                        PROVE  requests[m][k].cmd = task.cmd
            BY <4>1
          <5>1. requests[m] \in Seq(FrameOnBus) /\ k \in 1..Len(requests[m])
            <6>1. requests[m] \in Seq(FrameOnBus)
              BY <1>1 DEF TypeOK, FrameOnBus
            <6>. QED BY <6>1
          <5>2. Len(requests[m]) <= 1
            <6>1. PICK a \in Nat, b \in Nat, c \in {0, 1} :
                    /\ a = Len(requests[m]) /\ b = Len(answers[m])
                    /\ c = IF rx.new /\ rx.from = m THEN 1 ELSE 0
              <7>1. (IF rx.new /\ rx.from = m THEN 1 ELSE 0) \in {0, 1}
                BY Zenon
              <7>. QED BY <1>1, <7>1, LoadLemma, Zenon
            <6>2. a + b + c = 1
              BY <2>2, <3>4, <6>1, Zenon DEF Load
            <6>3. a <= 1
              BY <6>2
            <6>. QED BY <6>1, <6>3
          <5>3. k = Len(requests[m]) /\ requests[m] # <<>>
            BY <5>1, <5>2
          <5>4. NewestIsOwn
            BY <1>2 DEF Absorbing
          <5>. QED BY <2>2, <3>4, <5>3, <5>4 DEF NewestIsOwn
        <4>3. module[m].output = o
          BY <3>2, <4>2 DEF Settles
        <4>4. \A k \in DOMAIN requests'[m] : requests'[m][k].cmd # "C_S_S"
          <5>1. \/ requests'[m] = requests[m]
                \/ requests[m] # <<>> /\ requests'[m] = Tail(requests[m])
            <6>1. DOMAIN requests = Module
              BY DEF TypeOK
            <6>. QED BY <1>1, <1>12, <3>4, <6>1 DEF Lose
          <5>2. requests[m] \in Seq(FrameOnBus)
            BY <1>1 DEF TypeOK, FrameOnBus
          <5>3. requests[m] # <<>> => \A k \in DOMAIN Tail(requests[m]) :
                  k + 1 \in DOMAIN requests[m] /\ Tail(requests[m])[k] = requests[m][k+1]
            BY <5>2, TailLemma
          <5>4. requests[m] # <<>> => \A k \in DOMAIN Tail(requests[m]) :
                  Tail(requests[m])[k].cmd # "C_S_S"
            BY <4>2, <5>3
          <5>. QED BY <4>2, <5>1, <5>4
        <4>. QED BY <2>1, <3>1, <4>3, <4>4 DEF Settles
      <3>. QED BY <3>3, <3>4
    <2>. QED BY <1>1, <2>1, <2>4, <2>5 DEF CacheInv
  <1>13. ASSUME UNCHANGED <<task, rx, can_rx_sem, remeder2, requests, answers, module>>
         PROVE  CacheInv'
    <2>1. \A m \in Present : Ordered(m)' <=> Ordered(m)
      BY <1>13 DEF Ordered
    <2>2. Missing' <=> Missing
      BY <1>1, <1>13 DEF Missing, Waiting, Taken, Load
    <2>. QED BY <1>1, <1>2, <1>13, <2>1, <2>2, CacheKept DEF Ordered
  <1>14. ASSUME NEW n \in Module, Want(n) PROVE CacheInv'
    BY <1>13, <1>14 DEF Want, bus
  <1>15. CASE UNCHANGED vars
    BY <1>13, <1>15 DEF vars, threads, bus
  <1>. QED
    BY <1>3, <1>4, <1>5, <1>6, <1>7, <1>8, <1>9, <1>10, <1>11, <1>12, <1>14, <1>15
    DEF Next, CanThread

LEMMA Caches == Spec => []CacheInv
  BY CacheInit, CacheStep, Types, Absent, Absorbs, PTL DEF Spec

(* While no more than one fault has happened, a module that is not being   *)
(* commanded does what the cache says of it: node_finish_status_poll may   *)
(* spare the command (evc.c:441).                                          *)
THEOREM CacheIsTrue == Spec => []CacheTrue
  <1>1. TypeOK /\ AbsentSilent /\ CacheInv => CacheTrue
    <2>. SUFFICES ASSUME TypeOK, AbsentSilent, CacheInv, NEW m \in Module, Spent <= 1,
                         remeder2[m] # "none", ~Commanding(m)
                  PROVE  module[m].output = remeder2[m]
      BY DEF CacheTrue
    <2>1. m \in Present
      BY DEF AbsentSilent
    <2>2. ~Ordered(m)
      BY DEF Ordered, Commanding
    <2>3. Settles(m, remeder2[m])
      BY <2>1, <2>2 DEF CacheInv
    <2>. QED BY <2>3 DEF Settles, Commanding
  <1>. QED BY <1>1, Types, Absent, Caches, PTL
=============================================================================
