----------------------------- MODULE HostServer -----------------------------
(***************************************************************************)
(* The server thread: the socket it waits on, the frames of the host, what *)
(* the handler of each command does to memory, to the database and to the  *)
(* host, and the threads that share the database and the socket with it:   *)
(* the save thread, the control thread at the end of a run, the LCD thread *)
(* when the operator confirms the network settings.                        *)
(*                                                                         *)
(* work[t] is what thread t still has to do of the function it is in, one  *)
(* step of another thread may come between any two.  A command leaves its  *)
(* number as the value of what it sets.  What commands do to a running     *)
(* node is in NodeControl, the contents of the history replies in          *)
(* HistoryStore, the fields of a reply are left out.                       *)
(***************************************************************************)
EXTENDS Database, SequencesExt

CONSTANTS
  MAX_STEP,    \* steps of a program
  QUIET,       \* timeouts in a row before the host counts as gone: 30
  Scenes       \* what the host, the operator and the hardware may do: the
               \* frames and how many, the ports that may be confirmed, what
               \* the other threads save, failures and restarts

All == MAX_NODE + 100     \* 0xffff: a command to all nodes

Commands ==
  { "CFG_STEP", "SYS_PARM", "CLR_OR_READ_STEP", "READ_GROUP_RUN_DATA",
    "SIGNAL_BAT_CAP", "READ_SINGAL_BAT_CAP", "NODE_ENABLE",
    "SET_STEP_GLOBAL", "READ_STEP_GLOBAL", "READ_STEP_STATUS",
    "SEARCH_HISTORY_DATA", "READ_NODE_HIS_DATA", "CTR_PUMP", "READ_BAT_EN",
    "CONTROL_LED", "START_STOP_CMD", "CMP_DIVIDE_CAP", "READ_BAT_EM",
    "CLR_BAT_ERR", "unknown" }

(* at: the node addressed; count: nodes or steps in the frame; sum: the    *)
(* check sum is right; long: the frame has more bytes than a u8 counts;    *)
(* order: what a START_STOP_CMD orders; NODE_ENABLE stops or starts.       *)
Orders == {"start", "stop", "pause", "resume"}
Frame == [ cmd: Commands, at: Nat, count: Nat, sum: BOOLEAN, long: BOOLEAN,
           order: Orders ]

Ports == {Default} \cup UNION {s.ports : s \in Scenes}

(* bst.node[MAX_NODE], which some tests of a node number admit             *)
(* (server.c:1428), lies behind the array: no frame is for it.             *)
ASSUME HostServerAssumption ==
  /\ MAX_STEP \in Nat \ {0} /\ QUIET \in Nat
  /\ Ports \subseteq 0..MaxValue
  /\ \A s \in Scenes :
       /\ s.frames \subseteq {f \in Frame : f.at # MAX_NODE}
       /\ s.most \in 0..MaxValue
       /\ s.saves \subseteq {"record", "complete", "history"}
       /\ s.confirms \in Nat /\ s.restarts \in Nat
       /\ s.faults \in Nat /\ s.opens \in Nat

Thread == {"server", "save", "control", "lcd"}

VARIABLES
  work,       \* what each thread has still to do
  status,     \* bst.node[n].run_status, as far as a handler asks
  due,        \* semaphores posted to the save thread: steps and delete
  sock,       \* sock_fd: its port and whether it times out
  net_status, \* bst.net_status: the host is there or gone
  netCount,   \* timeouts of recvfrom since the last frame
  taken,      \* ports of sockets that are open and forgotten
  waits,      \* recvfrom of the server thread: its socket and timeout
  alive,      \* the process runs
  stamp,      \* history: number of the command in hand
  answered,   \* history: the last command for each item that was answered
  crossed,    \* history: two threads have used the database at a time
  failed,     \* history: what has failed since power-up
  left        \* one of Scenes, and what is left of it

threads == <<work, status, due>>
silence == <<net_status, netCount>>
net     == <<sock, taken, waits, silence>>
history == <<stamp, answered, crossed, failed>>
vars    == <<mem, file, create_table_flag, threads, net, alive, history, left>>

scene == left.scene

running == {n \in Node : status[n] = "running"}

NoSocket == [port |-> Absent, timed |-> FALSE]
NotWaiting == [on |-> "none", port |-> Absent, timed |-> FALSE]
-----------------------------------------------------------------------------
(* The steps a function is made of.                                        *)
Step(o, items) == [op |-> o, on |-> items]
Ops == { "open", "try", "close", "begin", "commit", "write", "delete", "set",
         "reply", "post", "history", "socket", "setsockopt", "bind", "hang",
         "enable", "disable" } \cup Orders

Set(items)   == Step("set", items)
Write(i)     == Step("write", {i})
Reply        == Step("reply", {})
ReplyFor(items) == Step("reply", items)
Post(sem)    == Step("post", {<<sem, 0>>})

Open   == Step("open", {})     \* open_sqlite_db(), whatever it returns
TryOpen == Step("try", {})     \* the rest is left when it fails
Close  == Step("close", {})
Begin  == Step("begin", {})
Commit == Step("commit", {})

Stored1(i)  == <<Open, Write(i), Close>>
InOne(steps) == <<Open, Begin>> \o steps \o <<Commit, Close>>
Each(kind, nodes) ==
  [k \in 1..Cardinality(nodes) |-> Write(<<kind, SetToSeq(nodes)[k]>>)]
Of(kind, nodes) == {kind} \X nodes

(* One step of a, one of b, and so on.                                     *)
Alternately(a, b) ==
  [k \in 1..2*Len(a) |-> IF k % 2 = 1 THEN a[(k + 1) \div 2] ELSE b[k \div 2]]

(* The nodes a frame names by a first one and a number.                    *)
Named(f) == {n \in Node : n >= f.at /\ n < f.at + f.count}
-----------------------------------------------------------------------------
(* The handlers, as far as their frame is readable.                        *)

cfg_step_decode(f) ==
  IF f.count \notin 1..MAX_STEP /\ f.at # All THEN <<>>
  ELSE IF f.at = All
  THEN (IF f.count \in 1..MAX_STEP
        THEN <<Set(Of("program", Node \ running))>> ELSE <<>>)
       \o <<Reply, Post("steps")>>
  ELSE IF f.at > MAX_NODE \/ f.at \in running THEN <<>>
  ELSE LET i == <<"program", f.at>> IN
       <<Set({i})>> \o Stored1(i) \o <<ReplyFor({i})>>

(* Mutant: the answer is sent before the settings are stored.              *)
cfg_sys_parm_early(f) ==
  <<Set({Limits}), ReplyFor({Limits}), Open, Write(Limits), Close>>

(* update_sys_config_values gives up only if no table could be made either. *)
cfg_sys_parm(f) ==
  << Set({Limits}), IF create_table_flag THEN TryOpen ELSE Open,
     Write(Limits), Close, ReplyFor({Limits}) >>

clr_or_read_step_decode(f) == IF f.at > MAX_NODE THEN <<>> ELSE <<Reply>>

(* Too many nodes are answered, without data.                              *)
read_group_run_data_decode(f) == <<Reply>>

send_signal_bat_cap(f) ==
  LET items == Of("config", Named(f))
      writes == Each("config", Named(f))
      sets   == [k \in 1..Len(writes) |-> Set(writes[k].on)]
  IN  IF f.at + f.count > MAX_NODE + 1 THEN <<Open>>
      ELSE <<Open>> \o Alternately(sets, writes) \o <<ReplyFor(items), Close>>

read_bat_cap(f) == IF f.at + f.count > MAX_NODE + 1 THEN <<>> ELSE <<Reply>>

node_enable_decode(f) ==
  IF f.at + f.count > MAX_NODE + 1 THEN <<>>
  ELSE << Step(IF f.order = "stop" THEN "disable" ELSE "enable", Of("node", Named(f))),
          Reply >>

(* A broadcast is answered once for every node that takes it.              *)
set_step_global_decode(f) ==
  IF f.at = All
  THEN <<Set(Of("config", Node \ running))>>
       \o [k \in 1..Cardinality(Node \ running) |-> Reply]
       \o InOne(Each("config", Node))
  ELSE IF f.at > MAX_NODE \/ f.at \in running THEN <<>>
  ELSE LET i == <<"config", f.at>> IN
       <<Set({i})>> \o Stored1(i) \o <<ReplyFor({i})>>

read_step_global_decode(f) == IF f.at > MAX_NODE - 1 THEN <<>> ELSE <<Reply>>

read_history_status_decode(f) ==
  IF f.at > MAX_NODE THEN <<>> ELSE <<TryOpen, Close, Reply>>

(* Every node of the range opens the database for itself.                  *)
read_history_data_decode(f) ==
  IF f.at + f.count > MAX_NODE THEN <<Reply>>
  ELSE LET every(step) == [k \in 1..f.count |-> step]
       IN  Alternately(every(TryOpen), every(Close)) \o <<Reply>>

ctr_pump_decode(f) == <<Reply>>
ctr_len_decode(f) == <<Step("enable", Of("node", Node)), Reply>>

(* A stop of one node deletes its row at once, of all leaves it to the     *)
(* save thread.                                                            *)
ctrol_node_status(order, n) ==
  IF order # "stop" THEN <<Step(order, Of("node", {n}))>>
  ELSE IF status[n] \notin {"running", "paused"} THEN <<>>
  ELSE <<Step("stop", Of("node", {n}))>> \o InOne(<<Step("delete", Of("run", {n}))>>)

start_or_stop_decode(f) ==
  <<Reply>> \o
  ( IF f.at = All
    THEN <<Step(f.order, Of("node", Node))>>
         \o (IF f.order = "stop" THEN <<Post("delete")>> ELSE <<>>)
    ELSE IF f.at > MAX_NODE THEN <<>> ELSE ctrol_node_status(f.order, f.at) )

read_battery_em(f) == <<Reply>>

(* Handlers with an empty body.                                            *)
read_step_status_decode(f) == <<>>
read_bat_enabling_decode(f) == <<>>
cmp_divide_capacity_decode(f) == <<>>
clr_battery_err(f) == <<>>

recvice_server_decode(f) ==
  CASE f.cmd = "CFG_STEP"            -> cfg_step_decode(f)
    [] f.cmd = "SYS_PARM"            -> cfg_sys_parm(f)
    [] f.cmd = "CLR_OR_READ_STEP"    -> clr_or_read_step_decode(f)
    [] f.cmd = "READ_GROUP_RUN_DATA" -> read_group_run_data_decode(f)
    [] f.cmd = "SIGNAL_BAT_CAP"      -> send_signal_bat_cap(f)
    [] f.cmd = "READ_SINGAL_BAT_CAP" -> read_bat_cap(f)
    [] f.cmd = "NODE_ENABLE"         -> node_enable_decode(f)
    [] f.cmd = "SET_STEP_GLOBAL"     -> set_step_global_decode(f)
    [] f.cmd = "READ_STEP_GLOBAL"    -> read_step_global_decode(f)
    [] f.cmd = "READ_STEP_STATUS"    -> read_step_status_decode(f)
    [] f.cmd = "SEARCH_HISTORY_DATA" -> read_history_status_decode(f)
    [] f.cmd = "READ_NODE_HIS_DATA"  -> read_history_data_decode(f)
    [] f.cmd = "CTR_PUMP"            -> ctr_pump_decode(f)
    [] f.cmd = "READ_BAT_EN"         -> read_bat_enabling_decode(f)
    [] f.cmd = "CONTROL_LED"         -> ctr_len_decode(f)
    [] f.cmd = "START_STOP_CMD"      -> start_or_stop_decode(f)
    [] f.cmd = "CMP_DIVIDE_CAP"      -> cmp_divide_capacity_decode(f)
    [] f.cmd = "READ_BAT_EM"         -> read_battery_em(f)
    [] f.cmd = "CLR_BAT_ERR"         -> clr_battery_err(f)
    [] OTHER                         -> <<>>
-----------------------------------------------------------------------------
(* Carrying out the steps.                                                 *)
Rest(t) == [work EXCEPT ![t] = Tail(@)]
At(t, o) == alive /\ work[t] # <<>> /\ Head(work[t]).op = o
On(t) == Head(work[t]).on

Spend(what) == left[what] > 0 /\ left' = [left EXCEPT ![what] = @ - 1]

(* A thread is between its open and its close.                             *)
InDatabase(t) ==
  \E c \in 1..Len(work[t]) :
    /\ work[t][c].op = "close"
    /\ \A j \in 1..c : work[t][j].op \notin {"open", "try"}

AfterClose(w) ==
  SubSeq(w, 1 + SelectInSeq(w, LAMBDA x : x.op = "close"), Len(w))

Opens(t) ==
  /\ At(t, "open") \/ At(t, "try")
  /\ crossed' = (crossed \/ \E u \in Thread \ {t} : InDatabase(u))
  /\ \/ /\ open_sqlite_db(TRUE)
        /\ work' = Rest(t)
        /\ UNCHANGED <<failed, left>>
     \/ /\ Spend("opens")
        /\ open_sqlite_db(FALSE)
        /\ work' = IF At(t, "open") THEN Rest(t)
                   ELSE [work EXCEPT ![t] = AfterClose(@)]
        /\ failed' = failed \cup {"open"}
  /\ UNCHANGED <<mem, tables, create_table_flag, status, due, net, alive, stamp,
                 answered>>

Statement(t) ==
  \/ At(t, "begin")  /\ start_commit
  \/ At(t, "commit") /\ stop_commit
  \/ At(t, "close")  /\ close_sqlite_db
  \/ At(t, "history") /\ insert_history
  \/ At(t, "delete") /\ \E i \in On(t) : delete_bat_runningdata(i[2])
  \/ At(t, "write")  /\ \E i \in On(t) :
       CASE i = Net    -> update_net_config_values
         [] i = Limits -> update_sys_config_values
         [] OTHER      -> save_item(i)

UseDatabase(t) ==
  /\ Statement(t)
  /\ work' = Rest(t)
  /\ UNCHANGED <<mem, tables, create_table_flag, status, due, net, alive,
                 history, left>>

SetMemory(t) ==
  /\ At(t, "set")
  /\ mem' = [i \in Item |-> IF i \in On(t) THEN stamp ELSE mem[i]]
  /\ work' = Rest(t)
  /\ UNCHANGED <<file, create_table_flag, status, due, net, alive, history, left>>

(* A reply may be lost.                                                    *)
udp_send(t) ==
  /\ At(t, "reply")
  /\ \/ answered' = [i \in Item |-> IF i \in On(t) THEN stamp ELSE answered[i]]
     \/ UNCHANGED answered
  /\ work' = Rest(t)
  /\ UNCHANGED <<mem, file, create_table_flag, status, due, net, alive, stamp,
                 crossed, failed, left>>

PostSem(t) ==
  /\ At(t, "post") /\ due' = due \cup {sem[1] : sem \in On(t)}
  /\ work' = Rest(t)
  /\ UNCHANGED <<mem, file, create_table_flag, status, net, alive, history, left>>

(* An order takes the nodes whose status allows it; the steps of starting  *)
(* and stopping are in NodeControl.                                        *)
NewStatus(o, now) ==
  CASE o = "start"   /\ now \in {"rest", "paused"}    -> "running"
    [] o = "stop"    /\ now \in {"running", "paused"} -> "rest"
    [] o = "pause"   /\ now = "running"               -> "paused"
    [] o = "resume"  /\ now = "paused"                -> "running"
    [] o = "enable"  -> "rest"
    [] o = "disable" -> "off"
    [] OTHER -> now

SetStatus(t) ==
  /\ \E o \in Orders \cup {"enable", "disable"} :
       /\ At(t, o)
       /\ status' = [n \in Node |->
                       IF <<"node", n>> \in On(t) THEN NewStatus(o, status[n]) ELSE status[n]]
  /\ work' = Rest(t)
  /\ UNCHANGED <<mem, file, create_table_flag, due, net, alive, history, left>>
-----------------------------------------------------------------------------
(* The socket.                                                             *)

(* udp_communication_init, the part after its first line.  A port that     *)
(* another socket of the process holds cannot be bound.                    *)
socket(t) ==
  /\ At(t, "socket")
  /\ taken' = taken \cup ({sock.port} \ {Absent})
  /\ sock' = NoSocket
  /\ waits' = IF waits.on = "now"
              THEN [waits EXCEPT !.on = "old", !.port = sock.port] ELSE waits
  /\ work' = Rest(t)
  /\ UNCHANGED <<mem, file, create_table_flag, status, due, silence, alive, history,
                 left>>

setsockopt(t) ==
  /\ At(t, "setsockopt")
  /\ sock' = [sock EXCEPT !.timed = TRUE]
  /\ work' = Rest(t)
  /\ UNCHANGED <<mem, file, create_table_flag, status, due, taken, waits,
                 silence, alive, history, left>>

(* Mutant: always the port of the defaults, as SVR_PORT has it.            *)
BoundDefault(p) == IF Default \in taken THEN Absent ELSE Default

(* Zeroed settings bind the socket to some port nobody knows.              *)
Bound(p) == IF p \in taken \cup {Blank} THEN Absent ELSE p

bind(t) ==
  /\ At(t, "bind")
  /\ sock' = [sock EXCEPT !.port = Bound(mem[Net])]
  /\ work' = Rest(t)
  /\ UNCHANGED <<mem, file, create_table_flag, status, due, taken, waits,
                 silence, alive, history, left>>

(* The mutant's socket never times out.                                    *)
NewSocketUntimed == <<Step("socket", {}), Step("bind", {})>>
NewSocket == <<Step("socket", {}), Step("setsockopt", {}), Step("bind", {})>>

(* page5_button_handler: the operator confirms a port.                     *)
Confirm ==
  /\ alive /\ work["lcd"] = <<>> /\ Spend("confirms")
  /\ \E p \in scene.ports : mem' = [mem EXCEPT ![Net] = p]
  /\ work' = [work EXCEPT !["lcd"] = <<TryOpen, Write(Net), Close>> \o NewSocket]
  /\ UNCHANGED <<file, create_table_flag, status, due, net, alive, history>>
-----------------------------------------------------------------------------
(* The server thread.                                                      *)

recvfrom ==
  /\ alive /\ work["server"] = <<>> /\ waits.on = "none"
  /\ waits' = [on |-> "now", port |-> Absent, timed |-> sock.timed]
  /\ UNCHANGED <<mem, file, create_table_flag, threads, sock, taken, silence, alive,
                 history, left>>

(* A second without a frame.                                               *)
TimedOut ==
  /\ alive /\ waits.timed
  /\ waits' = NotWaiting
  /\ netCount' = IF netCount > QUIET THEN 1 ELSE netCount + 1
  /\ net_status' = IF netCount > QUIET THEN "left" ELSE net_status
  /\ UNCHANGED <<mem, file, create_table_flag, threads, sock, taken, alive,
                 history, left>>

Hang == Step("hang", {})

(* A frame is printed and its check sum taken by loops over a u8.          *)
Readable(f) ==
  IF f.long THEN <<Hang>>
  ELSE IF f.sum THEN recvice_server_decode(f) ELSE <<>>

Receive ==
  /\ alive /\ waits.on # "none" /\ stamp < scene.most
  /\ (IF waits.on = "now" THEN sock.port ELSE waits.port) # Absent
  /\ \E f \in scene.frames : work' = [work EXCEPT !["server"] = Readable(f)]
  /\ stamp' = stamp + 1
  /\ waits' = NotWaiting
  /\ netCount' = 0 /\ net_status' = "online"
  /\ UNCHANGED <<mem, file, create_table_flag, status, due, sock, taken, alive,
                 answered, crossed, failed, left>>
-----------------------------------------------------------------------------
(* The save thread, its semaphores in their order, and the end of a run,   *)
(* which the control thread records.                                       *)
SavesSteps  == InOne(Each("program", Node))
SavesRuns   == InOne(Each("run", running))
SavesHistory == <<Open, Step("history", {}), Commit, Close>>     \* no BEGIN
DeletesRuns == InOne([k \in 1..MAX_NODE |-> Step("delete", Of("run", {k - 1}))])

SaveThread ==
  /\ alive /\ work["save"] = <<>>
  /\ \/ /\ "steps" \in due /\ due' = due \ {"steps"}
        /\ work' = [work EXCEPT !["save"] = SavesSteps]
     \/ /\ "record" \in scene.saves /\ running # {} /\ UNCHANGED due
        /\ work' = [work EXCEPT !["save"] = SavesRuns]
     \/ /\ "history" \in scene.saves /\ net_status = "left" /\ UNCHANGED due
        /\ work' = [work EXCEPT !["save"] = SavesHistory]
     \/ /\ "delete" \in due /\ due' = due \ {"delete"}
        /\ work' = [work EXCEPT !["save"] = DeletesRuns]
  /\ UNCHANGED <<mem, file, create_table_flag, status, net, alive, history, left>>

Complete ==
  /\ alive /\ work["control"] = <<>> /\ "complete" \in scene.saves
  /\ \E n \in running :
       /\ status' = [status EXCEPT ![n] = "rest"]
       /\ work' = [work EXCEPT !["control"] = InOne(<<Write(<<"run", n>>)>>)]
  /\ UNCHANGED <<mem, file, create_table_flag, due, net, alive, history, left>>
-----------------------------------------------------------------------------
(* Power.                                                                  *)
Idle == [t \in Thread |-> <<>>]

Dead ==
  /\ alive' = FALSE
  /\ work' = Idle /\ due' = {} /\ waits' = NotWaiting
  /\ sock' = NoSocket /\ taken' = {}
  /\ net_status' = "online" /\ netCount' = 0
  /\ UNCHANGED <<mem, file, create_table_flag, status, history>>

PowerOff == alive /\ Spend("restarts") /\ Dead

(* Using a handle that is not open is undefined: SQLite may refuse it (the *)
(* step without effect) or the process ends.                               *)
Misuse ==
  /\ \E t \in Thread, o \in {"begin", "commit", "write", "delete", "close"} : At(t, o)
  /\ ~db.open /\ Dead /\ UNCHANGED left

(* The server thread opens its first socket before the operator can have   *)
(* reached the page of the network settings.                               *)
PowerOn ==
  /\ ~alive
  /\ \E f \in SUBSET StartFaults :
       /\ Cardinality(f) <= left.faults
       /\ left' = [left EXCEPT !.faults = @ - Cardinality(f)]
       /\ failed' = failed \cup f
       /\ PowerUp(f)
       /\ status' = [n \in Node |->
            IF disk[<<"run", n>>] # Absent /\ ~create_table_flag'
            THEN "paused" ELSE "rest"]
  /\ alive' = TRUE
  /\ taken' = {} /\ sock' = [port |-> Bound(mem'[Net]), timed |-> TRUE]
  /\ UNCHANGED <<work, due, waits, silence, stamp, answered, crossed>>
-----------------------------------------------------------------------------
Init ==
  /\ disk = NoRows /\ tables = FALSE /\ db = Shut(NoRows) /\ locked = FALSE
  /\ create_table_flag = FALSE
  /\ mem = [i \in Item |-> IF i \in Settings THEN Blank ELSE Default]
  /\ work = Idle /\ status = [n \in Node |-> "rest"] /\ due = {}
  /\ net_status = "online" /\ netCount = 0
  /\ sock = NoSocket /\ taken = {} /\ waits = NotWaiting
  /\ alive = FALSE
  /\ stamp = 0 /\ answered = [i \in Item |-> 0] /\ crossed = FALSE /\ failed = {}
  /\ \E s \in Scenes :
       left = [ scene |-> s, confirms |-> s.confirms, restarts |-> s.restarts,
                faults |-> s.faults, opens |-> s.opens ]

Threads(t) ==
  \/ Opens(t) \/ UseDatabase(t) \/ SetMemory(t) \/ udp_send(t) \/ PostSem(t)
  \/ SetStatus(t) \/ socket(t) \/ setsockopt(t) \/ bind(t)

Next ==
  \/ \E t \in Thread : Threads(t)
  \/ recvfrom \/ TimedOut \/ Receive
  \/ SaveThread \/ Complete \/ Confirm
  \/ PowerOff \/ Misuse \/ PowerOn

(* Every thread goes on with its function and the server thread comes back *)
(* to its socket; a timeout comes.                                         *)
Fairness ==
  /\ \A t \in Thread : WF_vars(Threads(t))
  /\ WF_vars(recvfrom) /\ WF_vars(TimedOut)

Spec == Init /\ [][Next]_vars /\ Fairness
-----------------------------------------------------------------------------
(* Every variable has its type.                                            *)
TypeOK ==
  /\ DatabaseType
  /\ \A t \in Thread, k \in 1..100 : k \in DOMAIN work[t] => work[t][k].op \in Ops
  /\ status \in [Node -> {"rest", "running", "paused", "off"}]
  /\ net_status \in {"online", "left"} /\ netCount \in 0..QUIET+1
  /\ due \subseteq {"steps", "delete"}
  /\ sock \in [port: Stored, timed: BOOLEAN]
  /\ taken \subseteq 0..MaxValue
  /\ waits \in [on: {"none", "now", "old"}, port: Stored, timed: BOOLEAN]
  /\ alive \in BOOLEAN
  /\ stamp \in 0..MaxValue
  /\ answered \in [Item -> 0..MaxValue]
  /\ crossed \in BOOLEAN
  /\ failed \subseteq StartFaults \cup {"open"}

(* What a command to one node or the settings set is in the file when the  *)
(* host has the answer, and no restart, save, recovery or later command    *)
(* takes it back, as long as nothing fails and no two threads are in the   *)
(* database at a time (see TransactionsEnd): server.c:548, 501, 1600.      *)
AnsweredIsKept ==
  ~crossed /\ failed = {} =>
    \A i \in Item : answered[i] > 0 => disk[i] >= answered[i]

Writing(i) == \E t \in Thread : \E k \in DOMAIN work[t] :
                 work[t][k].op = "write" /\ i \in work[t][k].on

(* Whatever fails at power-up, if only one thing does, the settings in     *)
(* memory are a row or the defaults; while nothing has failed and no two   *)
(* threads have met in the database, they are the row of the file, and     *)
(* storing the network columns leaves the limits alone and the other way   *)
(* round (main.c:44-51, sqlite_opera.c:423-548).                           *)
SettingsKept ==
  /\ alive /\ Cardinality(failed \cap StartFaults) <= 1
       => \A i \in Settings : mem[i] # Blank
  /\ alive /\ failed = {} /\ ~crossed
       => \A i \in Settings : Writing(i) \/ mem[i] = disk[i]

(* Once the operator's confirmation is through, the server's socket is     *)
(* bound to the port confirmed, unless a socket that was never closed has  *)
(* it still, or the settings could not be loaded (lcd_ui.c:886-937,        *)
(* server.c:220-249).                                                      *)
HearsNewPort ==
  alive /\ work["lcd"] = <<>> =>
    sock.port = mem[Net] \/ mem[Net] \in taken \cup {Blank}

(* A host that sends nothing more is noticed, which the history kept for   *)
(* it depends on, however commands, saving, failed openings and restarts   *)
(* come together; unless the device stays off (or the process has ended),  *)
(* or the server thread is caught: by a frame longer than a u8 counts, or  *)
(* on a new socket that had no timeout yet when it began to wait           *)
(* (server.c:1815-1845, 220-241).                                          *)
SilenceNoticed ==
  \/ <>[](net_status = "left") \/ <>[]~alive
  \/ <>[](work["server"] # <<>> /\ Head(work["server"]).op = "hang")
  \/ <>[](waits.on # "none" /\ ~waits.timed /\ sock.timed)

(* "stop_commit: ends the transaction" (sqlite_opera.c:1413-1417): no      *)
(* handle is lost in the middle of one.  Violated: the threads share one   *)
(* global handle, the second to open replaces the first one's, and what    *)
(* the first does next goes to the wrong transaction.                      *)
TransactionsEnd == locked => "config" \in failed
=============================================================================
