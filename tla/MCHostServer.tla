---------------------------- MODULE MCHostServer ----------------------------
(***************************************************************************)
(* The server with two nodes.  The scenes divide what may happen: every    *)
(* command once; the settings with the operator's confirmations; programs  *)
(* and configurations with the save thread; failures at power-up and when  *)
(* the database is opened; runs, their records and their end.              *)
(***************************************************************************)
EXTENDS HostServer

F(c, a, n) == [cmd |-> c, at |-> a, count |-> n, sum |-> TRUE, long |-> FALSE, order |-> "start"]
Order(a, o) == [F("START_STOP_CMD", a, 1) EXCEPT !.order = o]
Broken(f) == [f EXCEPT !.sum = FALSE]
Long(f) == [f EXCEPT !.long = TRUE]

S(frames, most) ==
  [ frames |-> frames, most |-> most, ports |-> {Default}, saves |-> {},
    confirms |-> 0, restarts |-> 0, faults |-> 0, opens |-> 0 ]

Far == MAX_NODE + 2

EveryFrame ==
  {F(c, a, n) : c \in Commands \ {"START_STOP_CMD"}, a \in {0, Far, All}, n \in {0, 1, 2}}
    \cup {Order(a, o) : a \in {0, All}, o \in Orders}
    \cup {[F("NODE_ENABLE", 0, 2) EXCEPT !.order = "stop"]}
    \cup {Broken(F("SYS_PARM", 0, 1)), Long(F("SIGNAL_BAT_CAP", 0, 1))}

SysParm == F("SYS_PARM", 0, 1)
Programs == {F("CFG_STEP", a, 1) : a \in {0, All}}
Configs  == {F("SET_STEP_GLOBAL", a, 1) : a \in {0, All}}
Start == Order(0, "start")

SomeScenes ==
  { [S(EveryFrame, 1) EXCEPT !.opens = 1],
    [S({SysParm}, 2) EXCEPT !.ports = {0, 1}, !.confirms = 2, !.restarts = 1],
    [S({SysParm}, 1) EXCEPT !.ports = {1}, !.confirms = 1, !.restarts = 1, !.faults = 2],
    [S(Programs \cup {SysParm}, 2) EXCEPT !.restarts = 1],
    [S(Configs \cup {F("SIGNAL_BAT_CAP", 0, 2)}, 2) EXCEPT !.restarts = 1],
    [S({SysParm, F("READ_NODE_HIS_DATA", 0, 1)}, 2) EXCEPT !.opens = 1, !.restarts = 1],
    [S({Start, Order(0, "stop"), Order(All, "stop")}, 3)
       EXCEPT !.saves = {"record", "complete"}],
    [S({F("SET_STEP_GLOBAL", 0, 1)}, 2) EXCEPT !.saves = {"history"}, !.restarts = 1] }

(* The end of a run against the recording of the runs.                     *)
Crossing == {[S({Start}, 1) EXCEPT !.saves = {"record", "complete"}]}
=============================================================================
