----------------------------- MODULE StepPolls -----------------------------
(***************************************************************************)
(* When a running step ends: the poll of the control thread on one node,   *)
(* as the node's steps follow each other.  A poll compares the reading of  *)
(* the module with the limits of the step, the first limit it meets ends   *)
(* the step, and the node reports the reason as node_status.               *)
(*                                                                         *)
(* Voltages are in mV, currents in mA, times in s and capacities in mAh    *)
(* (the code divides its mA*s by 3600).  A poll sees one reading; the      *)
(* display values it also updates (end_v, end_i, cc_cv, platform_time) are *)
(* left out.                                                               *)
(***************************************************************************)
EXTENDS StepBasics

CONSTANTS
  Steps,        \* the steps of the programs
  Readings,     \* what a poll may find
  Protect       \* protection limits of sys_cfg: low_v, high_v, low_i, high_i

U16(x) == x % 65536

(* A step with what its poll reads of the node besides: precharge_v, the   *)
(* voltage when the step began, and, if the step is in the recharge        *)
(* section, the measured capacity and the ratio of it to be recharged.     *)
Step ==
  [ type: {"CV", "HCV", "DCV", "REST"}, parm1: Word, parm2: Word,
    cond1: Nat, cond2: Nat, cond3: Nat, cond4: Nat, precharge_v: Word,
    recharge: BOOLEAN, real_capacity: Nat, recharge_ratio: Byte ]

(* cc: fwsta shows charging at constant current.  settled: 10 s have       *)
(* passed since time_tmp_1.  err: NODE_ERR_BIT; fault: its type in fwsta.  *)
Reading ==
  [ v: Word, i: Word, time: Nat, cap: Nat, cc: BOOLEAN, settled: BOOLEAN,
    enabled: BOOLEAN, err: BOOLEAN, fault: 0..31 ]

ASSUME StepPollsAssumption ==
  /\ \A s \in Steps : s \in Step
  /\ \A r \in Readings : r \in Reading
  /\ Protect \in [low_v: Word, high_v: Word, low_i: Word, high_i: Word]

VARIABLES
  step,         \* the step under the cursor
  node,         \* step_end, node_status, v_tmp, time_tmp, and the snapshot
                \* in save_real_data[n] that copy_real_data takes of it
  seen,         \* the reading of the last poll; its time restarts at 0
  past          \* history of this step: when the voltage last changed, and
                \* whether a fault has been seen

polling == <<step, node, seen, past>>

set_i(s) == U16(s.cond1)
-----------------------------------------------------------------------------
(* The conditions of a charge step, one per poll function.                 *)
charge_vot_end(s, r)  == s.parm1 # 0 /\ r.v >= s.parm1
charge_curr_end(s, r) == U16(s.cond2) # 0 /\ r.i <= U16(s.cond2)
charge_capacity_end(s, r) == s.cond4 # 0 /\ U16(r.cap) >= s.cond4
(* Mutant: ten times the tolerance.                                        *)
charge_curr_err_wide(s, r) == r.i > set_i(s) + 3000

charge_curr_err(s, r) == r.i > set_i(s) + 300
charge_vot_high(s, r) == r.v > s.parm1 + 40
charge_vot_low(s, r)  == r.v <= 400

(* Mutant: either of the two conditions will do.                           *)
charge_status_err_either(s, r) ==
  r.v < s.parm1 - 40 \/ r.i < set_i(s) - 500

(* bst.node[n].i is unsigned, so set_i - 500 is: below 0 it is huge.       *)
charge_status_err(s, r) ==
  r.v < s.parm1 - 40 /\ (set_i(s) < 500 \/ r.i < set_i(s) - 500)

(* Seconds a low or an unchanged voltage is tolerated, by charge current:  *)
(* pairs of the least current and the time, the largest current first.     *)
Below2000 == {<<3000, 180>>, <<0, 300>>}
Below2600 == {<<10000, 40>>, <<6000, 72>>, <<5500, 108>>, <<4500, 210>>,
              <<2500, 600>>, <<1250, 1200>>, <<625, 1800>>, <<0, 2400>>}
Below2800 == {<<10000, 72>>, <<6000, 108>>, <<5500, 150>>, <<4500, 480>>,
              <<2500, 960>>, <<1250, 1920>>, <<625, 3600>>}
Unchanged == {<<10000, 300>>, <<5495, 420>>, <<2745, 840>>, <<1370, 1680>>,
              <<685, 3360>>, <<343, 6720>>}

Exceeds(seconds, table, i) ==
  \E row \in table :
    /\ i >= row[1] /\ seconds > row[2]
    /\ \A other \in table : i >= other[1] => other[1] <= row[1]

(* time and time_tmp are unsigned: a time_tmp left from an earlier step    *)
(* and still ahead of time makes the difference huge.                      *)
UnchangedTooLong(s, n, r) ==
  IF r.time >= n.time_tmp THEN Exceeds(r.time - n.time_tmp, Unchanged, set_i(s))
  ELSE set_i(s) >= 343

charge_bat_err(s, n, r) ==
  /\ n.v_tmp = r.v
  /\ \/ r.v < 2000 /\ Exceeds(r.time, Below2000, set_i(s))
     \/ r.v \in 2000..2599 /\ Exceeds(r.time, Below2600, set_i(s))
     \/ r.v \in 2600..2799 /\ Exceeds(r.time, Below2800, set_i(s))
     \/ r.v < 3100 /\ UnchangedTooLong(s, n, r)

sys_protect(r) ==
  \/ r.v <= Protect.low_v \/ r.v >= Protect.high_v
  \/ r.i <= Protect.low_i \/ r.i >= Protect.high_i

charge_bat_vot_up(s, r) ==
  s.precharge_v < 2100 /\ r.v >= s.precharge_v /\ r.v - s.precharge_v < 260

recharge_capacity_end(s, r) ==
  LET recharge_cap == U16((s.real_capacity * s.recharge_ratio) \div 100)
  IN  /\ s.recharge /\ s.recharge_ratio \in 1..100
      /\ recharge_cap # 0 /\ U16(r.cap) >= recharge_cap

(* The conditions of a discharge step.                                     *)
discharge_vot_end(s, r) == s.parm2 # 0 /\ r.v <= s.parm2
discharge_vot_low(s, r) == s.parm2 = 0 /\ r.v <= 1500
discharge_curr_end(s, r) == U16(s.cond2) # 0 /\ r.i <= U16(s.cond2)
discharge_capacity_end(s, r) == s.cond4 # 0 /\ U16(r.cap) >= s.cond4
discharge_curr_err(s, r) == r.i <= 200 \/ r.i > set_i(s) + 100
discharge_status_err(s, r) ==
  r.v > s.parm2 + 20 /\ (set_i(s) < 100 \/ r.i < set_i(s) - 100)
-----------------------------------------------------------------------------
(* The poll.                                                               *)
Save(n) == [n EXCEPT !.saved = [step_end |-> n.step_end,
                                node_status |-> n.node_status]]

End(n, reason) == [n EXCEPT !.step_end = TRUE, !.node_status = reason]

(* A node that shows no fault shows what it is doing.                      *)
Working(n, code) ==
  IF n.node_status \in 10..19 THEN n ELSE [n EXCEPT !.node_status = code]

TimeEnd(s, r) == s.cond3 # 0 /\ r.time >= s.cond3

(* Mutant: the end by time is not shown.                                   *)
step_time_end_silent(s, n, r) ==
  IF TimeEnd(s, r) THEN Save(End(n, n.node_status)) ELSE n

step_time_end(s, n, r) ==
  IF TimeEnd(s, r)
  THEN Save(End(n, IF n.node_status < 10 THEN 20 ELSE n.node_status)) ELSE n

FaultReason(n, r) ==
  CASE r.fault = 0 -> 10 [] r.fault = 1 -> 12 [] r.fault = 2 -> 11
    [] OTHER -> n.node_status

(* The first condition that holds, in the order of the calls; 0 if none.   *)
ChargeReason(s, n, r) ==
  IF charge_vot_end(s, r) THEN 21
  ELSE IF charge_curr_end(s, r) THEN 22
  ELSE IF charge_curr_err(s, r) THEN 24
  ELSE IF charge_vot_low(s, r) THEN 29
  ELSE IF charge_vot_high(s, r) THEN 25
  ELSE IF charge_status_err(s, r) THEN 26
  ELSE IF charge_bat_err(s, n, r) THEN 27
  ELSE IF charge_capacity_end(s, r) THEN 23
  ELSE IF sys_protect(r) THEN 28
  ELSE IF recharge_capacity_end(s, r) THEN 34
  ELSE 0

DischargeReason(s, r) ==
  IF discharge_vot_end(s, r) THEN 21
  ELSE IF discharge_vot_low(s, r) THEN 30
  ELSE IF discharge_curr_end(s, r) THEN 22
  ELSE IF discharge_curr_err(s, r) THEN 31
  ELSE IF discharge_status_err(s, r) THEN 32
  ELSE IF discharge_capacity_end(s, r) THEN 23
  ELSE IF sys_protect(r) THEN 28
  ELSE 0

ChargeLimits(s, n, r) ==
  LET reason == ChargeReason(s, n, r)
      moved  == reason \in {0, 23, 28, 34} /\ n.v_tmp # r.v
      m == IF moved THEN [n EXCEPT !.v_tmp = r.v, !.time_tmp = r.time] ELSE n
  IN  IF reason # 0 THEN Save(End(m, reason))
      ELSE IF charge_bat_vot_up(s, r) THEN [m EXCEPT !.node_status = 33]
      ELSE m

(* HCV stops when the full voltage is reached and the current falls.       *)
HcvFull(s, r) ==
  s.type = "HCV" /\ ~r.cc /\ r.v # 0 /\ r.i # 0
    /\ r.v > s.parm1 - 10 /\ r.i < s.cond1

ChargePoll(s, n, r) ==
  LET shown == Working(n, IF r.cc THEN 3 ELSE 2)
      able  == IF r.enabled THEN shown ELSE Save(End(shown, 13))
      timed == step_time_end(s, able, r)
  IN  IF HcvFull(s, r) THEN Save(End(n, n.node_status))
      ELSE IF ~r.settled \/ timed.step_end THEN timed
      ELSE IF r.err THEN End(timed, FaultReason(timed, r))
      ELSE ChargeLimits(s, timed, r)

(* The record of a capacity end is taken before its reason is set.         *)
DischargePoll(s, n, r) ==
  LET timed  == step_time_end(s, n, r)
      shown  == IF r.err THEN [timed EXCEPT !.node_status = FaultReason(timed, r)]
                ELSE timed
      reason == DischargeReason(s, r)
  IN  CASE ~r.settled \/ timed.step_end -> timed
        [] OTHER ->
             CASE reason = 0  -> shown
               [] reason = 23 -> End(Save(End(shown, shown.node_status)), 23)
               [] OTHER       -> Save(End(shown, reason))

RestPoll(s, n, r) == step_time_end(s, Working(n, 1), r)

sys_run_status_poll(s, n, r) ==
  CASE s.type \in Charging -> ChargePoll(s, n, r)
    [] s.type = "DCV"      -> DischargePoll(s, n, r)
    [] s.type = "REST"     -> RestPoll(s, n, r)
-----------------------------------------------------------------------------
(* What node_start and next_step_handle set for the poll of a new step;    *)
(* v_tmp and time_tmp stay as the steps before have left them.             *)
ShownAtStart(s) ==
  CASE s.type \in Charging -> 3 [] s.type = "DCV" -> 4 [] s.type = "REST" -> 1

NoReading ==
  [ v |-> 0, i |-> 0, time |-> 0, cap |-> 0, cc |-> FALSE, settled |-> FALSE,
    enabled |-> TRUE, err |-> FALSE, fault |-> 0 ]

NoPast == [flat |-> 0, faulty |-> FALSE]

PollInit ==
  /\ step \in Steps
  /\ node = [ step_end |-> FALSE, node_status |-> ShownAtStart(step),
              v_tmp |-> 0, time_tmp |-> 0,
              saved |-> [step_end |-> FALSE, node_status |-> 0] ]
  /\ seen = NoReading /\ past = NoPast

Poll ==
  /\ ~node.step_end
  /\ \E r \in Readings :
       /\ r.time >= seen.time /\ (seen.settled => r.settled)
       /\ seen' = r
       /\ past' = [ flat   |-> IF r.v = seen.v THEN past.flat ELSE r.time,
                    faulty |-> past.faulty \/ r.err ]
       /\ node' = sys_run_status_poll(step, node, r)
  /\ UNCHANGED step

BeginStep ==
  /\ node.step_end
  /\ \E s \in Steps :
       /\ step' = s
       /\ node' = [node EXCEPT !.step_end = FALSE,
                               !.node_status = ShownAtStart(s)]
  /\ seen' = NoReading /\ past' = NoPast

(* The display or the host asks for the state of a node with a fault:      *)
(* read_stage_state assigns where it means to compare.                     *)
ShowStage ==
  /\ seen.err
  /\ node' = [node EXCEPT !.node_status = 10]
  /\ UNCHANGED <<step, seen, past>>

PollNext == Poll \/ BeginStep \/ ShowStage

PollSpec == PollInit /\ [][PollNext]_polling
-----------------------------------------------------------------------------
(* Every variable has its type.                                            *)
PollTypes ==
  /\ step \in Step
  /\ node \in [ step_end: BOOLEAN, node_status: Byte, v_tmp: Word,
                time_tmp: Nat,
                saved: [step_end: BOOLEAN, node_status: Byte] ]
  /\ seen \in Reading
  /\ past \in [flat: Nat, faulty: BOOLEAN]

(* A reading that endangers the cell: above the set voltage or the set     *)
(* current by more than the control tolerates, a collapsed voltage, or     *)
(* beyond the protection limits of the device.                             *)
Unsafe(s, r) ==
  \/ s.type \in Charging /\ (r.v > s.parm1 + 40 \/ r.v <= 400 \/ r.i > set_i(s) + 300)
  \/ s.type = "DCV" /\ (r.i > set_i(s) + 100 \/ (s.parm2 # 0 /\ r.v <= s.parm2))
  \/ s.type # "REST" /\ sys_protect(r)

(* No charge or discharge survives the poll of an unsafe reading once it   *)
(* has settled, whatever the node reports and however it got there: no     *)
(* early return of the poll hides a protection behind another condition.   *)
UnsafeEnds == seen.settled /\ Unsafe(step, seen) => node.step_end

(* A charge in regulation, at its constant current or at its constant      *)
(* voltage, of a sound battery, with no end condition met and no limit of  *)
(* the device near.                                                        *)
InRegulation(s, r) ==
  /\ r.enabled /\ ~r.err
  /\ r.v \in 2800..s.parm1-1
  /\ r.i <= set_i(s) /\ (r.i >= set_i(s) - 500 \/ r.v >= s.parm1 - 40)
  /\ ~TimeEnd(s, r) /\ ~charge_curr_end(s, r) /\ ~charge_capacity_end(s, r)
  /\ ~sys_protect(r) /\ ~recharge_capacity_end(s, r)
  /\ r.v >= 3100 \/ r.time - past.flat <= 300

(* A charge in regulation goes on: charge_status_err_poll, "neither        *)
(* constant voltage nor constant current" (sys_logic_control.c:492), and   *)
(* the other checks end no step that charges as it should.                 *)
RegulatedGoesOn ==
  step.type = "CV" /\ InRegulation(step, seen) => ~node.step_end

(* The reason of an ended step that the node reports is a condition that   *)
(* the last reading meets, or a fault this step has seen; a reason of an   *)
(* earlier step or poll never stands for it.  Two ends say nothing: a      *)
(* constant current charge that is full, and a fault of a kind unknown.    *)
ReasonHolds(s, r, faulty, reason) ==
  CASE reason = 20 -> TimeEnd(s, r)
    [] reason = 13 -> ~r.enabled
    [] reason \in 10..12 -> faulty
    [] reason = 21 -> IF s.type = "DCV" THEN r.v <= s.parm2 ELSE r.v >= s.parm1
    [] reason = 22 -> charge_curr_end(s, r) \/ discharge_curr_end(s, r)
    [] reason = 23 -> charge_capacity_end(s, r) \/ discharge_capacity_end(s, r)
    [] reason = 24 -> charge_curr_err(s, r)
    [] reason \in {25, 29, 30} -> Unsafe(s, r) \/ discharge_vot_low(s, r)
    [] reason = 26 -> r.v < s.parm1 - 40
    [] reason = 27 -> r.v < 3100
    [] reason = 28 -> sys_protect(r)
    [] reason = 31 -> discharge_curr_err(s, r)
    [] reason = 32 -> r.v > s.parm2 + 20
    [] reason = 34 -> recharge_capacity_end(s, r)
    [] OTHER -> FALSE

Silent(s, r) == HcvFull(s, r) \/ (s.type \in Charging /\ r.err /\ r.fault > 2)

EndReasonTrue ==
  node.step_end => \/ ReasonHolds(step, seen, past.faulty, node.node_status)
                   \/ Silent(step, seen)

(* When a step has ended the record for the database shows that it has,    *)
(* and why ("save the real-time data when an end condition is reached",    *)
(* sys_logic_control.c:293).                                               *)
EndIsRecorded ==
  node.step_end => /\ node.saved.step_end
                   /\ node.saved.node_status = node.node_status

(* A battery that stays below 2 V while it is charged is given up after    *)
(* ten minutes at the latest (sys_logic_control.c:584, "whatever happens,  *)
(* after 10 minutes without reaching 2 V it must stop").                   *)
DeadBatteryEnds ==
  step.type = "CV" /\ seen.settled /\ seen.v < 2000 /\ seen.time > 600
    => node.step_end
=============================================================================
