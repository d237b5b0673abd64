---------------------------- MODULE MCStepPolls ----------------------------
(* StepPolls on readings around the limits of a few steps.                 *)
EXTENDS StepPolls

StepOf(type, v, i, cond2, cond3, cond4) ==
  [ type |-> type, parm1 |-> v, parm2 |-> v, cond1 |-> i, cond2 |-> cond2,
    cond3 |-> cond3, cond4 |-> cond4, precharge_v |-> 2000,
    recharge |-> FALSE, real_capacity |-> 0, recharge_ratio |-> 0 ]

Recharge(s) == [s EXCEPT !.recharge = TRUE, !.real_capacity = 1000,
                         !.recharge_ratio = 50]

(* Readings of an enabled node: the module leaves constant current at      *)
(* 3490 mV, a step settles 10 s after its start.                           *)
ReadingsOf(volts, amps, times, caps, errs) ==
  {r \in [ v: volts, i: amps, time: times, cap: caps, cc: BOOLEAN,
           settled: BOOLEAN, enabled: {TRUE}, err: errs, fault: {1} ] :
     r.settled = (r.time >= 10) /\ r.cc = (r.v < 3490)}

WideProtect == [low_v |-> 0, high_v |-> 4500, low_i |-> 0, high_i |-> 2000]
NearProtect == [low_v |-> 1450, high_v |-> 3535, low_i |-> 40, high_i |-> 1500]

(* 66300 mAh count as 764 in the u16 that is compared.                     *)
SomeSteps ==
  {StepOf("CV", 3500, 1000, 50, 4000, 700), StepOf("HCV", 3500, 1000, 0, 0, 0),
   Recharge(StepOf("CV", 3500, 1000, 0, 0, 0)),
   StepOf("DCV", 2700, 1000, 300, 4000, 700), StepOf("DCV", 0, 1000, 0, 4000, 0),
   StepOf("REST", 0, 0, 0, 60, 0)}
SomeReadings ==
  ReadingsOf({390, 1400, 2700, 3470, 3499, 3541},
             {50, 300, 480, 1000, 1101, 1301}, {0, 60, 4000}, {0}, {FALSE})
  \cup ReadingsOf({2800, 3470}, {480, 1000}, {60}, {66300}, BOOLEAN)
  \cup ReadingsOf({3470}, {480, 1000}, {0, 4000}, {0}, {TRUE})
  \cup {[r EXCEPT !.enabled = FALSE] :
          r \in ReadingsOf({3499}, {1000}, {60}, {0}, {FALSE})}
  \cup {[r EXCEPT !.fault = kind] :
          r \in ReadingsOf({2800}, {1000}, {60}, {0}, {TRUE}), kind \in {0, 2, 3}}

LowReadings == ReadingsOf({3300, 3470}, {250, 300}, {0, 60}, {0}, {FALSE})
SmallCurrent == {StepOf("CV", 3500, 300, 20, 0, 0)}
TwoCharges   == {StepOf("CV", 3500, 1000, 0, 1000, 0)}
FlatReadings == ReadingsOf({2900, 3000}, {1000}, {0, 20, 60, 1000}, {0}, {FALSE})
DeadReadings == ReadingsOf({1900, 1950}, {1000}, {0, 60, 601}, {0}, {FALSE})
FullByCapacity == {StepOf("DCV", 2700, 1000, 0, 0, 700)}
=============================================================================
