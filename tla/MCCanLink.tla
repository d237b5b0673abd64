----------------------------- MODULE MCCanLink -----------------------------
(* CanLink for TLC: two modules and one fault of any kind; or the first    *)
(* module alone, the second missing, and faults until its link is given    *)
(* up.  The bus never holds more frames than the losses and delays allow,  *)
(* so that no further bound is needed.                                     *)
EXTENDS CanLink

Budget(losses, delays, both, present) ==
  [losses |-> losses, delays |-> delays, both |-> both, present |-> present]

SomeBudgets == {Budget(1, 1, 1, {1, 2}), Budget(4, 0, 4, {1})}
OneAlone    == {Budget(2, 0, 2, {1})}
=============================================================================
