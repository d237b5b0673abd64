----------------------------- MODULE StepBasics ----------------------------
(* What the cursor of a program and the poll of a step both speak of.      *)
EXTENDS Integers

(* The types of a step that charges.                                       *)
Charging == {"CV", "HCV"}

(* u8 and u16.                                                             *)
Byte == 0..255
Word == 0..65535
=============================================================================
