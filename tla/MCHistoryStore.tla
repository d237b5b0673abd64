--------------------------- MODULE MCHistoryStore ---------------------------
(***************************************************************************)
(* Three nodes of which the first two may run; the rows of the third could *)
(* not be read, as a range must end before the last number.                *)
(***************************************************************************)
EXTENDS HistoryStore

FirstTwo == {0, 1}
TwoAndOne == [n \in FirstTwo |-> IF n = 0 THEN 2 ELSE 1]
=============================================================================
