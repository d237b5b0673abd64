------------------------------ MODULE StepPlan ------------------------------
(***************************************************************************)
(* What a step program means, without a cursor: a sequence of steps fixed  *)
(* when the program is sent.  A sub-loop closed by step s replays the      *)
(* section from its jump target to s as often as sub_cyc says, once it has *)
(* been passed; the whole is made cyc times.  Sub-loops are disjoint.      *)
(***************************************************************************)
EXTENDS StepProgram, SequencesExt

CONSTANT
  Programs      \* the programs a host may send

VARIABLES
  prog,         \* the program sent
  executed,     \* the steps made so far
  complete      \* the host has been told that the node is done

vars == <<prog, executed, complete>>

Repeat(seq, times) == FlattenSeq([i \in 1..times |-> seq])

(* The indices from..to, in order.                                         *)
Section(from, to) == [i \in 1..(to - from + 1) |-> from + i - 1]

Block(p, s) ==
  <<s>> \o IF ClosesLoop(p, s)
           THEN Repeat(Section(LoopStart(p, s), s), p.step[s].sub_cyc)
           ELSE <<>>

Round(p) == FlattenSeq([i \in 1..p.step_num |-> Block(p, i - 1)])

Plan(p) == Repeat(Round(p), p.cyc)

Init ==
  /\ prog \in Programs
  /\ executed = <<>>
  /\ complete = FALSE

MakeStep ==
  /\ ~complete
  /\ executed' = Append(executed, Plan(prog)[Len(executed) + 1])
  /\ complete' = (Len(executed') = Len(Plan(prog)))
  /\ UNCHANGED prog

Spec == Init /\ [][MakeStep]_vars /\ WF_vars(MakeStep)
=============================================================================
