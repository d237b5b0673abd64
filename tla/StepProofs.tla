----------------------------- MODULE StepProofs ----------------------------
(***************************************************************************)
(* Theorems about the steps of a program: which follow each other, and     *)
(* when each one ends.                                                     *)
(*                                                                         *)
(* StepSequencer and StepTrace, for every MaxStep and every set of         *)
(* programs: the types, the passes, and, in the second part, that the run  *)
(* makes the plan of its program.  That proof needs what FlattenSeq makes  *)
(* of a sequence of parts, which is shown first; then what lies ahead of a *)
(* cursor, step by step; then the invariant.                               *)
(*                                                                         *)
(* StepPolls, for every step, every reading and every protection limit:    *)
(* the poll that sees an unsafe reading of a settled charge or discharge   *)
(* ends the step (the lemma on one poll follows its early returns), the    *)
(* reasons it reports are true, and a charge in regulation goes on as long *)
(* as its time is its own.                                                 *)
(***************************************************************************)
EXTENDS StepTrace, StepPolls, SequenceTheorems, WellFoundedInduction, TLAPS


-----------------------------------------------------------------------------
(* The cursor arithmetic, for every MaxStep and program.                   *)

(* Assigning a natural number to a u8 variable gives a byte, and leaves a  *)
(* number that fits unchanged.                                             *)
LEMMA U8Lemma ==
  ASSUME NEW x \in Nat
  PROVE  U8(x) \in Byte /\ (x <= 255 => U8(x) = x)
  BY DEF U8, Byte

(* The step after s is an earlier step, the next one, or the slot behind   *)
(* the last.                                                               *)
LEMMA StepAfterLemma ==
  ASSUME NEW p \in NodeProgram, NEW s \in 0..MaxStep-1, NEW k \in Byte
  PROVE  StepAfter(p, s, k) \in 0..MaxStep
  <1>1. p.step[s] \in NodeStep
    BY MaxStepAssumption DEF NodeProgram
  <1>2. p.step[s].jump_step \in Byte
    BY <1>1 DEF NodeStep
  <1>3. CASE Repeats(p, s, k)
    <2>. DEFINE j == p.step[s].jump_step
    <2>1. j # 0 /\ j - 1 < s /\ StepAfter(p, s, k) = j - 1
      BY <1>3 DEF StepAfter, Repeats, ClosesLoop, LoopStart
    <2>2. j \in Nat
      BY <1>2 DEF Byte
    <2>. HIDE DEF j
    <2>. QED BY <2>1, <2>2, MaxStepAssumption
  <1>4. CASE ~Repeats(p, s, k)
    BY <1>4, MaxStepAssumption DEF StepAfter
  <1>. QED BY <1>3, <1>4

(* The sub-loop counter stays a byte.                                      *)
LEMMA SubCycAfterLemma ==
  ASSUME NEW p \in NodeProgram, NEW s \in 0..MaxStep-1, NEW k \in Byte
  PROVE  SubCycAfter(p, s, k) \in Byte
  <1>1. U8(k + 1) \in Byte
    BY U8Lemma DEF Byte
  <1>. QED BY <1>1 DEF SubCycAfter, Byte

(* next_step_handle maps a cursor to a cursor: no index it stores leaves   *)
(* step[], whatever the program's jumps and counts.                        *)
LEMMA NextStepLemma ==
  ASSUME NEW p \in NodeProgram, NEW c \in Cursor, NEW blocked \in BOOLEAN
  PROVE  NextStep(p, c, blocked) \in Cursor
  <1>. DEFINE next == StepAfter(p, c.now_step, c.sub_now_cyc)
              over == next >= p.step_num
              last == over /\ LastPass(p, next, c.now_cyc)
              at   == IF last THEN c.now_step ELSE IF over THEN 0 ELSE next
              type == IF last THEN "CEND" ELSE p.step[at].type
  <1>1. /\ c.now_step \in 0..MaxStep-1
        /\ c.sub_now_cyc \in Byte
        /\ c.now_cyc \in Byte
        /\ c.recharge_status \in {0, 1}
        /\ c.work_type \in Outputs
        /\ c.run_status \in RunStatus
    BY DEF Cursor
  <1>2. next \in 0..MaxStep
    BY <1>1, StepAfterLemma
  <1>3. p.step_num \in 0..MaxStep
    BY DEF NodeProgram
  <1>4. at \in 0..MaxStep-1
    <2>. HIDE DEF next
    <2>. QED BY <1>1, <1>2, <1>3, MaxStepAssumption
  <1>5. Enter(type, blocked, c.work_type) \in Outputs
    BY <1>1 DEF Enter, OutputOf, Outputs, Charging
  <1>6. SubCycAfter(p, c.now_step, c.sub_now_cyc) \in Byte
    BY <1>1, SubCycAfterLemma
  <1>7. U8(c.now_cyc + 1) \in Byte
    BY <1>1, U8Lemma DEF Byte
  <1>8. RechargeAt(p, next, c.recharge_status) \in {0, 1}
    BY <1>1 DEF RechargeAt
  <1>9. (IF type = "CEND" THEN "COMP" ELSE c.run_status) \in RunStatus
    BY <1>1 DEF RunStatus
  <1>10. NextType(p, c) = type
    BY DEF NextType
  <1>11. Moved(p, c) =
           [ now_step        |-> at,
             sub_now_cyc     |-> SubCycAfter(p, c.now_step, c.sub_now_cyc),
             now_cyc         |-> IF over /\ ~last THEN U8(c.now_cyc + 1)
                                 ELSE c.now_cyc,
             recharge_status |-> RechargeAt(p, next, c.recharge_status),
             work_type       |-> c.work_type,
             run_status      |-> c.run_status ]
    BY DEF Moved
  <1>12. NextStep(p, c, blocked) =
           [ Moved(p, c) EXCEPT
               !.work_type = Enter(type, blocked, c.work_type),
               !.run_status = IF type = "CEND" THEN "COMP" ELSE c.run_status ]
    BY <1>10, <1>11 DEF NextStep
  <1>. HIDE DEF next, over, last, at, type
  <1>13. Moved(p, c) \in Cursor
    BY <1>1, <1>4, <1>6, <1>7, <1>8, <1>11 DEF Cursor
  <1>. QED BY <1>5, <1>9, <1>12, <1>13 DEF Cursor

(* next_step_handle starts a further pass only if the count allows it.     *)
LEMMA PassLemma ==
  ASSUME NEW p \in NodeProgram, NEW c \in Cursor, NEW blocked \in BOOLEAN,
         p.cyc \in 1..255, c.now_cyc < p.cyc
  PROVE  NextStep(p, c, blocked).now_cyc < p.cyc
  <1>. DEFINE next == StepAfter(p, c.now_step, c.sub_now_cyc)
              over == next >= p.step_num
  <1>1. c.now_cyc \in Byte
    BY DEF Cursor
  <1>2. U8(c.now_cyc + 1) = c.now_cyc + 1
    BY <1>1, U8Lemma DEF Byte
  <1>3. NextStep(p, c, blocked).now_cyc =
          IF over /\ ~LastPass(p, next, c.now_cyc) THEN U8(c.now_cyc + 1)
          ELSE c.now_cyc
    BY DEF NextStep, Moved, NextType
  <1>4. CASE over /\ ~LastPass(p, next, c.now_cyc)
    <2>1. c.now_cyc + 1 # p.cyc
      BY <1>2, <1>4 DEF LastPass
    <2>2. NextStep(p, c, blocked).now_cyc = c.now_cyc + 1
      BY <1>2, <1>3, <1>4
    <2>3. \A a, b \in Int : a < b /\ a + 1 # b => a + 1 < b
      OBVIOUS
    <2>4. c.now_cyc \in Int /\ p.cyc \in Int
      BY <1>1 DEF Byte
    <2>. QED BY <2>1, <2>2, <2>3, <2>4
  <1>5. CASE ~(over /\ ~LastPass(p, next, c.now_cyc))
    BY <1>3, <1>5
  <1>. QED BY <1>4, <1>5
-----------------------------------------------------------------------------

(* Started is a cursor.                                                    *)
LEMMA StartedLemma ==
  ASSUME NEW p \in NodeProgram, NEW recharge \in {0, 1}
  PROVE  Started(p, recharge) \in Cursor
  <1>1. RechargeAt(p, 0, recharge) \in {0, 1}
    BY DEF RechargeAt
  <1>2. OutputOf(p.step[0].type) \in Outputs
    BY DEF OutputOf, Outputs
  <1>. QED BY <1>1, <1>2, MaxStepAssumption
           DEF Started, Cursor, Byte, RunStatus
-----------------------------------------------------------------------------
(* The program and the cursor keep their types, so that every access       *)
(* step[now_step] of next_step_handle and of the polls is inside the array.*)
THEOREM TypeCorrect == Spec => []TypeOK
  <1>1. Init => TypeOK
    BY ProgramsAssumption, StartedLemma DEF Init, TypeOK
  <1>2. TypeOK /\ [Next]_vars => TypeOK'
    BY NextStepLemma DEF TypeOK, Next, FinishStep, Halted, vars
  <1>. QED BY <1>1, <1>2, PTL DEF Spec
-----------------------------------------------------------------------------
(* A program whose cycle count fits a byte never makes more passes than it *)
(* was given, with any jumps, any fault and any number of slots.           *)
THEOREM PassesBounded == Spec => []MainCyclesBounded
  <1>1. Init => MainCyclesBounded
    BY DEF Init, Started, MainCyclesBounded
  <1>2. TypeOK /\ MainCyclesBounded /\ [Next]_vars => MainCyclesBounded'
    BY PassLemma
    DEF TypeOK, MainCyclesBounded, Next, FinishStep, Halted, vars
  <1>. QED BY <1>1, <1>2, TypeCorrect, PTL DEF Spec
-----------------------------------------------------------------------------
(* Every non-empty set of naturals has a least element.                    *)
LEMMA LeastElement ==
  ASSUME NEW S, S \subseteq Nat, S # {}
  PROVE  \E x \in S : \A y \in S : x <= y
  <1>. DEFINE Less == OpToRel(<, Nat)
  <1>1. IsWellFoundedOn(Less, Nat)
    BY NatLessThanWellFounded
  <1>2. ASSUME NEW x \in Nat, NEW y \in Nat, <<y, x>> \notin Less
        PROVE  x <= y
    <2>1. Less = {ss \in Nat \X Nat : ss[1] < ss[2]}
      BY Zenon DEF OpToRel
    <2>2. <<y, x>> \in Nat \X Nat /\ <<y, x>>[1] = y /\ <<y, x>>[2] = x
      OBVIOUS
    <2>3. ~(<<y, x>>[1] < <<y, x>>[2])
      BY <1>2, <2>1, <2>2, Zenon
    <2>. QED BY <2>2, <2>3
  <1>. HIDE DEF Less
  <1>3. PICK x \in S : \A y \in S : <<y, x>> \notin Less
    BY <1>1, WFMin
  <1>. QED BY <1>2, <1>3

(* A set of numbers with 0 that goes from each to the next has them all.   *)
LEMMA Induction ==
  ASSUME NEW S, 0 \in S, \A n \in Nat \ {0} : n - 1 \in S => n \in S
  PROVE  Nat \subseteq S
  <1>. SUFFICES ASSUME Nat \ S # {} PROVE FALSE
    OBVIOUS
  <1>1. PICK n \in Nat \ S : \A k \in Nat \ S : n <= k
    BY LeastElement
  <1>2. n # 0 /\ n - 1 \in Nat
    BY <1>1
  <1>3. n - 1 \in S
    BY <1>1, <1>2
  <1>. QED BY <1>1, <1>2, <1>3

Associative(x, y, z) == (x \o y) \o z = x \o (y \o z)

LEMMA AssociativeLemma ==
  ASSUME NEW S, NEW x \in Seq(S), NEW y \in Seq(S), NEW z \in Seq(S)
  PROVE  Associative(x, y, z)
  BY ConcatAssociative DEF Associative

(* FlattenSeq is a recursion over the parts, from the first to the last.   *)
Joined(seqs, g, i) == IF i = 1 THEN seqs[i] ELSE g[i-1] \o seqs[i]

LEMMA JoinedExist ==
  ASSUME NEW seqs, NEW m \in Nat
  PROVE  \E g : g = [i \in 1..m |-> Joined(seqs, g, i)]
  <1>. DEFINE Missing == {l \in Nat : ~\E g : g = [i \in 1..l |-> Joined(seqs, g, i)]}
  <1>1. SUFFICES ASSUME Missing # {} PROVE FALSE
    OBVIOUS
  <1>2. PICK l \in Missing : \A k \in Missing : l <= k
    BY <1>1, LeastElement
  <1>3. CASE l = 0
    <2>1. [i \in 1..0 |-> <<>>] = [i \in 1..0 |-> Joined(seqs, [j \in 1..0 |-> <<>>], i)]
      OBVIOUS
    <2>. QED BY <1>2, <1>3, <2>1
  <1>4. CASE l # 0
    <2>1. l - 1 \in Nat /\ l - 1 \notin Missing
      BY <1>2, <1>4
    <2>2. PICK g : g = [i \in 1..l-1 |-> Joined(seqs, g, i)]
      BY <2>1
    <2>. DEFINE h == [i \in 1..l |-> IF i < l THEN g[i] ELSE Joined(seqs, g, i)]
    <2>3. \A i \in 1..l : Joined(seqs, h, i) = Joined(seqs, g, i)
      BY <1>2 DEF Joined
    <2>4. \A i \in 1..l : h[i] = Joined(seqs, h, i)
      BY <2>2, <2>3, <1>2
    <2>5. h = [i \in 1..l |-> Joined(seqs, h, i)]
      <3>. HIDE DEF h
      <3>1. h = [i \in 1..l |-> h[i]]
        BY DEF h
      <3>. QED BY <2>4, <3>1
    <2>. QED BY <1>2, <2>5
  <1>. QED BY <1>3, <1>4

LEMMA FlattenIsJoined ==
  ASSUME NEW S, NEW seqs \in Seq(Seq(S)), seqs # <<>>
  PROVE  \E g : /\ g = [i \in 1..Len(seqs) |-> Joined(seqs, g, i)]
                /\ Abstract!FlattenSeq(seqs) = g[Len(seqs)]
  <1>. DEFINE flatten == CHOOSE g : g = [i \in 1..Len(seqs) |-> Joined(seqs, g, i)]
  <1>0. Len(seqs) \in Nat /\ Len(seqs) # 0
    OBVIOUS
  <1>1. \E g : g = [i \in 1..Len(seqs) |-> Joined(seqs, g, i)]
    BY <1>0, JoinedExist
  <1>2. flatten = [i \in 1..Len(seqs) |-> Joined(seqs, flatten, i)]
    BY <1>1, Zenon
  <1>3. Abstract!FlattenSeq(seqs) = flatten[Len(seqs)]
    BY <1>0, Zenon DEF Abstract!FlattenSeq, Joined
  <1>. QED BY <1>2, <1>3, Zenon

Flattens(S, seqs, l, g) ==
  /\ g \in [1..l -> Seq(S)]
  /\ g[1] = seqs[1]
  /\ \A i \in 2..l : g[i] = g[i-1] \o seqs[i]
  /\ Abstract!FlattenSeq(seqs) = g[l]

LEMMA FlattenRecursion ==
  ASSUME NEW S, NEW seqs \in Seq(Seq(S)), NEW l \in Nat, l = Len(seqs), l # 0
  PROVE  \E g : Flattens(S, seqs, l, g)
  <1>1. PICK g : /\ g = [i \in 1..l |-> Joined(seqs, g, i)]
                 /\ Abstract!FlattenSeq(seqs) = g[l]
    <2>1. seqs # <<>>
      OBVIOUS
    <2>. QED BY <2>1, FlattenIsJoined
  <1>2. \A i \in 1..l : seqs[i] \in Seq(S)
    OBVIOUS
  <1>3. \A i \in 1..l : g[i] = Joined(seqs, g, i)
    BY <1>1, Zenon
  <1>4. g[1] = seqs[1]
    BY <1>3 DEF Joined
  <1>5. \A i \in 2..l : g[i] = g[i-1] \o seqs[i]
    <2>. TAKE i \in 2..l
    <2>1. i \in 1..l /\ i # 1
      OBVIOUS
    <2>. QED BY <1>3, <2>1 DEF Joined
  <1>. DEFINE Typed == {i \in Nat : i + 1 <= l => g[i + 1] \in Seq(S)}
  <1>6. 0 \in Typed
    BY <1>2, <1>4
  <1>7. ASSUME NEW i \in Nat \ {0}, i - 1 \in Typed PROVE i \in Typed
    <2>. SUFFICES ASSUME i + 1 <= l PROVE g[i + 1] \in Seq(S)
      OBVIOUS
    <2>1. /\ i + 1 \in 2..l /\ i + 1 \in 1..l /\ (i + 1) - 1 = i /\ (i - 1) + 1 = i
          /\ i <= l
      OBVIOUS
    <2>2. g[i] \in Seq(S) /\ seqs[i + 1] \in Seq(S)
      BY <1>2, <1>7, <2>1
    <2>3. g[i + 1] = g[i] \o seqs[i + 1]
      BY <1>5, <2>1
    <2>. QED BY <2>2, <2>3, ConcatProperties
  <1>8. \A i \in 1..l : g[i] \in Seq(S)
    <2>. HIDE DEF Typed
    <2>1. Nat \subseteq Typed
      BY <1>6, <1>7, Induction
    <2>2. \A i \in 1..l : i - 1 \in Nat /\ (i - 1) + 1 = i /\ i <= l
      OBVIOUS
    <2>. QED BY <2>1, <2>2 DEF Typed
  <1>9. g \in [1..l -> Seq(S)]
    <2>1. g = [i \in 1..l |-> g[i]]
      BY <1>1, <1>3
    <2>. QED BY <1>8, <2>1
  <1>. QED BY <1>1, <1>4, <1>5, <1>9 DEF Flattens

LEMMA FlattenEmpty == Abstract!FlattenSeq(<<>>) = <<>>
  BY DEF Abstract!FlattenSeq

LEMMA FlattenType ==
  ASSUME NEW S, NEW seqs \in Seq(Seq(S))
  PROVE  Abstract!FlattenSeq(seqs) \in Seq(S)
  <1>1. PICK l \in Nat : l = Len(seqs)
    OBVIOUS
  <1>2. CASE l = 0
    <2>1. seqs = <<>> /\ <<>> \in Seq(S)
      BY <1>1, <1>2, EmptySeq
    <2>. QED BY <2>1, FlattenEmpty
  <1>3. CASE l # 0
    <2>1. PICK g : Flattens(S, seqs, l, g)
      BY <1>1, <1>3, FlattenRecursion
    <2>. QED BY <1>3, <2>1 DEF Flattens
  <1>. QED BY <1>2, <1>3

(* The first part comes first.                                             *)
LEMMA FlattenFront ==
  ASSUME NEW S, NEW seqs \in Seq(Seq(S)), seqs # <<>>
  PROVE  Abstract!FlattenSeq(seqs) = seqs[1] \o Abstract!FlattenSeq(Tail(seqs))
  <1>1. PICK l \in Nat : l = Len(seqs) /\ l # 0
    <2>1. Len(seqs) \in Nat /\ Len(seqs) # 0
      OBVIOUS
    <2>. QED BY <2>1
  <1>2. PICK rest \in Seq(Seq(S)) :
          /\ rest = Tail(seqs) /\ Len(rest) = l - 1
          /\ \A i \in 1..l-1 : rest[i] = seqs[i + 1]
    <2>1. /\ Tail(seqs) \in Seq(Seq(S)) /\ Len(Tail(seqs)) = l - 1
          /\ \A i \in 1..Len(Tail(seqs)) : Tail(seqs)[i] = seqs[i + 1]
      BY <1>1, HeadTailProperties
    <2>. QED BY <2>1
  <1>3. seqs[1] \in Seq(S) /\ \A i \in 1..l : seqs[i] \in Seq(S)
    BY <1>1
  <1>4. PICK g : Flattens(S, seqs, l, g)
    BY <1>1, FlattenRecursion
  <1>. USE DEF Flattens
  <1>5. CASE l = 1
    <2>1. rest = <<>>
      <3>1. Len(rest) = 0
        BY <1>2, <1>5
      <3>. QED BY <3>1, EmptySeq
    <2>2. seqs[1] \o <<>> = seqs[1]
      BY <1>3, ConcatEmptySeq
    <2>. QED BY <1>2, <1>4, <1>5, <2>1, <2>2, FlattenEmpty
  <1>6. CASE l # 1
    <2>1. l - 1 \in Nat /\ l - 1 # 0
      BY <1>1, <1>6
    <2>2. PICK h : Flattens(S, rest, l - 1, h)
      <3>. HIDE DEF Flattens
      <3>. QED BY <1>2, <2>1, FlattenRecursion
    <2>. DEFINE Front == {i \in Nat : i + 2 <= l => g[i + 2] = seqs[1] \o h[i + 1]}
    <2>3. 0 \in Front
      <3>1. 2 \in 2..l /\ 2 - 1 = 1 /\ 1 \in 1..l-1 /\ 1 + 1 = 2
        BY <1>1, <1>6
      <3>2. g[2] = g[1] \o seqs[2]
        BY <1>4, <3>1
      <3>3. h[1] = seqs[2]
        BY <1>2, <2>2, <3>1
      <3>4. g[0 + 2] = seqs[1] \o h[0 + 1]
        <4>1. 0 + 2 = 2 /\ 0 + 1 = 1
          OBVIOUS
        <4>. QED BY <1>4, <3>2, <3>3, <4>1, Zenon
      <3>. QED BY <3>4
    <2>4. ASSUME NEW i \in Nat \ {0}, i - 1 \in Front PROVE i \in Front
      <3>. SUFFICES ASSUME i + 2 <= l PROVE g[i + 2] = seqs[1] \o h[i + 1]
        OBVIOUS
      <3>1. /\ i + 2 \in 2..l /\ (i + 2) - 1 = i + 1 /\ (i - 1) + 2 = i + 1 /\ i + 1 <= l
            /\ (i - 1) + 1 = i /\ i + 1 \in 2..l-1 /\ (i + 1) - 1 = i /\ i \in 1..l-1
            /\ i + 2 \in 1..l /\ i + 1 \in 1..l-1 /\ (i + 1) + 1 = i + 2
        OBVIOUS
      <3>2. g[i + 1] = seqs[1] \o h[i]
        BY <2>4, <3>1
      <3>3. g[i + 2] = g[i + 1] \o seqs[i + 2]
        BY <1>4, <3>1
      <3>4. h[i + 1] = h[i] \o seqs[i + 2]
        <4>1. rest[i + 1] = seqs[i + 2]
          BY <1>2, <3>1
        <4>. QED BY <2>2, <3>1, <4>1
      <3>5. PICK x \in Seq(S), y \in Seq(S), z \in Seq(S) :
              x = seqs[1] /\ y = h[i] /\ z = seqs[i + 2]
        BY <1>3, <2>2, <3>1
      <3>6. (x \o y) \o z = x \o (y \o z)
        <4>1. Associative(x, y, z)
          BY AssociativeLemma
        <4>. QED BY <4>1 DEF Associative
      <3>. QED BY <3>2, <3>3, <3>4, <3>5, <3>6
    <2>5. l - 2 \in Front
      <3>. HIDE DEF Front
      <3>1. Nat \subseteq Front
        BY <2>3, <2>4, Induction
      <3>2. l - 2 \in Nat
        BY <2>1
      <3>. QED BY <3>1, <3>2
    <2>6. g[l] = seqs[1] \o h[l - 1]
      <3>1. (l - 2) + 2 = l /\ (l - 2) + 1 = l - 1 /\ l <= l
        BY <1>1
      <3>. QED BY <2>5, <3>1
    <2>. QED BY <1>2, <1>4, <2>2, <2>6
  <1>. QED BY <1>5, <1>6

(* Repeat, and the rest of a round, from the front.                        *)
LEMMA RepeatLemma ==
  ASSUME NEW S, NEW q \in Seq(S), NEW n \in Nat
  PROVE  /\ Abstract!Repeat(q, n) \in Seq(S)
         /\ n = 0 => Abstract!Repeat(q, n) = <<>>
         /\ n # 0 => Abstract!Repeat(q, n) = q \o Abstract!Repeat(q, n - 1)
  <1>. DEFINE copies(k) == [i \in 1..k |-> q]
  <1>1. ASSUME NEW k \in Nat PROVE copies(k) \in Seq(Seq(S)) /\ Len(copies(k)) = k
    OBVIOUS
  <1>2. Abstract!Repeat(q, n) \in Seq(S)
    BY <1>1, FlattenType DEF Abstract!Repeat
  <1>3. ASSUME n = 0 PROVE Abstract!Repeat(q, n) = <<>>
    <2>1. copies(n) = <<>>
      BY <1>3
    <2>. QED BY <2>1, FlattenEmpty DEF Abstract!Repeat
  <1>4. ASSUME n # 0 PROVE Abstract!Repeat(q, n) = q \o Abstract!Repeat(q, n - 1)
    <2>1. copies(n) # <<>> /\ copies(n)[1] = q /\ n - 1 \in Nat
      BY <1>4
    <2>2. Tail(copies(n)) = copies(n - 1)
      BY <1>1, <2>1
    <2>3. Abstract!FlattenSeq(copies(n))
            = copies(n)[1] \o Abstract!FlattenSeq(Tail(copies(n)))
      <3>. HIDE DEF copies
      <3>. QED BY <1>1, <2>1, FlattenFront
    <2>. QED BY <2>1, <2>2, <2>3 DEF Abstract!Repeat
  <1>. QED BY <1>2, <1>3, <1>4

(* What a round still has to make when it comes to step s.                 *)
RoundFrom(p, s) ==
  Abstract!FlattenSeq([i \in 1..p.step_num - s |-> Abstract!Block(p, s + i - 1)])

LEMMA SectionLemma ==
  ASSUME NEW a \in Int, NEW b \in Int
  PROVE  /\ Abstract!Section(a, b) \in Seq(Int)
         /\ a <= b => Abstract!Section(a, b) = <<a>> \o Abstract!Section(a + 1, b)
         /\ a > b => Abstract!Section(a, b) = <<>>
  <1>1. Abstract!Section(a, b) \in Seq(Int)
    <2>1. CASE b - a + 1 \in Nat
      BY <2>1 DEF Abstract!Section
    <2>2. CASE b - a + 1 \notin Nat
      <3>1. Abstract!Section(a, b) = <<>>
        BY <2>2 DEF Abstract!Section
      <3>. QED BY <3>1
    <2>. QED BY <2>1, <2>2
  <1>2. ASSUME a > b PROVE Abstract!Section(a, b) = <<>>
    BY <1>2 DEF Abstract!Section
  <1>3. ASSUME a <= b PROVE Abstract!Section(a, b) = <<a>> \o Abstract!Section(a + 1, b)
    <2>1. PICK n \in Nat : n = b - a
      BY <1>3
    <2>. DEFINE u == [i \in 1..n+1 |-> a + i - 1]
                v == [i \in 1..n |-> (a + 1) + i - 1]
    <2>2. Abstract!Section(a, b) = u /\ Abstract!Section(a + 1, b) = v
      BY <2>1 DEF Abstract!Section
    <2>3. u \in Seq(Int) /\ v \in Seq(Int) /\ Len(u) = n + 1 /\ Len(v) = n
      OBVIOUS
    <2>4. PICK w \in Seq(Int) : /\ w = <<a>> \o v /\ Len(w) = n + 1
                                /\ \A i \in 1..n+1 : w[i] = IF i <= 1 THEN a ELSE v[i - 1]
      <3>1. PICK e \in Seq(Int) : e = <<a>> /\ Len(e) = 1 /\ e[1] = a
        <4>1. <<a>> \in Seq(Int) /\ Len(<<a>>) = 1 /\ <<a>>[1] = a
          OBVIOUS
        <4>. QED BY <4>1, Zenon
      <3>. HIDE DEF v
      <3>2. /\ e \o v \in Seq(Int) /\ Len(e \o v) = Len(e) + Len(v)
            /\ \A i \in 1..Len(e) + Len(v) :
                 (e \o v)[i] = IF i <= Len(e) THEN e[i] ELSE v[i - Len(e)]
        BY <2>3, ConcatProperties
      <3>3. \A i \in 1..n+1 : (e \o v)[i] = IF i <= 1 THEN a ELSE v[i - 1]
        <4>. TAKE i \in 1..n+1
        <4>1. i \in 1..Len(e) + Len(v)
          BY <2>3, <3>1
        <4>2. (e \o v)[i] = IF i <= 1 THEN e[i] ELSE v[i - 1]
          BY <3>1, <3>2, <4>1
        <4>3. i <= 1 => i = 1
          OBVIOUS
        <4>. QED BY <3>1, <4>2, <4>3
      <3>4. Len(e \o v) = n + 1
        BY <2>3, <3>1, <3>2
      <3>. QED BY <3>1, <3>2, <3>3, <3>4
    <2>5. \A i \in 1..n+1 : w[i] = u[i]
      BY <2>4
    <2>6. w = u
      <3>. HIDE DEF u, v
      <3>. QED BY <2>3, <2>4, <2>5, SeqEqual
    <2>. QED BY <2>2, <2>4, <2>6
  <1>. QED BY <1>1, <1>2, <1>3

LEMMA BlockLemma ==
  ASSUME NEW p \in NodeProgram, NEW s \in 0..MaxStep-1
  PROVE  /\ Abstract!Block(p, s) \in Seq(Int)
         /\ ~ClosesLoop(p, s) => Abstract!Block(p, s) = <<s>> \o <<>>
         /\ ClosesLoop(p, s) =>
              Abstract!Block(p, s)
                = <<s>> \o Abstract!Repeat(Abstract!Section(LoopStart(p, s), s),
                                           p.step[s].sub_cyc)
  <1>1. p.step[s].jump_step \in Int /\ p.step[s].sub_cyc \in Nat /\ s \in Int
    <2>1. p.step[s] \in NodeStep
      BY DEF NodeProgram
    <2>. QED BY <2>1, MaxStepAssumption, SMTT(40) DEF NodeStep, Byte
  <1>. DEFINE sec == Abstract!Section(LoopStart(p, s), s)
              rep == Abstract!Repeat(sec, p.step[s].sub_cyc)
  <1>2. LoopStart(p, s) \in Int
    BY <1>1 DEF LoopStart
  <1>3. sec \in Seq(Int)
    BY <1>1, <1>2, SectionLemma
  <1>4. rep \in Seq(Int)
    <2>. HIDE DEF sec
    <2>. QED BY <1>1, <1>3, RepeatLemma
  <1>5. <<s>> \in Seq(Int) /\ <<>> \in Seq(Int)
    BY <1>1, EmptySeq
  <1>6. Abstract!Block(p, s) = <<s>> \o (IF ClosesLoop(p, s) THEN rep ELSE <<>>)
    BY DEF Abstract!Block, Abstract!ClosesLoop, ClosesLoop, Abstract!LoopStart, LoopStart
  <1>7. <<s>> \o rep \in Seq(Int) /\ <<s>> \o <<>> \in Seq(Int)
    <2>. HIDE DEF rep
    <2>. QED BY <1>4, <1>5, ConcatProperties
  <1>. HIDE DEF rep
  <1>. QED BY <1>6, <1>7 DEF rep

LEMMA RoundFromLemma ==
  ASSUME NEW p \in NodeProgram, NEW s \in Nat, s <= p.step_num
  PROVE  /\ RoundFrom(p, s) \in Seq(Int)
         /\ s = p.step_num => RoundFrom(p, s) = <<>>
         /\ s < p.step_num =>
              RoundFrom(p, s) = Abstract!Block(p, s) \o RoundFrom(p, s + 1)
  <1>1. PICK n \in Nat : p.step_num = n /\ n <= MaxStep
    BY MaxStepAssumption DEF NodeProgram
  <1>. DEFINE B(i) == Abstract!Block(p, i)
              blocks(k) == [i \in 1..n - k |-> B(k + i - 1)]
  <1>2. ASSUME NEW i \in Nat, i < n PROVE B(i) \in Seq(Int)
    <2>1. i \in 0..MaxStep-1
      BY <1>1, <1>2, MaxStepAssumption
    <2>. QED BY <2>1, BlockLemma
  <1>3. RoundFrom(p, s) = Abstract!FlattenSeq(blocks(s))
        /\ RoundFrom(p, s + 1) = Abstract!FlattenSeq(blocks(s + 1))
    BY <1>1 DEF RoundFrom
  <1>. HIDE DEF B
  <1>4. ASSUME NEW k \in Nat, k <= n
        PROVE  blocks(k) \in Seq(Seq(Int)) /\ Len(blocks(k)) = n - k
    <2>1. n - k \in Nat
      BY <1>4
    <2>2. \A i \in 1..n - k : B(k + i - 1) \in Seq(Int)
      <3>. TAKE i \in 1..n - k
      <3>1. k + i - 1 \in Nat /\ k + i - 1 < n
        BY <2>1
      <3>. QED BY <1>2, <3>1
    <2>. QED BY <2>1, <2>2
  <1>5. RoundFrom(p, s) \in Seq(Int)
    <2>1. blocks(s) \in Seq(Seq(Int))
      BY <1>1, <1>4
    <2>. HIDE DEF blocks
    <2>. QED BY <1>3, <2>1, FlattenType
  <1>6. ASSUME s = n PROVE RoundFrom(p, s) = <<>>
    <2>1. blocks(s) = <<>>
      BY <1>6
    <2>. QED BY <1>3, <2>1, FlattenEmpty
  <1>7. ASSUME s < n PROVE RoundFrom(p, s) = B(s) \o RoundFrom(p, s + 1)
    <2>1. /\ blocks(s) \in Seq(Seq(Int)) /\ Len(blocks(s)) = n - s /\ n - s # 0
          /\ blocks(s + 1) \in Seq(Seq(Int)) /\ Len(blocks(s + 1)) = n - (s + 1)
          /\ n - s \in Nat
      <3>1. s + 1 \in Nat /\ s <= n /\ s + 1 <= n /\ n - s \in Nat /\ n - s # 0
        BY <1>7
      <3>. HIDE DEF blocks
      <3>. QED BY <1>4, <3>1
    <2>2. blocks(s)[1] = B(s)
      <3>1. 1 \in 1..n - s /\ s + 1 - 1 = s
        BY <2>1
      <3>. QED BY <3>1
    <2>3. Tail(blocks(s)) = blocks(s + 1)
      <3>1. Tail(blocks(s)) = [i \in 1..(n - s) - 1 |-> blocks(s)[i + 1]]
        BY <2>1, SMTT(40)
      <3>2. (n - s) - 1 = n - (s + 1)
        BY <2>1
      <3>3. \A i \in 1..n - (s + 1) : blocks(s)[i + 1] = B((s + 1) + i - 1)
        <4>. TAKE i \in 1..n - (s + 1)
        <4>1. i + 1 \in 1..n - s /\ s + (i + 1) - 1 = (s + 1) + i - 1
          BY <2>1
        <4>. QED BY <4>1
      <3>. QED BY <3>1, <3>2, <3>3
    <2>4. blocks(s) # <<>>
      BY <2>1
    <2>. HIDE DEF blocks
    <2>5. Abstract!FlattenSeq(blocks(s))
            = blocks(s)[1] \o Abstract!FlattenSeq(Tail(blocks(s)))
      BY <2>1, <2>4, FlattenFront, SMTT(40)
    <2>. QED BY <1>3, <2>2, <2>3, <2>5
  <1>. QED BY <1>1, <1>5, <1>6, <1>7 DEF B

-----------------------------------------------------------------------------
(* The passes that follow the current one.                                 *)
Later(p, now_cyc) == Abstract!Repeat(Abstract!Round(p), p.cyc - now_cyc - 1)

(* Step t closes the sub-loop whose k-th round is being made.              *)
Replays(p, s, k, t) ==
  /\ t \in s..p.step_num-1
  /\ ClosesLoop(p, t) /\ LoopStart(p, t) <= s
  /\ k > 0 /\ k <= p.step[t].sub_cyc

ReplayRest(p, s, k, t) ==
  Abstract!Section(s, t)
    \o (Abstract!Repeat(Abstract!Section(LoopStart(p, t), t), p.step[t].sub_cyc - k)
          \o RoundFrom(p, t + 1))

(* What the cursor c, at a step still to be made, has before it.           *)
Ahead(p, c, rest) ==
  /\ c.run_status = "RUNNING"
  /\ c.now_step \in 0..p.step_num-1
  /\ c.now_cyc < p.cyc
  /\ \/ /\ c.sub_now_cyc = 0
        /\ rest = RoundFrom(p, c.now_step) \o Later(p, c.now_cyc)
     \/ \E t : /\ Replays(p, c.now_step, c.sub_now_cyc, t)
               /\ rest = ReplayRest(p, c.now_step, c.sub_now_cyc, t)
                           \o Later(p, c.now_cyc)

LEMMA LaterLemma ==
  ASSUME NEW p \in NodeProgram, NEW m \in Nat, m < p.cyc
  PROVE  /\ Later(p, m) \in Seq(Int)
         /\ m + 1 = p.cyc => Later(p, m) = <<>>
         /\ m + 1 < p.cyc => Later(p, m) = RoundFrom(p, 0) \o Later(p, m + 1)
  <1>1. PICK n \in Nat : p.cyc = n
    <2>1. p.cyc \in Nat
      <3>1. p.cyc \in Word
        BY DEF NodeProgram
      <3>2. \A x \in Word : x \in Nat
        BY SMTT(40) DEF Word
      <3>. QED BY <3>1, <3>2, Zenon
    <2>. QED BY <2>1
  <1>2. p.step_num \in Nat
    BY MaxStepAssumption DEF NodeProgram
  <1>3. Abstract!Round(p) = RoundFrom(p, 0)
    BY <1>2 DEF Abstract!Round, RoundFrom
  <1>4. PICK q \in Seq(Int) : q = Abstract!Round(p)
    BY <1>2, <1>3, RoundFromLemma
  <1>5. n - m - 1 \in Nat /\ n - (m + 1) - 1 = (n - m - 1) - 1
    BY <1>1
  <1>6. /\ Later(p, m) = Abstract!Repeat(q, n - m - 1)
        /\ Later(p, m + 1) = Abstract!Repeat(q, (n - m - 1) - 1)
    BY <1>1, <1>4, <1>5 DEF Later
  <1>7. PICK l \in Nat : l = n - m - 1
    BY <1>5
  <1>8. /\ Abstract!Repeat(q, l) \in Seq(Int)
        /\ l = 0 => Abstract!Repeat(q, l) = <<>>
        /\ l # 0 => Abstract!Repeat(q, l) = q \o Abstract!Repeat(q, l - 1)
    BY RepeatLemma
  <1>9. (m + 1 = n => l = 0) /\ (m + 1 < n => l # 0)
    BY <1>1, <1>7
  <1>. QED BY <1>1, <1>3, <1>4, <1>6, <1>7, <1>8, <1>9, Zenon

(* The regroupings of what lies ahead, its first step in front.            *)
Starts(whole, e, rest) == whole = e \o rest

LEMMA Regroup ==
  ASSUME NEW S, NEW e \in Seq(S)
  PROVE  /\ \A f, l \in Seq(S) : Starts(((e \o <<>>) \o f) \o l, e, f \o l)
         /\ \A q, r, f, l \in Seq(S) :
              Starts(((e \o (q \o r)) \o f) \o l, e, (q \o (r \o f)) \o l)
         /\ \A q, r, l \in Seq(S) : Starts(((e \o q) \o r) \o l, e, (q \o r) \o l)
         /\ \A q, r, f, l \in Seq(S) :
              Starts((e \o ((q \o r) \o f)) \o l, e, (q \o (r \o f)) \o l)
         /\ \A f, l \in Seq(S) : Starts((e \o (<<>> \o f)) \o l, e, f \o l)
  <1>. DEFINE Cat(s, t) == s \o t
  <1>1. \A s, t, u \in Seq(S) : Cat(Cat(s, t), u) = Cat(s, Cat(t, u))
    <2>. TAKE s, t, u \in Seq(S)
    <2>1. Associative(s, t, u)
      BY AssociativeLemma
    <2>. QED BY <2>1 DEF Associative
  <1>2. \A s, t \in Seq(S) : Cat(s, t) \in Seq(S)
    <2>. TAKE s, t \in Seq(S)
    <2>. QED BY ConcatProperties
  <1>3. Cat(e, <<>>) = e /\ \A s \in Seq(S) : Cat(<<>>, s) = s
    BY ConcatEmptySeq
  <1>. HIDE DEF Cat
  <1>4. \A f, l \in Seq(S) : Cat(Cat(Cat(e, <<>>), f), l) = Cat(e, Cat(f, l))
    BY <1>1, <1>3
  <1>5. \A q, r, f, l \in Seq(S) :
          Cat(Cat(Cat(e, Cat(q, r)), f), l) = Cat(e, Cat(Cat(q, Cat(r, f)), l))
    BY <1>1, <1>2
  <1>6. \A q, r, l \in Seq(S) : Cat(Cat(Cat(e, q), r), l) = Cat(e, Cat(Cat(q, r), l))
    BY <1>1, <1>2
  <1>7. \A q, r, f, l \in Seq(S) :
          Cat(Cat(e, Cat(Cat(q, r), f)), l) = Cat(e, Cat(Cat(q, Cat(r, f)), l))
    BY <1>1, <1>2
  <1>8. \A f, l \in Seq(S) : Cat(Cat(e, Cat(<<>>, f)), l) = Cat(e, Cat(f, l))
    BY <1>1, <1>3
  <1>. QED BY <1>4, <1>5, <1>6, <1>7, <1>8 DEF Cat, Starts

(* The cursor moves to a step of the program ...                           *)
LEMMA MovesInside ==
  ASSUME NEW p \in NodeProgram, Plain(p), NEW c \in Cursor, NEW blocked \in BOOLEAN,
         c.run_status = "RUNNING",
         NEW next \in 0..p.step_num-1, next = StepAfter(p, c.now_step, c.sub_now_cyc)
  PROVE  LET d == NextStep(p, c, blocked)
         IN  /\ d.run_status = "RUNNING" /\ d.now_step = next /\ d.now_cyc = c.now_cyc
             /\ d.sub_now_cyc = SubCycAfter(p, c.now_step, c.sub_now_cyc)
  <1>1. p.step_num \in Nat
    BY MaxStepAssumption DEF NodeProgram
  <1>2. ~(next >= p.step_num)
    BY <1>1
  <1>3. p.step[next].type # "CEND"
    BY DEF Plain
  <1>. QED BY <1>2, <1>3 DEF NextStep, Moved, NextType

(* ... or to the end, and from there to the next pass, if one is due.      *)
LEMMA MovesOver ==
  ASSUME NEW p \in NodeProgram, Padded(p), Plain(p), p.step_num >= 1,
         NEW c \in Cursor, NEW blocked \in BOOLEAN,
         c.run_status = "RUNNING", c.now_cyc < p.cyc,
         StepAfter(p, c.now_step, c.sub_now_cyc) = p.step_num
  PROVE  LET d == NextStep(p, c, blocked)
         IN  IF c.now_cyc + 1 = p.cyc THEN d.run_status = "COMP"
             ELSE /\ d.run_status = "RUNNING" /\ d.now_step = 0
                  /\ d.now_cyc = c.now_cyc + 1
                  /\ d.sub_now_cyc = SubCycAfter(p, c.now_step, c.sub_now_cyc)
  <1>1. PICK n \in 1..MaxStep : n = p.step_num
    BY MaxStepAssumption DEF NodeProgram
  <1>2. PICK m \in 0..254 : m = c.now_cyc
    <2>1. c.now_cyc \in 0..255 /\ p.cyc \in 1..255
      BY DEF Cursor, Byte, Plain
    <2>. QED BY <2>1
  <1>3. U8(m + 1) = m + 1
    BY U8Lemma
  <1>4. n >= n
    BY <1>1
  <1>5. CASE m + 1 = p.cyc
    <2>1. LastPass(p, n, m)
      BY <1>3, <1>5 DEF LastPass
    <2>. QED BY <1>1, <1>2, <1>4, <1>5, <2>1 DEF NextStep, Moved, NextType
  <1>6. CASE m + 1 # p.cyc
    <2>1. p.cyc # 1
      BY <1>2, <1>6
    <2>2. n = MaxStep
      BY <1>1, <2>1 DEF Plain
    <2>3. ~LastPass(p, n, m)
      BY <1>3, <1>6, <2>2, MaxStepAssumption DEF LastPass, TypeAt
    <2>4. p.step[0].type # "CEND"
      <3>1. 0 \in 0..p.step_num-1
        BY <1>1
      <3>. QED BY <3>1 DEF Plain
    <2>. QED BY <1>1, <1>2, <1>3, <1>4, <1>6, <2>3, <2>4 DEF NextStep, Moved, NextType
  <1>. QED BY <1>5, <1>6

(* Past a step that closes no further round the cursor goes to the next    *)
(* step, the sub-loop counter 0: the rest of the round lies ahead, or the  *)
(* next pass, or nothing.                                                  *)
LEMMA Advance ==
  ASSUME NEW p \in NodeProgram, Padded(p), Plain(p), NEW c \in Cursor,
         NEW blocked \in BOOLEAN, c.run_status = "RUNNING", c.now_cyc < p.cyc,
         c.now_step \in 0..p.step_num-1,
         StepAfter(p, c.now_step, c.sub_now_cyc) = c.now_step + 1,
         SubCycAfter(p, c.now_step, c.sub_now_cyc) = 0
  PROVE  LET d == NextStep(p, c, blocked)
             rest == RoundFrom(p, c.now_step + 1) \o Later(p, c.now_cyc)
         IN  (d.run_status = "COMP" /\ rest = <<>>) \/ Ahead(p, d, rest)
  <1>. DEFINE d == NextStep(p, c, blocked)
  <1>1. PICK n \in Nat, s \in Nat, m \in Nat :
          n = p.step_num /\ s = c.now_step /\ s < n /\ m = c.now_cyc /\ m < p.cyc
    <2>1. p.step_num \in Nat
      BY MaxStepAssumption DEF NodeProgram
    <2>2. c.now_step \in Nat /\ c.now_cyc \in Nat
      BY MaxStepAssumption DEF Cursor, Byte
    <2>3. c.now_step < p.step_num
      BY <2>1
    <2>. QED BY <2>1, <2>2, <2>3
  <1>2. CASE s + 1 < n
    <2>1. s + 1 \in 0..p.step_num-1
      BY <1>1, <1>2
    <2>2. /\ d.run_status = "RUNNING" /\ d.now_step = s + 1 /\ d.now_cyc = m
          /\ d.sub_now_cyc = 0
      <3>. HIDE DEF d
      <3>. QED BY <1>1, <2>1, MovesInside DEF d
    <2>3. Ahead(p, d, RoundFrom(p, s + 1) \o Later(p, m))
      <3>. HIDE DEF d
      <3>. QED BY <1>1, <2>1, <2>2 DEF Ahead
    <2>. QED BY <1>1, <2>3
  <1>3. CASE s + 1 = n
    <2>1. RoundFrom(p, s + 1) = <<>>
      BY <1>1, <1>3, RoundFromLemma
    <2>2. Later(p, m) \in Seq(Int)
      BY <1>1, LaterLemma
    <2>3. <<>> \o Later(p, m) = Later(p, m)
      BY <2>2, ConcatEmptySeq
    <2>4. p.step_num >= 1 /\ StepAfter(p, c.now_step, c.sub_now_cyc) = p.step_num
      BY <1>1, <1>3
    <2>5. IF m + 1 = p.cyc THEN d.run_status = "COMP"
          ELSE /\ d.run_status = "RUNNING" /\ d.now_step = 0 /\ d.now_cyc = m + 1
               /\ d.sub_now_cyc = 0
      <3>. HIDE DEF d
      <3>. QED BY <1>1, <2>4, MovesOver DEF d
    <2>. HIDE DEF d
    <2>6. CASE m + 1 = p.cyc
      BY <1>1, <2>1, <2>3, <2>5, <2>6, LaterLemma DEF d
    <2>7. CASE m + 1 # p.cyc
      <3>1. p.cyc \in Nat
        BY DEF Plain
      <3>2. m + 1 < p.cyc /\ m + 1 \in Nat
        BY <1>1, <2>7, <3>1
      <3>3. Later(p, m) = RoundFrom(p, 0) \o Later(p, m + 1)
        BY <1>1, <3>2, LaterLemma
      <3>4. 0 \in 0..p.step_num-1
        BY <1>1
      <3>5. Ahead(p, d, Later(p, m))
        BY <2>5, <2>7, <3>2, <3>3, <3>4 DEF Ahead
      <3>. QED BY <1>1, <2>1, <2>3, <3>5 DEF d
    <2>. QED BY <2>6, <2>7
  <1>. QED BY <1>1, <1>2, <1>3

(* A sub-loop of a plain program begins before the step that closes it.     *)
LEMMA LoopBounds ==
  ASSUME NEW p \in NodeProgram, Plain(p), NEW t \in 0..MaxStep-1,
         t \in 0..p.step_num-1, ClosesLoop(p, t)
  PROVE  \E a, j \in Nat : /\ a = LoopStart(p, t) /\ a < t
                           /\ j = p.step[t].sub_cyc /\ j # 0 /\ j < 255
  <1>1. p.step[t] \in NodeStep
    BY DEF NodeProgram
  <1>2. p.step[t].jump_step \in Nat /\ p.step[t].sub_cyc \in Nat /\ t \in Nat
    BY <1>1, MaxStepAssumption, SMTT(40) DEF NodeStep, Byte
  <1>3. PICK x, j \in Nat : x = p.step[t].jump_step /\ j = p.step[t].sub_cyc
    BY <1>2
  <1>4. x # 0 /\ j # 0 /\ x - 1 < t /\ j < 255
    BY <1>3 DEF ClosesLoop, Plain
  <1>5. LoopStart(p, t) = x - 1
    BY <1>3 DEF LoopStart
  <1>6. PICK a \in Nat : a = x - 1
    BY <1>4
  <1>7. a = LoopStart(p, t) /\ a < t
    BY <1>4, <1>5, <1>6
  <1>. QED BY <1>3, <1>4, <1>7

(* The indices and the rounds left of a sub-loop a..t of an n-step program, *)
(* at its step s in round k of j.                                          *)
LoopIndices(a, s, t, n) ==
  /\ t \in a..n-1 /\ a <= a /\ a \in 0..n-1
  /\ s < t \/ s = t
  /\ s < t => s + 1 \in 0..n-1 /\ t \in (s + 1)..n-1 /\ a <= s + 1

RoundsLeft(k, j) ==
  /\ U8(k + 1) = k + 1 /\ k + 1 # 0 /\ k + 1 > 0
  /\ k # 0 => k > 0
  /\ k < j \/ k = j
  /\ k < j => /\ j - k \in Nat /\ j - k # 0 /\ k + 1 <= j
             /\ j - (k + 1) \in Nat /\ j - (k + 1) = (j - k) - 1
  /\ k = j => ~(k + 1 <= j) /\ j - k = 0

LEMMA LoopIndicesLemma ==
  ASSUME NEW a \in Nat, NEW s \in Nat, NEW t \in Nat, NEW n \in Nat,
         a < t, a <= s, s <= t, t < n
  PROVE  LoopIndices(a, s, t, n)
  BY DEF LoopIndices

LEMMA RoundsLeftLemma ==
  ASSUME NEW k \in Nat, NEW j \in Nat, k <= j, j < 255
  PROVE  RoundsLeft(k, j)
  <1>1. k + 1 \in Nat /\ k + 1 <= 255
    OBVIOUS
  <1>2. U8(k + 1) = k + 1
    BY <1>1, U8Lemma
  <1>. QED BY <1>1, <1>2 DEF RoundsLeft

(* next_step_handle takes the first of the steps ahead away: the cursor it *)
(* leaves has the others ahead, or it reports completion if there is none. *)
LEMMA AheadStep ==
  ASSUME NEW p \in NodeProgram, Padded(p), Plain(p), NEW c \in Cursor,
         NEW blocked \in BOOLEAN, NEW whole, Ahead(p, c, whole)
  PROVE  \E rest \in Seq(Int) :
           /\ Starts(whole, <<c.now_step>>, rest)
           /\ LET d == NextStep(p, c, blocked)
              IN  (d.run_status = "COMP" /\ rest = <<>>) \/ Ahead(p, d, rest)
  <1>. DEFINE d == NextStep(p, c, blocked)
  <1>0. /\ c.now_step \in 0..p.step_num-1 /\ c.run_status = "RUNNING"
        /\ c.now_cyc < p.cyc
    BY DEF Ahead
  <1>1. PICK n \in Nat, s \in Nat, k \in Nat, m \in Nat :
          /\ n = p.step_num /\ n <= MaxStep /\ s = c.now_step /\ s < n /\ k = c.sub_now_cyc
          /\ m = c.now_cyc /\ m < p.cyc
    <2>1. p.step_num \in 0..MaxStep
      BY DEF NodeProgram
    <2>2. c.now_step \in Nat /\ c.now_cyc \in Nat /\ c.sub_now_cyc \in Nat
      BY MaxStepAssumption DEF Cursor, Byte
    <2>3. p.step_num \in Nat /\ p.step_num <= MaxStep /\ c.now_step < p.step_num
      BY <1>0, <2>1, <2>2, MaxStepAssumption
    <2>. QED BY <1>0, <2>2, <2>3, Zenon
  <1>2. /\ s \in 0..MaxStep-1 /\ s \in Int /\ s + 1 \in Nat /\ s + 1 <= n
        /\ \A t \in 0..MaxStep-1 : p.step[t].jump_step \in Nat /\ p.step[t].sub_cyc \in Nat
    <2>1. \A t \in 0..MaxStep-1 : p.step[t] \in NodeStep
      BY DEF NodeProgram
    <2>2. \A t \in 0..MaxStep-1 : p.step[t].jump_step \in Nat /\ p.step[t].sub_cyc \in Nat
      <3>. TAKE t \in 0..MaxStep-1
      <3>1. p.step[t] \in NodeStep
        BY <2>1
      <3>. QED BY <3>1, SMTT(40) DEF NodeStep, Byte
    <2>3. s \in 0..MaxStep-1 /\ s \in Int /\ s + 1 \in Nat /\ s + 1 <= n
      BY <1>1, MaxStepAssumption
    <2>. QED BY <2>2, <2>3
  <1>3. \A t \in 0..n-1 : p.step[t].sub_cyc < 255
    BY <1>1 DEF Plain
  <1>4. PICK e \in Seq(Int) : e = <<s>>
    <2>1. <<s>> \in Seq(Int)
      BY <1>2
    <2>. QED BY <2>1
  <1>5. PICK l \in Seq(Int) : l = Later(p, m)
    <2>1. Later(p, m) \in Seq(Int)
      BY <1>1, LaterLemma
    <2>. QED BY <2>1
  <1>. HIDE DEF d
  <1>6. CASE k = 0
    <2>1. whole = RoundFrom(p, s) \o l
      BY <1>1, <1>5, <1>6 DEF Ahead, Replays
    <2>2. PICK f \in Seq(Int) : f = RoundFrom(p, s + 1)
      <3>1. RoundFrom(p, s + 1) \in Seq(Int)
        BY <1>1, <1>2, RoundFromLemma
      <3>. QED BY <3>1
    <2>3. RoundFrom(p, s) = Abstract!Block(p, s) \o f
      <3>1. s <= p.step_num /\ s < p.step_num
        BY <1>1
      <3>2. RoundFrom(p, s) = Abstract!Block(p, s) \o RoundFrom(p, s + 1)
        BY <3>1, RoundFromLemma
      <3>. QED BY <2>2, <3>2
    <2>4. f \o l \in Seq(Int)
      BY ConcatProperties
    <2>5. CASE ~ClosesLoop(p, s)
      <3>1. Abstract!Block(p, s) = e \o <<>>
        BY <1>2, <1>4, <2>5, BlockLemma
      <3>2. Starts(whole, e, f \o l)
        BY <2>1, <2>3, <3>1, Regroup
      <3>3. /\ StepAfter(p, c.now_step, c.sub_now_cyc) = c.now_step + 1
            /\ SubCycAfter(p, c.now_step, c.sub_now_cyc) = 0
        BY <1>1, <1>6, <2>5 DEF StepAfter, SubCycAfter, Repeats
      <3>4. (d.run_status = "COMP" /\ f \o l = <<>>) \/ Ahead(p, d, f \o l)
        BY <1>0, <1>1, <1>5, <2>2, <3>3, Advance DEF d
      <3>. QED BY <1>1, <1>4, <2>4, <3>2, <3>4 DEF d
    <2>6. CASE ClosesLoop(p, s)
      <3>1. PICK a \in Nat, j \in Nat : a = LoopStart(p, s) /\ a < s /\ j = p.step[s].sub_cyc
                                        /\ j # 0 /\ j < 255
        <4>1. s \in 0..p.step_num-1
          BY <1>1
        <4>2. \E x, y \in Nat : /\ x = LoopStart(p, s) /\ x < s
                                /\ y = p.step[s].sub_cyc /\ y # 0 /\ y < 255
          BY <1>2, <2>6, <4>1, LoopBounds, ZenonT(60)
        <4>. QED BY <4>2, Zenon
      <3>2. PICK q \in Seq(Int) : q = Abstract!Section(a, s)
        <4>1. a \in Int /\ s \in Int
          BY <3>1
        <4>2. Abstract!Section(a, s) \in Seq(Int)
          BY <4>1, SectionLemma
        <4>. QED BY <4>2
      <3>3. PICK r \in Seq(Int) : r = Abstract!Repeat(q, j - 1)
        <4>1. j - 1 \in Nat
          BY <3>1, SMTT(40)
        <4>. QED BY <4>1, RepeatLemma
      <3>4. Abstract!Block(p, s) = e \o (q \o r)
        <4>1. Abstract!Block(p, s) = e \o Abstract!Repeat(q, j)
          BY <1>2, <1>4, <2>6, <3>1, <3>2, BlockLemma
        <4>2. Abstract!Repeat(q, j) = q \o Abstract!Repeat(q, j - 1)
          BY <3>1, RepeatLemma
        <4>. QED BY <3>3, <4>1, <4>2
      <3>5. Starts(whole, e, (q \o (r \o f)) \o l)
        BY <2>1, <2>3, <3>4, Regroup
      <3>6. U8(k + 1) = 1 /\ 1 <= j
        BY <1>6, <3>1, SMTT(40) DEF U8
      <3>7. /\ StepAfter(p, c.now_step, c.sub_now_cyc) = a
            /\ SubCycAfter(p, c.now_step, c.sub_now_cyc) = 1
        BY <1>1, <2>6, <3>1, <3>6 DEF StepAfter, SubCycAfter, Repeats
      <3>8. a \in 0..p.step_num-1
        BY <1>1, <3>1, SMTT(40)
      <3>9. /\ d.run_status = "RUNNING" /\ d.now_step = a /\ d.now_cyc = m
            /\ d.sub_now_cyc = 1
        <4>1. /\ d.run_status = "RUNNING" /\ d.now_step = a /\ d.now_cyc = c.now_cyc
              /\ d.sub_now_cyc = SubCycAfter(p, c.now_step, c.sub_now_cyc)
          BY <1>0, <3>7, <3>8, MovesInside, SMTT(40) DEF d
        <4>. QED BY <1>1, <3>7, <3>8, <4>1, Zenon
      <3>10. Replays(p, a, 1, s) /\ ReplayRest(p, a, 1, s) = q \o (r \o f)
        <4>1. s \in a..p.step_num-1 /\ a <= a /\ 1 > 0
          BY <1>1, <3>1, SMTT(40)
        <4>2. Replays(p, a, 1, s)
          BY <2>6, <3>1, <3>6, <4>1 DEF Replays
        <4>. QED BY <2>2, <3>1, <3>2, <3>3, <4>2, Zenon DEF ReplayRest
      <3>11. Ahead(p, d, (q \o (r \o f)) \o l)
        BY <1>1, <1>5, <3>8, <3>9, <3>10 DEF Ahead
      <3>12. (q \o (r \o f)) \o l \in Seq(Int)
        BY ConcatProperties
      <3>. QED BY <1>1, <1>4, <3>5, <3>11, <3>12 DEF d
    <2>. QED BY <2>5, <2>6
  <1>7. CASE k # 0
    <2>1. PICK t : Replays(p, s, k, t) /\ whole = ReplayRest(p, s, k, t) \o l
      BY <1>1, <1>5, <1>7 DEF Ahead
    <2>2. /\ t \in s..n-1 /\ t \in Nat /\ t \in Int /\ s <= t
          /\ t \in 0..MaxStep-1 /\ t \in 0..n-1 /\ t < n
          /\ ClosesLoop(p, t)
      <3>1. t \in s..n-1 /\ ClosesLoop(p, t)
        BY <1>1, <2>1 DEF Replays
      <3>. QED BY <1>1, <3>1, MaxStepAssumption
    <2>3. PICK a \in Nat, j \in Nat :
            /\ a = LoopStart(p, t) /\ a < t /\ a <= s
            /\ j = p.step[t].sub_cyc /\ j < 255 /\ k <= j
      <3>1. LoopStart(p, t) <= s /\ k <= p.step[t].sub_cyc
        BY <2>1 DEF Replays
      <3>2. t \in 0..p.step_num-1
        BY <1>1, <2>2
      <3>3. PICK a, j \in Nat : /\ a = LoopStart(p, t) /\ a < t
                               /\ j = p.step[t].sub_cyc /\ j # 0 /\ j < 255
        BY <2>2, <3>2, LoopBounds
      <3>. QED BY <3>1, <3>3
    <2>4. LoopIndices(a, s, t, p.step_num)
      BY <1>1, <2>2, <2>3, LoopIndicesLemma
    <2>5. RoundsLeft(k, j)
      BY <1>1, <2>2, <2>3, RoundsLeftLemma
    <2>6. PICK q \in Seq(Int) : q = Abstract!Section(a, t)
      <3>1. a \in Int /\ t \in Int
        BY <2>2, <2>3
      <3>2. Abstract!Section(a, t) \in Seq(Int)
        BY <3>1, SectionLemma
      <3>. QED BY <3>2
    <2>7. PICK r \in Seq(Int) : r = Abstract!Repeat(q, j - k)
      <3>1. j - k \in Nat
        BY <2>3, SMTT(40)
      <3>. QED BY <3>1, RepeatLemma
    <2>8. PICK f \in Seq(Int) : f = RoundFrom(p, t + 1)
      <3>1. t + 1 \in Nat /\ t + 1 <= p.step_num
        BY <1>1, <2>2
      <3>2. RoundFrom(p, t + 1) \in Seq(Int)
        BY <3>1, RoundFromLemma
      <3>. QED BY <3>2
    <2>9. whole = (Abstract!Section(s, t) \o (r \o f)) \o l
      BY <2>1, <2>3, <2>6, <2>7, <2>8 DEF ReplayRest
    <2>10. CASE s < t
      <3>1. ~ClosesLoop(p, s)
        <4>1. s \in 0..p.step_num-1 /\ t \in 0..p.step_num-1
          BY <1>1, <2>2
        <4>2. ClosesLoop(p, s) /\ ClosesLoop(p, t) /\ s < t => s < LoopStart(p, t)
          BY <4>1 DEF Plain, DisjointLoops
        <4>3. ~(s < LoopStart(p, t))
          BY <2>3
        <4>. QED BY <2>2, <2>10, <4>2, <4>3
      <3>2. PICK u \in Seq(Int) : u = Abstract!Section(s + 1, t)
        <4>1. s + 1 \in Int /\ t \in Int
          BY <1>2, <2>2
        <4>2. Abstract!Section(s + 1, t) \in Seq(Int)
          BY <4>1, SectionLemma
        <4>. QED BY <4>2
      <3>3. Abstract!Section(s, t) = e \o u
        <4>1. s \in Int /\ t \in Int /\ s <= t
          BY <1>2, <2>2
        <4>2. Abstract!Section(s, t) = <<s>> \o Abstract!Section(s + 1, t)
          BY <4>1, SectionLemma
        <4>. QED BY <1>4, <3>2, <4>2
      <3>4. r \o f \in Seq(Int)
        BY ConcatProperties
      <3>5. Starts(whole, e, (u \o (r \o f)) \o l)
        <4>1. PICK x \in Seq(Int) : x = r \o f
          BY <3>4
        <4>2. Starts(((e \o u) \o x) \o l, e, (u \o x) \o l)
          BY Regroup
        <4>. QED BY <2>9, <3>3, <4>1, <4>2
      <3>6. /\ StepAfter(p, c.now_step, c.sub_now_cyc) = s + 1
            /\ SubCycAfter(p, c.now_step, c.sub_now_cyc) = k
        BY <1>1, <3>1 DEF StepAfter, SubCycAfter, Repeats
      <3>7. s + 1 \in 0..p.step_num-1
        BY <2>10, <2>4 DEF LoopIndices
      <3>8. /\ d.run_status = "RUNNING" /\ d.now_step = s + 1 /\ d.now_cyc = m
            /\ d.sub_now_cyc = k
        <4>1. /\ d.run_status = "RUNNING" /\ d.now_step = s + 1 /\ d.now_cyc = c.now_cyc
              /\ d.sub_now_cyc = SubCycAfter(p, c.now_step, c.sub_now_cyc)
          BY <1>0, <3>6, <3>7, MovesInside, SMTT(40) DEF d
        <4>. QED BY <1>1, <3>6, <3>7, <4>1, Zenon
      <3>9. Replays(p, s + 1, k, t) /\ ReplayRest(p, s + 1, k, t) = u \o (r \o f)
        <4>1. t \in (s + 1)..p.step_num-1 /\ a <= s + 1 /\ k > 0
          BY <1>7, <2>10, <2>4, <2>5 DEF LoopIndices, RoundsLeft
        <4>. QED BY <2>2, <2>3, <2>6, <2>7, <2>8, <3>2, <4>1 DEF Replays, ReplayRest
      <3>10. Ahead(p, d, (u \o (r \o f)) \o l)
        BY <1>1, <1>5, <3>7, <3>8, <3>9 DEF Ahead
      <3>11. (u \o (r \o f)) \o l \in Seq(Int)
        BY <3>4, ConcatProperties
      <3>. QED BY <1>1, <1>4, <3>5, <3>10, <3>11 DEF d
    <2>11. CASE s = t /\ k < j
      <3>1. Abstract!Section(s, t) = e
        <4>1. s \in Int /\ t \in Int /\ s + 1 \in Int /\ s <= t /\ s + 1 > t
          BY <1>2, <2>2, <2>11
        <4>2. Abstract!Section(s, t) = <<s>> \o Abstract!Section(s + 1, t)
          BY <4>1, SectionLemma
        <4>3. Abstract!Section(s + 1, t) = <<>>
          BY <4>1, SectionLemma
        <4>4. e \o <<>> = e
          BY ConcatEmptySeq
        <4>. QED BY <1>4, <4>2, <4>3, <4>4
      <3>2. j - k \in Nat /\ j - k # 0 /\ j - (k + 1) = (j - k) - 1 /\ j - (k + 1) \in Nat
        BY <2>11, <2>5 DEF RoundsLeft
      <3>3. PICK r1 \in Seq(Int) : r1 = Abstract!Repeat(q, j - (k + 1))
        BY <3>2, RepeatLemma
      <3>4. r = q \o r1
        BY <2>7, <3>2, <3>3, RepeatLemma
      <3>5. Starts(whole, e, (q \o (r1 \o f)) \o l)
        <4>1. Starts((e \o ((q \o r1) \o f)) \o l, e, (q \o (r1 \o f)) \o l)
          BY Regroup
        <4>. QED BY <2>9, <3>1, <3>4, <4>1
      <3>6. U8(k + 1) = k + 1 /\ k + 1 <= j /\ k + 1 > 0 /\ k + 1 # 0
        BY <2>11, <2>5 DEF RoundsLeft
      <3>7. /\ StepAfter(p, c.now_step, c.sub_now_cyc) = a
            /\ SubCycAfter(p, c.now_step, c.sub_now_cyc) = k + 1
        BY <1>1, <2>2, <2>3, <2>11, <3>6 DEF StepAfter, SubCycAfter, Repeats
      <3>8. a \in 0..p.step_num-1
        BY <2>4 DEF LoopIndices
      <3>9. /\ d.run_status = "RUNNING" /\ d.now_step = a /\ d.now_cyc = m
            /\ d.sub_now_cyc = k + 1
        <4>1. /\ d.run_status = "RUNNING" /\ d.now_step = a /\ d.now_cyc = c.now_cyc
              /\ d.sub_now_cyc = SubCycAfter(p, c.now_step, c.sub_now_cyc)
          BY <1>0, <3>7, <3>8, MovesInside, SMTT(40) DEF d
        <4>. QED BY <1>1, <3>7, <3>8, <4>1, Zenon
      <3>10. Replays(p, a, k + 1, t) /\ ReplayRest(p, a, k + 1, t) = q \o (r1 \o f)
        <4>1. t \in a..p.step_num-1 /\ a <= a
          BY <2>4 DEF LoopIndices
        <4>. QED BY <2>2, <2>3, <2>6, <2>8, <3>3, <3>6, <4>1 DEF Replays, ReplayRest
      <3>11. Ahead(p, d, (q \o (r1 \o f)) \o l)
        BY <1>1, <1>5, <3>8, <3>9, <3>10 DEF Ahead
      <3>12. (q \o (r1 \o f)) \o l \in Seq(Int)
        BY ConcatProperties
      <3>. QED BY <1>1, <1>4, <3>5, <3>11, <3>12 DEF d
    <2>12. CASE s = t /\ k = j
      <3>1. Abstract!Section(s, t) = e
        <4>1. s \in Int /\ t \in Int /\ s + 1 \in Int /\ s <= t /\ s + 1 > t
          BY <1>2, <2>2, <2>12
        <4>2. Abstract!Section(s, t) = <<s>> \o Abstract!Section(s + 1, t)
          BY <4>1, SectionLemma
        <4>3. Abstract!Section(s + 1, t) = <<>>
          BY <4>1, SectionLemma
        <4>4. e \o <<>> = e
          BY ConcatEmptySeq
        <4>. QED BY <1>4, <4>2, <4>3, <4>4
      <3>2. r = <<>>
        <4>1. j - k = 0 /\ 0 \in Nat
          BY <2>12, <2>5 DEF RoundsLeft
        <4>. QED BY <2>7, <4>1, RepeatLemma
      <3>3. Starts(whole, e, f \o l)
        <4>1. Starts((e \o (<<>> \o f)) \o l, e, f \o l)
          BY Regroup
        <4>. QED BY <2>9, <3>1, <3>2, <4>1
      <3>4. U8(k + 1) = k + 1 /\ ~(k + 1 <= j)
        BY <2>12, <2>5 DEF RoundsLeft
      <3>5. /\ StepAfter(p, c.now_step, c.sub_now_cyc) = c.now_step + 1
            /\ SubCycAfter(p, c.now_step, c.sub_now_cyc) = 0
        BY <1>1, <2>2, <2>3, <2>12, <3>4 DEF StepAfter, SubCycAfter, Repeats
      <3>6. (d.run_status = "COMP" /\ f \o l = <<>>) \/ Ahead(p, d, f \o l)
        BY <1>0, <1>1, <1>5, <2>8, <2>12, <3>5, Advance DEF d
      <3>7. f \o l \in Seq(Int)
        BY ConcatProperties
      <3>. QED BY <1>1, <1>4, <3>3, <3>6, <3>7 DEF d
    <2>. QED BY <2>10, <2>11, <2>12, <2>4, <2>5 DEF LoopIndices, RoundsLeft
  <1>. QED BY <1>6, <1>7

(* Of a sequence that starts with x, then s, s is the element after x.     *)
LEMMA NextOf ==
  ASSUME NEW x \in Seq(Int), NEW s \in Int, NEW r \in Seq(Int), NEW whole,
         Starts(whole, x, <<s>> \o r)
  PROVE  /\ Append(x, s) \in Seq(Int)
         /\ whole[Len(x) + 1] = s
         /\ Starts(whole, Append(x, s), r)
         /\ Len(Append(x, s)) = Len(whole) <=> r = <<>>
  <1>1. PICK e \in Seq(Int) : e = <<s>> /\ Len(e) = 1 /\ e[1] = s
    <2>1. <<s>> \in Seq(Int) /\ Len(<<s>>) = 1 /\ <<s>>[1] = s
      OBVIOUS
    <2>. QED BY <2>1, Zenon
  <1>2. PICK k \in Nat, l \in Nat : k = Len(x) /\ l = Len(r)
    OBVIOUS
  <1>3. PICK y \in Seq(Int) : y = Append(x, s) /\ y = x \o e
    <2>1. Append(x, s) \in Seq(Int) /\ Append(x, s) = x \o <<s>>
      BY AppendIsConcat, AppendProperties
    <2>. QED BY <1>1, <2>1, Zenon
  <1>4. whole = y \o r
    <2>1. Associative(x, e, r)
      BY AssociativeLemma
    <2>2. whole = x \o (e \o r)
      BY <1>1 DEF Starts
    <2>. QED BY <1>3, <2>1, <2>2, Zenon DEF Associative
  <1>5. Len(y) = k + 1 /\ y[k + 1] = s
    <2>1. Len(Append(x, s)) = Len(x) + 1 /\ Append(x, s)[Len(x) + 1] = s
      BY AppendProperties
    <2>. QED BY <1>2, <1>3, <2>1, Zenon
  <1>6. Len(whole) = (k + 1) + l /\ whole[k + 1] = y[k + 1]
    <2>1. /\ Len(y \o r) = Len(y) + Len(r)
          /\ \A i \in 1..Len(y) + Len(r) :
               (y \o r)[i] = IF i <= Len(y) THEN y[i] ELSE r[i - Len(y)]
      BY ConcatProperties
    <2>2. k + 1 \in 1..(k + 1) + l /\ k + 1 <= k + 1
      OBVIOUS
    <2>. QED BY <1>2, <1>4, <1>5, <2>1, <2>2
  <1>7. l = 0 <=> r = <<>>
    BY <1>2, EmptySeq
  <1>8. k + 1 = (k + 1) + l <=> l = 0
    OBVIOUS
  <1>9. Len(Append(x, s)) = Len(whole) <=> r = <<>>
    BY <1>3, <1>5, <1>6, <1>7, <1>8, Zenon
  <1>10. Starts(whole, Append(x, s), r)
    BY <1>3, <1>4 DEF Starts
  <1>11. whole[Len(x) + 1] = s
    BY <1>2, <1>5, <1>6, Zenon
  <1>. QED BY <1>3, <1>9, <1>10, <1>11

(* One call of next_step_handle makes the next step of the plan, whole, of *)
(* which x is made and w is ahead.                                         *)
LEMMA PlanStep ==
  ASSUME NEW p \in NodeProgram, Padded(p), Plain(p), NEW c \in Cursor,
         NEW blocked \in BOOLEAN, NEW whole, NEW x \in Seq(Int), NEW w,
         Starts(whole, x, w), Ahead(p, c, w)
  PROVE  LET d == NextStep(p, c, blocked)
             y == Append(x, c.now_step)
         IN  /\ y \in Seq(Int)
             /\ whole[Len(x) + 1] = c.now_step
             /\ d.run_status = "COMP" <=> Len(y) = Len(whole)
             /\ d.run_status = "RUNNING" =>
                  \E r : Starts(whole, y, r) /\ Ahead(p, d, r)
  <1>. DEFINE d == NextStep(p, c, blocked)
              y == Append(x, c.now_step)
  <1>1. PICK s \in Int : s = c.now_step
    BY MaxStepAssumption DEF Cursor
  <1>2. PICK r \in Seq(Int) :
          /\ Starts(w, <<c.now_step>>, r)
          /\ (d.run_status = "COMP" /\ r = <<>>) \/ Ahead(p, d, r)
    BY AheadStep
  <1>3. w = <<s>> \o r
    BY <1>1, <1>2 DEF Starts
  <1>4. /\ Append(x, s) \in Seq(Int)
        /\ whole[Len(x) + 1] = s
        /\ Starts(whole, Append(x, s), r)
        /\ Len(Append(x, s)) = Len(whole) <=> r = <<>>
    BY <1>3, NextOf
  <1>5. d \in Cursor
    BY NextStepLemma
  <1>. HIDE DEF d
  <1>6. ASSUME Ahead(p, d, r) PROVE r # <<>> /\ d.run_status = "RUNNING"
    <2>1. PICK t \in Int : t = d.now_step
      BY <1>5, MaxStepAssumption DEF Cursor
    <2>2. PICK u \in Seq(Int) : Starts(r, <<d.now_step>>, u)
      BY <1>5, <1>6, AheadStep
    <2>3. r = <<t>> \o u
      BY <2>1, <2>2 DEF Starts
    <2>4. <<t>> \in Seq(Int) /\ Len(<<t>>) = 1
      OBVIOUS
    <2>5. Len(<<t>> \o u) = 1 + Len(u) /\ Len(u) \in Nat
      BY <2>4, ConcatProperties
    <2>6. Len(r) # 0
      BY <2>3, <2>5
    <2>7. Len(<<>>) = 0
      OBVIOUS
    <2>. QED BY <1>6, <2>6, <2>7 DEF Ahead
  <1>7. d.run_status = "COMP" <=> r = <<>>
    BY <1>2, <1>6
  <1>8. d.run_status = "RUNNING" => Ahead(p, d, r)
    BY <1>2
  <1>. QED BY <1>1, <1>4, <1>7, <1>8, Zenon DEF d

-----------------------------------------------------------------------------
(* While the node runs, the steps made and those ahead of the cursor are   *)
(* the plan of its program.                                                *)
PlanInv ==
  /\ TypeOK /\ Padded(prog) /\ Plain(prog)
  /\ Running =>
       /\ executed \in Seq(Int)
       /\ \E w : Starts(Abstract!Plan(prog), executed, w) /\ Ahead(prog, cursor, w)

LEMMA PlanInit ==
  ASSUME \A p \in Programs : Plain(p)
  PROVE  TraceInit => PlanInv /\ Abstract!Init
  <1>. SUFFICES ASSUME TraceInit PROVE PlanInv /\ Abstract!Init
    OBVIOUS
  <1>1. /\ prog \in Programs /\ prog \in NodeProgram /\ Padded(prog) /\ Plain(prog)
        /\ prog.step_num >= 1 /\ executed = <<>>
    BY ProgramsAssumption DEF TraceInit, Init
  <1>2. PICK recharge \in {0, 1} : cursor = Started(prog, recharge)
    BY DEF TraceInit, Init
  <1>3. TypeOK
    BY <1>1, <1>2, StartedLemma DEF TypeOK
  <1>4. /\ cursor.run_status = "RUNNING" /\ cursor.now_step = 0 /\ cursor.now_cyc = 0
        /\ cursor.sub_now_cyc = 0
    BY <1>2 DEF Started
  <1>5. PICK n \in Nat, cyc \in Nat : n = prog.step_num /\ n >= 1 /\ cyc = prog.cyc /\ cyc >= 1
    <2>1. prog.step_num \in Nat
      BY <1>1, MaxStepAssumption DEF NodeProgram
    <2>2. prog.cyc \in 1..255
      BY <1>1 DEF Plain
    <2>3. prog.cyc \in Nat /\ prog.cyc >= 1
      BY <2>2
    <2>. QED BY <1>1, <2>1, <2>3
  <1>6. PICK q \in Seq(Int) : q = RoundFrom(prog, 0)
    BY <1>1, <1>5, RoundFromLemma
  <1>7. Abstract!Round(prog) = q
    BY <1>5, <1>6, SMTT(40) DEF Abstract!Round, RoundFrom
  <1>8. Abstract!Plan(prog) = q \o Later(prog, 0)
    <2>1. cyc # 0 /\ cyc - 0 - 1 = cyc - 1
      BY <1>5
    <2>2. Abstract!Repeat(q, cyc) = q \o Abstract!Repeat(q, cyc - 1)
      BY <2>1, RepeatLemma
    <2>. QED BY <1>5, <1>7, <2>1, <2>2 DEF Abstract!Plan, Later
  <1>9. Ahead(prog, cursor, Abstract!Plan(prog))
    <2>1. 0 \in 0..prog.step_num-1 /\ 0 < prog.cyc
      BY <1>5
    <2>. QED BY <1>4, <1>6, <1>8, <2>1 DEF Ahead
  <1>10. Starts(Abstract!Plan(prog), executed, Abstract!Plan(prog))
    <2>1. Later(prog, 0) \in Seq(Int)
      BY <1>1, <1>5, LaterLemma
    <2>2. q \o Later(prog, 0) \in Seq(Int)
      BY <2>1, ConcatProperties
    <2>3. <<>> \o Abstract!Plan(prog) = Abstract!Plan(prog)
      BY <1>8, <2>2, ConcatEmptySeq
    <2>. QED BY <1>1, <2>3 DEF Starts
  <1>11. executed \in Seq(Int)
    BY <1>1, EmptySeq
  <1>. QED BY <1>1, <1>3, <1>4, <1>9, <1>10, <1>11 DEF PlanInv, Abstract!Init

LEMMA PlanNext ==
  PlanInv /\ [TraceNext]_traceVars => PlanInv' /\ [Abstract!MakeStep]_Abstract!vars
  <1>. SUFFICES ASSUME PlanInv, [TraceNext]_traceVars
                PROVE  PlanInv' /\ [Abstract!MakeStep]_Abstract!vars
    OBVIOUS
  <1>1. CASE TraceFinishStep
    <2>1. PICK p, c, x : p = prog /\ c = cursor /\ x = executed
      OBVIOUS
    <2>2. PICK blocked \in BOOLEAN : cursor' = NextStep(p, c, blocked)
      BY <1>1, <2>1 DEF TraceFinishStep, FinishStep
    <2>3. /\ prog' = p /\ executed' = Append(x, c.now_step)
          /\ c.run_status = "RUNNING"
      BY <1>1, <2>1 DEF TraceFinishStep, FinishStep, Running
    <2>4. p \in NodeProgram /\ c \in Cursor /\ Padded(p) /\ Plain(p)
      BY <2>1 DEF PlanInv, TypeOK
    <2>5. PICK whole : whole = Abstract!Plan(p)
      OBVIOUS
    <2>6. PICK w : x \in Seq(Int) /\ Starts(whole, x, w) /\ Ahead(p, c, w)
      BY <2>1, <2>3, <2>5 DEF PlanInv, Running
    <2>7. PICK d, y : d = NextStep(p, c, blocked) /\ y = Append(x, c.now_step)
      OBVIOUS
    <2>8. /\ y \in Seq(Int)
          /\ whole[Len(x) + 1] = c.now_step
          /\ d.run_status = "COMP" <=> Len(y) = Len(whole)
          /\ d.run_status = "RUNNING" =>
               \E r : Starts(whole, y, r) /\ Ahead(p, d, r)
      BY <2>4, <2>6, <2>7, PlanStep
    <2>9. d \in Cursor
      BY <2>4, <2>7, NextStepLemma
    <2>10. cursor' = d /\ executed' = y
      BY <2>2, <2>3, <2>7
    <2>11. PlanInv'
      BY <2>3, <2>4, <2>5, <2>8, <2>9, <2>10 DEF PlanInv, TypeOK, Running
    <2>12. Abstract!MakeStep
      <3>1. ~(cursor.run_status = "COMP")
        BY <2>1, <2>3
      <3>2. executed' = Append(executed, Abstract!Plan(prog)[Len(executed) + 1])
        BY <2>1, <2>5, <2>7, <2>8, <2>10
      <3>3. (cursor'.run_status = "COMP") = (Len(executed') = Len(Abstract!Plan(prog)))
        BY <2>1, <2>5, <2>8, <2>10
      <3>4. prog' = prog
        BY <2>1, <2>3
      <3>. QED BY <3>1, <3>2, <3>3, <3>4 DEF Abstract!MakeStep
    <2>. QED BY <2>11, <2>12
  <1>2. CASE UNCHANGED traceVars
    BY <1>2 DEF traceVars, PlanInv, TypeOK, Running, Abstract!vars
  <1>3. CASE Halted /\ UNCHANGED executed
    <2>1. UNCHANGED traceVars
      BY <1>3 DEF Halted, vars, traceVars
    <2>. QED BY <1>2, <2>1
  <1>. QED BY <1>1, <1>2, <1>3 DEF TraceNext

(* Whatever a plain program is made of, next_step_handle makes exactly the *)
(* steps of its plan, in the order of the plan, and reports completion     *)
(* with the last of them: every step is one of the plan, or none.  (That   *)
(* the plan is made to its end is liveness: ImplementsPlan, by TLC.)       *)
THEOREM PlanFollowed ==
  ASSUME \A p \in Programs : Plain(p)
  PROVE  TraceSpec => Abstract!Init /\ [][Abstract!MakeStep]_Abstract!vars
  <1>1. TraceInit => PlanInv /\ Abstract!Init
    BY PlanInit
  <1>2. PlanInv /\ [TraceNext]_traceVars => PlanInv' /\ [Abstract!MakeStep]_Abstract!vars
    BY PlanNext
  <1>. QED BY <1>1, <1>2, PTL DEF TraceSpec
-----------------------------------------------------------------------------
(* The poll of a step: what its conditions work on.                        *)
SavedRec == [step_end: BOOLEAN, node_status: Byte]

NodeRec ==
  [ step_end: BOOLEAN, node_status: Byte, v_tmp: Word, time_tmp: Nat,
    saved: SavedRec ]

-----------------------------------------------------------------------------
(* What the helpers of the poll do to a node.                              *)
LEMMA SaveKeeps ==
  ASSUME NEW n \in NodeRec
  PROVE  Save(n) \in NodeRec /\ Save(n).step_end = n.step_end
<1> DEFINE record == [step_end |-> n.step_end, node_status |-> n.node_status]
<1>1. record \in SavedRec
  BY DEF NodeRec, SavedRec
<1>2. Save(n) = [n EXCEPT !.saved = record]
  BY DEF Save
<1> HIDE DEF record
<1> QED
  BY <1>1, <1>2 DEF NodeRec

(* The codes of node_status that the poll sets fit its byte.               *)
LEMMA CodesTyped == \A code \in {1, 2, 3, 10, 11, 12, 13, 20, 23, 33} : code \in Byte
BY DEF Byte

LEMMA EndEnds ==
  ASSUME NEW n \in NodeRec, NEW reason \in Byte
  PROVE  End(n, reason) \in NodeRec /\ End(n, reason).step_end
BY DEF NodeRec, End

LEMMA WorkingKeeps ==
  ASSUME NEW n \in NodeRec, NEW code \in Byte
  PROVE  Working(n, code) \in NodeRec /\ Working(n, code).step_end = n.step_end
BY DEF NodeRec, Working

LEMMA StatusTyped ==
  ASSUME NEW n \in NodeRec
  PROVE  n.node_status \in Byte /\ n.step_end \in BOOLEAN
BY DEF NodeRec

LEMMA TimeEndTyped ==
  ASSUME NEW s, NEW n \in NodeRec, NEW r
  PROVE  step_time_end(s, n, r) \in NodeRec
<1> DEFINE reason == IF n.node_status < 10 THEN 20 ELSE n.node_status
<1>1. reason \in Byte
  BY StatusTyped, CodesTyped
<1>2. Save(End(n, reason)) \in NodeRec
  BY <1>1, EndEnds, SaveKeeps
<1> QED
  BY <1>2 DEF step_time_end

LEMMA FaultTyped ==
  ASSUME NEW n \in NodeRec, NEW r
  PROVE  FaultReason(n, r) \in Byte
BY StatusTyped, CodesTyped DEF FaultReason

-----------------------------------------------------------------------------
(* An unsafe reading meets a limit of the step, whichever comes first.     *)
LEMMA UnsafeCharge ==
  ASSUME NEW s \in Step, NEW n, NEW r \in Reading,
         s.type \in Charging, Unsafe(s, r)
  PROVE  ChargeReason(s, n, r) # 0
<1>1. s.type # "DCV"
  BY DEF Charging
<1>2. \/ charge_curr_err(s, r) \/ charge_vot_high(s, r) \/ charge_vot_low(s, r)
      \/ sys_protect(r)
  BY <1>1 DEF Unsafe, charge_curr_err, charge_vot_high, charge_vot_low
<1> QED
  BY <1>2 DEF ChargeReason

LEMMA UnsafeDischarge ==
  ASSUME NEW s \in Step, NEW r \in Reading, s.type = "DCV", Unsafe(s, r)
  PROVE  DischargeReason(s, r) # 0
<1>1. s.type \notin Charging
  BY DEF Charging
<1>2. \/ discharge_curr_err(s, r) \/ discharge_vot_end(s, r) \/ sys_protect(r)
  BY <1>1 DEF Unsafe, discharge_curr_err, discharge_vot_end
<1> QED
  BY <1>2 DEF DischargeReason

LEMMA ReasonsTyped ==
  ASSUME NEW s, NEW n, NEW r
  PROVE  ChargeReason(s, n, r) \in Byte /\ DischargeReason(s, r) \in Byte
BY DEF ChargeReason, DischargeReason, Byte

-----------------------------------------------------------------------------
(* One poll of a charge.                                                   *)
LEMMA ChargeLimitsPoll ==
  ASSUME NEW s \in Step, NEW n \in NodeRec, NEW r \in Reading
  PROVE  /\ ChargeLimits(s, n, r) \in NodeRec
         /\ ChargeReason(s, n, r) # 0 => ChargeLimits(s, n, r).step_end
<1> DEFINE reason == ChargeReason(s, n, r)
           moved  == reason \in {0, 23, 28, 34} /\ n.v_tmp # r.v
           m == IF moved THEN [n EXCEPT !.v_tmp = r.v, !.time_tmp = r.time] ELSE n
<1>1. m \in NodeRec
  BY DEF NodeRec, Reading
<1>2. reason \in Byte
  BY ReasonsTyped
<1>3. [m EXCEPT !.node_status = 33] \in NodeRec
  BY <1>1, CodesTyped DEF NodeRec
<1>4. Save(End(m, reason)) \in NodeRec /\ Save(End(m, reason)).step_end
  <2> HIDE DEF m, reason
  <2> QED BY <1>1, <1>2, EndEnds, SaveKeeps
<1>5. ChargeLimits(s, n, r) =
        IF reason # 0 THEN Save(End(m, reason))
        ELSE IF charge_bat_vot_up(s, r) THEN [m EXCEPT !.node_status = 33] ELSE m
  BY DEF ChargeLimits
<1> HIDE DEF m
<1> QED
  BY <1>1, <1>3, <1>4, <1>5

LEMMA ChargePollEnds ==
  ASSUME NEW s \in Step, NEW n \in NodeRec, NEW r \in Reading,
         s.type \in Charging
  PROVE  /\ ChargePoll(s, n, r) \in NodeRec
         /\ r.settled /\ Unsafe(s, r) => ChargePoll(s, n, r).step_end
<1> DEFINE shown == Working(n, IF r.cc THEN 3 ELSE 2)
           able  == IF r.enabled THEN shown ELSE Save(End(shown, 13))
           timed == step_time_end(s, able, r)
<1>1. shown \in NodeRec
  BY WorkingKeeps, CodesTyped
<1>2. able \in NodeRec
  <2> HIDE DEF shown
  <2> QED BY <1>1, CodesTyped, EndEnds, SaveKeeps
<1>3. timed \in NodeRec
  <2> HIDE DEF able
  <2> QED BY <1>2, TimeEndTyped
<1>4. ChargePoll(s, n, r) =
        IF HcvFull(s, r) THEN Save(End(n, n.node_status))
        ELSE IF ~r.settled \/ timed.step_end THEN timed
        ELSE IF r.err THEN End(timed, FaultReason(timed, r))
        ELSE ChargeLimits(s, timed, r)
  BY DEF ChargePoll
<1> HIDE DEF timed
<1>5. Save(End(n, n.node_status)) \in NodeRec /\ Save(End(n, n.node_status)).step_end
  BY StatusTyped, EndEnds, SaveKeeps
<1>6. /\ End(timed, FaultReason(timed, r)) \in NodeRec
      /\ End(timed, FaultReason(timed, r)).step_end
  BY <1>3, FaultTyped, EndEnds
<1>7. /\ ChargeLimits(s, timed, r) \in NodeRec
      /\ Unsafe(s, r) => ChargeLimits(s, timed, r).step_end
  BY <1>3, UnsafeCharge, ChargeLimitsPoll
<1> QED
  BY <1>3, <1>4, <1>5, <1>6, <1>7

(* One poll of a discharge.                                                *)
LEMMA DischargePollEnds ==
  ASSUME NEW s \in Step, NEW n \in NodeRec, NEW r \in Reading, s.type = "DCV"
  PROVE  /\ DischargePoll(s, n, r) \in NodeRec
         /\ r.settled /\ Unsafe(s, r) => DischargePoll(s, n, r).step_end
<1> DEFINE timed == step_time_end(s, n, r)
           shown == IF r.err THEN [timed EXCEPT !.node_status = FaultReason(timed, r)]
                    ELSE timed
           reason == DischargeReason(s, r)
<1>1. timed \in NodeRec
  BY TimeEndTyped
<1>2. FaultReason(timed, r) \in Byte
  <2> HIDE DEF timed
  <2> QED BY <1>1, FaultTyped
<1>3. shown \in NodeRec
  <2> HIDE DEF timed
  <2> QED BY <1>1, <1>2 DEF NodeRec
<1>4. reason \in Byte
  BY ReasonsTyped
<1>5. DischargePoll(s, n, r) =
        IF ~r.settled \/ timed.step_end THEN timed
        ELSE IF reason = 0 THEN shown
        ELSE IF reason = 23 THEN End(Save(End(shown, shown.node_status)), 23)
        ELSE Save(End(shown, reason))
  BY DEF DischargePoll
<1> HIDE DEF timed, shown, reason
<1>6. /\ End(Save(End(shown, shown.node_status)), 23) \in NodeRec
      /\ End(Save(End(shown, shown.node_status)), 23).step_end
  <2>1. End(shown, shown.node_status) \in NodeRec
    BY <1>3, StatusTyped, EndEnds
  <2>2. Save(End(shown, shown.node_status)) \in NodeRec
    BY <2>1, SaveKeeps
  <2> QED
    BY <2>2, CodesTyped, EndEnds
<1>7. Save(End(shown, reason)) \in NodeRec /\ Save(End(shown, reason)).step_end
  BY <1>3, <1>4, EndEnds, SaveKeeps
<1>8. Unsafe(s, r) => reason # 0
  BY UnsafeDischarge DEF reason
<1> QED
  BY <1>1, <1>3, <1>5, <1>6, <1>7, <1>8

(* One poll of any step.                                                   *)
LEMMA PollEnds ==
  ASSUME NEW s \in Step, NEW n \in NodeRec, NEW r \in Reading
  PROVE  /\ sys_run_status_poll(s, n, r) \in NodeRec
         /\ r.settled /\ Unsafe(s, r) => sys_run_status_poll(s, n, r).step_end
<1>1. CASE s.type \in Charging
  <2>1. sys_run_status_poll(s, n, r) = ChargePoll(s, n, r)
    BY <1>1 DEF sys_run_status_poll, Charging
  <2> QED
    BY <1>1, <2>1, ChargePollEnds
<1>2. CASE s.type = "DCV"
  <2>1. sys_run_status_poll(s, n, r) = DischargePoll(s, n, r)
    BY <1>2 DEF sys_run_status_poll, Charging
  <2> QED
    BY <1>2, <2>1, DischargePollEnds
<1>3. CASE s.type = "REST"
  <2>1. sys_run_status_poll(s, n, r) = step_time_end(s, Working(n, 1), r)
    BY <1>3 DEF sys_run_status_poll, Charging, RestPoll
  <2>2. ~Unsafe(s, r)
    BY <1>3 DEF Unsafe, Charging
  <2> QED
    BY <2>1, <2>2, CodesTyped, WorkingKeeps, TimeEndTyped
<1> QED
  BY <1>1, <1>2, <1>3 DEF Step, Charging

-----------------------------------------------------------------------------
LEMMA ZeroTyped == 0 \in Word /\ 0 \in Byte
BY DEF Word, Byte

LEMMA NoneTyped ==
  /\ NoReading \in Reading /\ ~NoReading.settled
  /\ NoPast \in [flat: Nat, faulty: BOOLEAN]
BY ZeroTyped DEF NoReading, Reading, NoPast

LEMMA TypeOKParts ==
  PollTypes <=> /\ step \in Step /\ node \in NodeRec /\ seen \in Reading
             /\ past \in [flat: Nat, faulty: BOOLEAN]
BY DEF PollTypes, NodeRec, SavedRec

LEMMA TypeOKPartsNext ==
  PollTypes' <=> /\ step' \in Step /\ node' \in NodeRec /\ seen' \in Reading
              /\ past' \in [flat: Nat, faulty: BOOLEAN]
BY DEF PollTypes, NodeRec, SavedRec

SafetyInv == PollTypes /\ UnsafeEnds

LEMMA Safe == PollSpec => []SafetyInv
<1> USE StepPollsAssumption
<1>1. PollInit => SafetyInv
  <2> SUFFICES ASSUME PollInit PROVE SafetyInv
    OBVIOUS
  <2>1. step \in Step
    BY DEF PollInit
  <2>2. ShownAtStart(step) \in Byte
    BY <2>1 DEF ShownAtStart, Step, Charging, Byte
  <2>3. node \in NodeRec
    BY <2>2, ZeroTyped DEF PollInit, NodeRec, SavedRec
  <2>4. PollTypes
    BY <2>1, <2>3, NoneTyped, TypeOKParts DEF PollInit
  <2> QED
    BY <2>4, NoneTyped DEF PollInit, SafetyInv, UnsafeEnds
<1>2. SafetyInv /\ [PollNext]_polling => SafetyInv'
  <2> SUFFICES ASSUME SafetyInv, [PollNext]_polling PROVE SafetyInv'
    OBVIOUS
  <2>1. node \in NodeRec /\ step \in Step /\ past \in [flat: Nat, faulty: BOOLEAN]
        /\ seen \in Reading
    BY TypeOKParts DEF SafetyInv
  <2>2. CASE Poll
    <3>1. PICK r \in Readings :
            /\ seen' = r
            /\ past' = [ flat   |-> IF r.v = seen.v THEN past.flat ELSE r.time,
                         faulty |-> past.faulty \/ r.err ]
            /\ node' = sys_run_status_poll(step, node, r)
      BY <2>2 DEF Poll
    <3>2. r \in Reading /\ step' = step
      BY <2>2 DEF Poll
    <3>3. node' \in NodeRec /\ (r.settled /\ Unsafe(step, r) => node'.step_end)
      BY <2>1, <3>1, <3>2, PollEnds
    <3>4. past' \in [flat: Nat, faulty: BOOLEAN]
      <4>1. (IF r.v = seen.v THEN past.flat ELSE r.time) \in Nat
        BY <2>1, <3>2 DEF Reading
      <4>2. (past.faulty \/ r.err) \in BOOLEAN
        BY <2>1, <3>2 DEF Reading
      <4> QED
        BY <3>1, <4>1, <4>2
    <3>5. PollTypes'
      BY <2>1, <3>1, <3>2, <3>3, <3>4, TypeOKPartsNext
    <3>6. UnsafeEnds'
      BY <3>1, <3>2, <3>3 DEF UnsafeEnds
    <3> QED
      BY <3>5, <3>6 DEF SafetyInv
  <2>3. CASE BeginStep
    <3>1. PICK s \in Steps :
            /\ step' = s
            /\ node' = [node EXCEPT !.step_end = FALSE,
                                    !.node_status = ShownAtStart(s)]
      BY <2>3 DEF BeginStep
    <3>2. s \in Step
      OBVIOUS
    <3>3. ShownAtStart(s) \in Byte
      BY <3>2 DEF ShownAtStart, Step, Charging, Byte
    <3>4. node' \in NodeRec
      BY <2>1, <3>1, <3>3 DEF NodeRec
    <3>5. seen' = NoReading /\ past' = NoPast
      BY <2>3 DEF BeginStep
    <3> QED
      BY <3>1, <3>2, <3>4, <3>5, NoneTyped, TypeOKPartsNext DEF SafetyInv, UnsafeEnds
  <2>4. CASE ShowStage
    <3>1. node' \in NodeRec /\ node'.step_end = node.step_end
      BY <2>1, <2>4, CodesTyped DEF ShowStage, NodeRec
    <3>2. UNCHANGED <<step, seen, past>>
      BY <2>4 DEF ShowStage
    <3> QED
      BY <2>1, <3>1, <3>2, TypeOKPartsNext DEF SafetyInv, UnsafeEnds
  <2>5. CASE UNCHANGED polling
    BY <2>5 DEF polling, SafetyInv, PollTypes, UnsafeEnds
  <2> QED
    BY <2>2, <2>3, <2>4, <2>5 DEF PollNext
<1> QED
  BY <1>1, <1>2, PTL DEF PollSpec

(* The poll of sys_run_status_poll protects the cell, whatever its steps,  *)
(* readings and limits: no early return, no order of the checks and no     *)
(* reason left from before lets a charge or discharge outlive the poll of  *)
(* an unsafe reading.                                                      *)
THEOREM Protection == PollSpec => []UnsafeEnds
<1>1. SafetyInv => UnsafeEnds
  BY DEF SafetyInv
<1> QED
  BY <1>1, Safe, PTL
-----------------------------------------------------------------------------
(***************************************************************************)
(* For every step, every reading and every protection limit: the reason    *)
(* that an ended step reports is true.  EndReasonTrue says nothing of the  *)
(* status of a step that still runs, which becomes the reason when the     *)
(* step's time is over; Going says what that status can be, and the        *)
(* invariant ReasonInv has both.                                           *)
(***************************************************************************)
(* The status of a step that has not ended: what it does, a fault seen in  *)
(* this step, or the mark of a charge whose voltage does not rise.         *)
Going(s, faulty, status) ==
  /\ status \in {1, 2, 3, 4, 33} \cup 10..12
  /\ status \in 10..12 => faulty
  /\ status = 33 => s.type \in Charging

Ended(s, r, faulty, status) == ReasonHolds(s, r, faulty, status) \/ Silent(s, r)

(* What a poll owes: one or the other.                                     *)
Told(s, r, faulty, n) ==
  IF n.step_end THEN Ended(s, r, faulty, n.node_status)
  ELSE Going(s, faulty, n.node_status)

ReasonInv ==
  /\ PollTypes
  /\ seen.err => past.faulty
  /\ Told(step, seen, past.faulty, node)
-----------------------------------------------------------------------------
(* What the helpers of the poll do to end and status.                      *)
LEMMA SaveTells ==
  ASSUME NEW n \in NodeRec
  PROVE  Save(n).node_status = n.node_status /\ Save(n).step_end = n.step_end
BY DEF Save, NodeRec

LEMMA EndTells ==
  ASSUME NEW n \in NodeRec, NEW reason
  PROVE  End(n, reason).node_status = reason /\ End(n, reason).step_end
BY DEF End, NodeRec

LEMMA WorkingTells ==
  ASSUME NEW n \in NodeRec, NEW code
  PROVE  /\ Working(n, code).step_end = n.step_end
         /\ Working(n, code).node_status =
              IF n.node_status \in 10..19 THEN n.node_status ELSE code
BY DEF Working, NodeRec

LEMMA TimeEndTells ==
  ASSUME NEW s, NEW n \in NodeRec, NEW r
  PROVE  /\ ~TimeEnd(s, r) => step_time_end(s, n, r) = n
         /\ TimeEnd(s, r) =>
              /\ step_time_end(s, n, r).step_end
              /\ step_time_end(s, n, r).node_status =
                   IF n.node_status < 10 THEN 20 ELSE n.node_status
<1> DEFINE reason == IF n.node_status < 10 THEN 20 ELSE n.node_status
<1>1. reason \in Byte
  BY StatusTyped, CodesTyped
<1>2. step_time_end(s, n, r) = IF TimeEnd(s, r) THEN Save(End(n, reason)) ELSE n
  BY DEF step_time_end
<1> HIDE DEF reason
<1>3. /\ Save(End(n, reason)).node_status = reason
      /\ Save(End(n, reason)).step_end
  BY <1>1, EndEnds, EndTells, SaveTells
<1> QED
  BY <1>2, <1>3 DEF reason

(* The time of a step that went on is over: its status becomes a reason.   *)
LEMMA TimeTold ==
  ASSUME NEW s \in Step, NEW n \in NodeRec, NEW r, NEW faulty \in BOOLEAN,
         ~n.step_end, Going(s, faulty, n.node_status), n.node_status # 33
  PROVE  Told(s, r, faulty, step_time_end(s, n, r))
<1>1. CASE TimeEnd(s, r)
  <2>1. /\ step_time_end(s, n, r).step_end
        /\ step_time_end(s, n, r).node_status \in {20} \cup 10..12
        /\ step_time_end(s, n, r).node_status \in 10..12 => faulty
    BY <1>1, TimeEndTells DEF Going
  <2>2. ReasonHolds(s, r, faulty, step_time_end(s, n, r).node_status)
    BY <1>1, <2>1 DEF ReasonHolds
  <2> QED
    BY <2>1, <2>2 DEF Told, Ended
<1>2. CASE ~TimeEnd(s, r)
  BY <1>2, TimeEndTells DEF Told
<1> QED
  BY <1>1, <1>2
-----------------------------------------------------------------------------
(* The reason chosen is a condition that the reading meets.  A voltage     *)
(* that is low or does not change for too long is below 3.1 V.             *)
LEMMA BatErrBelow ==
  ASSUME NEW s, NEW n, NEW r \in Reading, charge_bat_err(s, n, r)
  PROVE  r.v < 3100
<1>1. r.v \in Word
  BY DEF Reading
<1>2. \A x \in Word : x \in Nat
  BY SMTT(40) DEF Word
<1>3. r.v \in Nat
  BY <1>1, <1>2
<1> QED
  BY <1>3, SMTT(40) DEF charge_bat_err

LEMMA ChargeReasonTrue ==
  ASSUME NEW s \in Step, NEW n, NEW r \in Reading, NEW faulty,
         s.type \in Charging, ChargeReason(s, n, r) # 0
  PROVE  ReasonHolds(s, r, faulty, ChargeReason(s, n, r))
<1> DEFINE reason == ChargeReason(s, n, r)
<1>1. s.type # "DCV"
  BY DEF Charging
<1>2. \/ reason = 21 /\ charge_vot_end(s, r)
      \/ reason = 22 /\ charge_curr_end(s, r)
      \/ reason = 24 /\ charge_curr_err(s, r)
      \/ reason = 29 /\ charge_vot_low(s, r)
      \/ reason = 25 /\ charge_vot_high(s, r)
      \/ reason = 26 /\ charge_status_err(s, r)
      \/ reason = 27 /\ charge_bat_err(s, n, r)
      \/ reason = 23 /\ charge_capacity_end(s, r)
      \/ reason = 28 /\ sys_protect(r)
      \/ reason = 34 /\ recharge_capacity_end(s, r)
  BY DEF ChargeReason
<1>3. charge_vot_end(s, r) => r.v >= s.parm1
  BY DEF charge_vot_end
<1>4. charge_vot_low(s, r) \/ charge_vot_high(s, r) => Unsafe(s, r)
  BY DEF charge_vot_low, charge_vot_high, Unsafe
<1>5. charge_status_err(s, r) => r.v < s.parm1 - 40
  BY DEF charge_status_err
<1>6. charge_bat_err(s, n, r) => r.v < 3100
  BY BatErrBelow
<1> HIDE DEF reason
<1> QED
  BY <1>1, <1>2, <1>3, <1>4, <1>5, <1>6 DEF ReasonHolds, reason

LEMMA DischargeReasonTrue ==
  ASSUME NEW s \in Step, NEW r \in Reading, NEW faulty,
         s.type = "DCV", DischargeReason(s, r) # 0
  PROVE  ReasonHolds(s, r, faulty, DischargeReason(s, r))
<1> DEFINE reason == DischargeReason(s, r)
<1>1. \/ reason = 21 /\ discharge_vot_end(s, r)
      \/ reason = 30 /\ discharge_vot_low(s, r)
      \/ reason = 22 /\ discharge_curr_end(s, r)
      \/ reason = 31 /\ discharge_curr_err(s, r)
      \/ reason = 32 /\ discharge_status_err(s, r)
      \/ reason = 23 /\ discharge_capacity_end(s, r)
      \/ reason = 28 /\ sys_protect(r)
  BY DEF DischargeReason
<1>2. discharge_vot_end(s, r) => r.v <= s.parm2
  BY DEF discharge_vot_end
<1>3. discharge_status_err(s, r) => r.v > s.parm2 + 20
  BY DEF discharge_status_err
<1> HIDE DEF reason
<1> QED
  BY <1>1, <1>2, <1>3 DEF ReasonHolds, reason
-----------------------------------------------------------------------------
(* One poll of a charge.                                                   *)
LEMMA ChargeLimitsTell ==
  ASSUME NEW s \in Step, NEW n \in NodeRec, NEW r \in Reading, NEW faulty \in BOOLEAN,
         s.type \in Charging, ~n.step_end, Going(s, faulty, n.node_status)
  PROVE  Told(s, r, faulty, ChargeLimits(s, n, r))
<1> DEFINE reason == ChargeReason(s, n, r)
           moved  == reason \in {0, 23, 28, 34} /\ n.v_tmp # r.v
           m == IF moved THEN [n EXCEPT !.v_tmp = r.v, !.time_tmp = r.time] ELSE n
<1>1. m \in NodeRec /\ m.step_end = n.step_end /\ m.node_status = n.node_status
  BY DEF NodeRec, Reading
<1>2. ChargeLimits(s, n, r) =
        IF reason # 0 THEN Save(End(m, reason))
        ELSE IF charge_bat_vot_up(s, r) THEN [m EXCEPT !.node_status = 33] ELSE m
  BY DEF ChargeLimits
<1>3. reason \in Byte
  BY ReasonsTyped
<1>4. reason # 0 => ReasonHolds(s, r, faulty, reason)
  BY ChargeReasonTrue
<1> HIDE DEF m, reason
<1>5. CASE reason # 0
  <2>1. Save(End(m, reason)).node_status = reason /\ Save(End(m, reason)).step_end
    BY <1>1, <1>3, EndEnds, EndTells, SaveTells
  <2> QED
    BY <1>2, <1>4, <1>5, <2>1 DEF Told, Ended
<1>6. CASE reason = 0 /\ charge_bat_vot_up(s, r)
  <2>1. /\ ChargeLimits(s, n, r).node_status = 33
        /\ ChargeLimits(s, n, r).step_end = n.step_end
    BY <1>1, <1>2, <1>6 DEF NodeRec
  <2> QED
    BY <2>1 DEF Told, Going
<1>7. CASE reason = 0 /\ ~charge_bat_vot_up(s, r)
  BY <1>1, <1>2, <1>7 DEF Told
<1> QED
  BY <1>5, <1>6, <1>7

LEMMA ChargePollTells ==
  ASSUME NEW s \in Step, NEW n \in NodeRec, NEW r \in Reading, NEW faulty \in BOOLEAN,
         s.type \in Charging, ~n.step_end, Going(s, faulty, n.node_status),
         r.err => faulty
  PROVE  Told(s, r, faulty, ChargePoll(s, n, r))
<1> DEFINE shown == Working(n, IF r.cc THEN 3 ELSE 2)
           able  == IF r.enabled THEN shown ELSE Save(End(shown, 13))
           timed == step_time_end(s, able, r)
<1>1. ChargePoll(s, n, r) =
        IF HcvFull(s, r) THEN Save(End(n, n.node_status))
        ELSE IF ~r.settled \/ timed.step_end THEN timed
        ELSE IF r.err THEN End(timed, FaultReason(timed, r))
        ELSE ChargeLimits(s, timed, r)
  BY DEF ChargePoll
<1>2. /\ shown \in NodeRec /\ ~shown.step_end
      /\ Going(s, faulty, shown.node_status) /\ shown.node_status # 33
  <2>1. shown \in NodeRec
    BY WorkingKeeps, CodesTyped
  <2>2. ~shown.step_end /\ shown.node_status \in {2, 3} \cup 10..12
    <3>1. n.node_status \in {1, 2, 3, 4, 33} \cup 10..12
      BY DEF Going
    <3> QED
      BY <3>1, WorkingTells
  <2>3. shown.node_status \in 10..12 => faulty
    BY WorkingTells DEF Going
  <2> HIDE DEF shown
  <2> QED
    BY <2>1, <2>2, <2>3 DEF Going
<1> HIDE DEF shown
<1>3. timed \in NodeRec /\ Told(s, r, faulty, timed)
  <2>1. CASE r.enabled
    <3>1. able = shown
      BY <2>1
    <3> QED
      BY <1>2, <3>1, TimeTold, TimeEndTyped
  <2>2. CASE ~r.enabled
    <3>1. able \in NodeRec /\ able.step_end /\ able.node_status = 13
      <4>1. End(shown, 13) \in NodeRec
        BY <1>2, EndEnds, CodesTyped
      <4> QED
        BY <1>2, <2>2, <4>1, EndTells, SaveTells, SaveKeeps
    <3> HIDE DEF able
    <3>2. timed \in NodeRec /\ timed.step_end /\ timed.node_status = 13
      BY <3>1, TimeEndTells, TimeEndTyped
    <3>3. ReasonHolds(s, r, faulty, 13)
      BY <2>2 DEF ReasonHolds
    <3> HIDE DEF timed
    <3> QED
      BY <3>2, <3>3 DEF Told, Ended
  <2> QED
    BY <2>1, <2>2
<1> HIDE DEF timed
<1>4. CASE HcvFull(s, r)
  <2>1. Save(End(n, n.node_status)).step_end
    BY StatusTyped, EndEnds, SaveKeeps
  <2> QED
    BY <1>1, <1>4, <2>1 DEF Told, Ended, Silent
<1>5. CASE ~HcvFull(s, r) /\ (~r.settled \/ timed.step_end)
  BY <1>1, <1>3, <1>5
<1>6. CASE ~HcvFull(s, r) /\ r.settled /\ ~timed.step_end /\ r.err
  <2>1. ChargePoll(s, n, r) = End(timed, FaultReason(timed, r))
    BY <1>1, <1>6
  <2>2. /\ ChargePoll(s, n, r).step_end
        /\ ChargePoll(s, n, r).node_status = FaultReason(timed, r)
    BY <1>3, <2>1, EndTells
  <2>3. r.fault > 2 \/ FaultReason(timed, r) \in 10..12
    BY DEF FaultReason, Reading
  <2>4. FaultReason(timed, r) \in 10..12 =>
          ReasonHolds(s, r, faulty, FaultReason(timed, r))
    BY <1>6 DEF ReasonHolds
  <2> QED
    BY <1>6, <2>2, <2>3, <2>4 DEF Told, Ended, Silent
<1>7. CASE ~HcvFull(s, r) /\ r.settled /\ ~timed.step_end /\ ~r.err
  <2>1. Going(s, faulty, timed.node_status)
    BY <1>3, <1>7 DEF Told
  <2> QED
    BY <1>1, <1>3, <1>7, <2>1, ChargeLimitsTell
<1> QED
  BY <1>4, <1>5, <1>6, <1>7 DEF Reading

(* One poll of a discharge.                                                *)
LEMMA DischargePollTells ==
  ASSUME NEW s \in Step, NEW n \in NodeRec, NEW r \in Reading, NEW faulty \in BOOLEAN,
         s.type = "DCV", ~n.step_end, Going(s, faulty, n.node_status),
         r.err => faulty
  PROVE  Told(s, r, faulty, DischargePoll(s, n, r))
<1> DEFINE timed == step_time_end(s, n, r)
           shown == IF r.err THEN [timed EXCEPT !.node_status = FaultReason(timed, r)]
                    ELSE timed
           reason == DischargeReason(s, r)
<1>1. timed \in NodeRec /\ Told(s, r, faulty, timed)
  <2>1. n.node_status # 33
    BY DEF Going, Charging
  <2> QED
    BY <2>1, TimeTold, TimeEndTyped
<1>2. FaultReason(timed, r) \in Byte
  <2> HIDE DEF timed
  <2> QED BY <1>1, FaultTyped
<1>3. shown \in NodeRec /\ shown.step_end = timed.step_end
  <2> HIDE DEF timed
  <2> QED BY <1>1, <1>2 DEF NodeRec
<1>4. DischargePoll(s, n, r) =
        IF ~r.settled \/ timed.step_end THEN timed
        ELSE IF reason = 0 THEN shown
        ELSE IF reason = 23 THEN End(Save(End(shown, shown.node_status)), 23)
        ELSE Save(End(shown, reason))
  BY DEF DischargePoll
<1>5. reason \in Byte
  BY ReasonsTyped
<1>6. reason # 0 => ReasonHolds(s, r, faulty, reason)
  BY DischargeReasonTrue
<1> HIDE DEF timed, reason
<1>7. CASE ~r.settled \/ timed.step_end
  BY <1>1, <1>4, <1>7
<1>8. CASE r.settled /\ ~timed.step_end /\ reason = 0
  <2>1. Going(s, faulty, timed.node_status)
    BY <1>1, <1>8 DEF Told
  <2>2. r.err => shown.node_status = FaultReason(timed, r)
    BY <1>1 DEF NodeRec
  <2>3. FaultReason(timed, r) \in {10, 11, 12, timed.node_status}
    BY DEF FaultReason
  <2>4. Going(s, faulty, shown.node_status)
    BY <2>1, <2>2, <2>3 DEF Going
  <2> HIDE DEF shown
  <2> QED
    BY <1>3, <1>4, <1>8, <2>4 DEF Told, Reading
<1> HIDE DEF shown
<1>9. CASE r.settled /\ ~timed.step_end /\ reason # 0
  <2>1. End(shown, shown.node_status) \in NodeRec
    BY <1>3, StatusTyped, EndEnds
  <2>2. Save(End(shown, shown.node_status)) \in NodeRec
    BY <2>1, SaveKeeps
  <2>3. /\ End(Save(End(shown, shown.node_status)), 23).step_end
        /\ End(Save(End(shown, shown.node_status)), 23).node_status = 23
    BY <2>2, EndTells
  <2>4. Save(End(shown, reason)).step_end /\ Save(End(shown, reason)).node_status = reason
    BY <1>3, <1>5, EndEnds, EndTells, SaveTells
  <2>5. /\ DischargePoll(s, n, r).step_end
        /\ DischargePoll(s, n, r).node_status = reason
    BY <1>4, <1>9, <2>3, <2>4
  <2> QED
    BY <1>6, <1>9, <2>5 DEF Told, Ended
<1> QED
  BY <1>7, <1>8, <1>9 DEF Reading

(* One poll of any step.                                                   *)
LEMMA PollTells ==
  ASSUME NEW s \in Step, NEW n \in NodeRec, NEW r \in Reading, NEW faulty \in BOOLEAN,
         ~n.step_end, Going(s, faulty, n.node_status), r.err => faulty
  PROVE  Told(s, r, faulty, sys_run_status_poll(s, n, r))
<1>1. CASE s.type \in Charging
  <2>1. sys_run_status_poll(s, n, r) = ChargePoll(s, n, r)
    BY <1>1 DEF sys_run_status_poll, Charging
  <2> QED
    BY <1>1, <2>1, ChargePollTells
<1>2. CASE s.type = "DCV"
  <2>1. sys_run_status_poll(s, n, r) = DischargePoll(s, n, r)
    BY <1>2 DEF sys_run_status_poll, Charging
  <2> QED
    BY <1>2, <2>1, DischargePollTells
<1>3. CASE s.type = "REST"
  <2>1. sys_run_status_poll(s, n, r) = step_time_end(s, Working(n, 1), r)
    BY <1>3 DEF sys_run_status_poll, Charging, RestPoll
  <2>2. Working(n, 1) \in NodeRec /\ ~Working(n, 1).step_end
    BY CodesTyped, WorkingKeeps
  <2>3. Working(n, 1).node_status \in {1} \cup 10..12
    <3>1. n.node_status \in {1, 2, 3, 4, 33} \cup 10..12
      BY DEF Going
    <3> QED
      BY <3>1, WorkingTells
  <2>4. Working(n, 1).node_status \in 10..12 => faulty
    BY WorkingTells DEF Going
  <2>5. Going(s, faulty, Working(n, 1).node_status) /\ Working(n, 1).node_status # 33
    BY <2>3, <2>4 DEF Going
  <2> QED
    BY <2>1, <2>2, <2>5, TimeTold
<1> QED
  BY <1>1, <1>2, <1>3 DEF Step, Charging
-----------------------------------------------------------------------------
LEMMA StartsGoing ==
  ASSUME NEW s \in Step
  PROVE  Going(s, FALSE, ShownAtStart(s)) /\ ShownAtStart(s) \in Byte
<1>1. ShownAtStart(s) \in {1, 3, 4}
  BY DEF ShownAtStart, Step, Charging
<1> QED
  BY <1>1 DEF Going, Byte

(* PollTypes of every step of PollNext, from the proof that the poll protects.    *)
LEMMA Typed == PollSpec => []PollTypes
<1>1. SafetyInv => PollTypes
  BY DEF SafetyInv
<1> QED
  BY <1>1, Safe, PTL

(* The reason that sys_run_status_poll leaves in node_status when a step   *)
(* has ended is a condition the last reading meets or a fault of this      *)
(* step, whatever the step, the readings and the displays of the stage in  *)
(* between.                                                                *)
THEOREM Reasons == PollSpec => []EndReasonTrue
<1> USE StepPollsAssumption
<1>1. PollInit /\ PollTypes => ReasonInv
  <2> SUFFICES ASSUME PollInit, PollTypes PROVE ReasonInv
    OBVIOUS
  <2>1. /\ step \in Step /\ ~node.step_end /\ node.node_status = ShownAtStart(step)
        /\ seen = NoReading /\ past = NoPast
    BY DEF PollInit
  <2>2. ~NoReading.err /\ NoPast.faulty = FALSE
    BY DEF NoReading, NoPast
  <2> QED
    BY <2>1, <2>2, StartsGoing DEF ReasonInv, Told
<1>2. ReasonInv /\ PollTypes' /\ [PollNext]_polling => ReasonInv'
  <2> SUFFICES ASSUME ReasonInv, PollTypes', [PollNext]_polling PROVE ReasonInv'
    OBVIOUS
  <2>1. node \in NodeRec /\ step \in Step /\ seen \in Reading
        /\ past \in [flat: Nat, faulty: BOOLEAN]
    BY TypeOKParts DEF ReasonInv
  <2>2. CASE Poll
    <3>1. PICK r \in Readings :
            /\ seen' = r
            /\ past' = [ flat   |-> IF r.v = seen.v THEN past.flat ELSE r.time,
                         faulty |-> past.faulty \/ r.err ]
            /\ node' = sys_run_status_poll(step, node, r)
      BY <2>2 DEF Poll
    <3>2. r \in Reading /\ step' = step /\ ~node.step_end
      BY <2>2 DEF Poll
    <3>3. past'.faulty = (past.faulty \/ r.err) /\ past'.faulty \in BOOLEAN
      BY <2>1, <3>1, <3>2 DEF Reading
    <3>4. Going(step, past'.faulty, node.node_status)
      BY <3>2, <3>3 DEF ReasonInv, Told, Going
    <3>5. Told(step, r, past'.faulty, node')
      BY <2>1, <3>1, <3>2, <3>3, <3>4, PollTells
    <3> QED
      BY <3>1, <3>2, <3>3, <3>5 DEF ReasonInv
  <2>3. CASE BeginStep
    <3>1. PICK s \in Steps :
            /\ step' = s
            /\ node' = [node EXCEPT !.step_end = FALSE,
                                    !.node_status = ShownAtStart(s)]
      BY <2>3 DEF BeginStep
    <3>2. ~node'.step_end /\ node'.node_status = ShownAtStart(s)
      BY <2>1, <3>1 DEF NodeRec
    <3>3. ~seen'.err /\ past'.faulty = FALSE
      BY <2>3 DEF BeginStep, NoReading, NoPast
    <3>4. Going(s, FALSE, ShownAtStart(s))
      BY StartsGoing
    <3> QED
      BY <3>1, <3>2, <3>3, <3>4 DEF ReasonInv, Told
  <2>4. CASE ShowStage
    <3>1. node'.step_end = node.step_end /\ node'.node_status = 10 /\ past.faulty
      BY <2>1, <2>4 DEF ShowStage, NodeRec, ReasonInv
    <3>2. UNCHANGED <<step, seen, past>>
      BY <2>4 DEF ShowStage
    <3>3. Going(step, past.faulty, 10) /\ Ended(step, seen, past.faulty, 10)
      BY <3>1 DEF Going, Ended, ReasonHolds
    <3> QED
      BY <3>1, <3>2, <3>3 DEF ReasonInv, Told
  <2>5. CASE UNCHANGED polling
    BY <2>5 DEF polling, ReasonInv
  <2> QED
    BY <2>2, <2>3, <2>4, <2>5 DEF PollNext
<1>3. ReasonInv => EndReasonTrue
  BY DEF ReasonInv, Told, Ended, EndReasonTrue
<1> QED
  BY <1>1, <1>2, <1>3, Typed, PTL DEF PollSpec
-----------------------------------------------------------------------------
(***************************************************************************)
(* For every step, every reading and every protection limit: what ends a   *)
(* charge in regulation.  RegulatedGoesOn is not kept by the code as it    *)
(* stands: a set current below 500 mA makes an unsigned difference wrap,   *)
(* and below 3.1 V the time of the last change of the voltage may be one   *)
(* that an earlier step has left.  The theorem says that these two are all *)
(* there is, and RegulationInv that the second is over with the first      *)
(* voltage the step itself has compared.                                   *)
(***************************************************************************)
(* The time kept in time_tmp is of this step: no earlier than the last     *)
(* change of the voltage and not ahead of the clock of the step.           *)
OwnTime == node.time_tmp \in past.flat..seen.time

(* A charge that has been compared and goes on has kept its voltage, and   *)
(* its voltage has not changed after the last reading.                     *)
RegulationInv ==
  /\ PollTypes
  /\ past.flat <= seen.time
  /\ step.type \in Charging /\ seen.settled /\ ~node.step_end => node.v_tmp = seen.v

(* The two voltages of a charge in regulation that the poll compares with  *)
(* the set voltage are below it, and its current is near the set one.      *)
LEMMA RegulationMeetsNothing ==
  ASSUME NEW s \in Step, NEW n \in NodeRec, NEW r \in Reading,
         r.v \in 2800..s.parm1-1, r.i <= set_i(s), set_i(s) >= 500,
         r.i >= set_i(s) - 500 \/ r.v >= s.parm1 - 40,
         ~charge_curr_end(s, r), ~charge_capacity_end(s, r), ~sys_protect(r),
         ~recharge_capacity_end(s, r), ~charge_bat_err(s, n, r)
  PROVE  ChargeReason(s, n, r) = 0
<1>1. r.v \in Int /\ r.i \in Int /\ s.parm1 \in Int /\ set_i(s) \in Int
  <2>1. \A x \in Word : x \in Int
    BY DEF Word
  <2>2. r.v \in Word /\ r.i \in Word /\ s.parm1 \in Word /\ s.cond1 \in Nat
    BY DEF Reading, Step
  <2>3. set_i(s) \in Int
    BY <2>2 DEF set_i, U16
  <2> QED
    BY <2>1, <2>2, <2>3
<1>2. ~charge_vot_end(s, r) /\ ~charge_vot_low(s, r) /\ ~charge_vot_high(s, r)
  BY <1>1 DEF charge_vot_end, charge_vot_low, charge_vot_high
<1>3. ~charge_curr_err(s, r) /\ ~charge_status_err(s, r)
  BY <1>1 DEF charge_curr_err, charge_status_err
<1> QED
  BY <1>2, <1>3 DEF ChargeReason

(* The shortest time an unchanged voltage is tolerated is 300 s.           *)
LEMMA UnchangedTolerated ==
  ASSUME NEW s, NEW n, NEW r, n.time_tmp \in Nat, r.time \in Nat,
         n.time_tmp <= r.time, r.time - n.time_tmp <= 300
  PROVE  ~UnchangedTooLong(s, n, r)
<1>1. \A row \in Unchanged : row[2] >= 300 /\ row[2] \in Nat
  BY DEF Unchanged
<1>2. ~Exceeds(r.time - n.time_tmp, Unchanged, set_i(s))
  BY <1>1 DEF Exceeds
<1> QED
  BY <1>2 DEF UnchangedTooLong

(* A settled poll of a charge by ChargeLimits that ends nothing keeps the  *)
(* voltage it has compared, and the time if it is another than before.     *)
LEMMA ChargeLimitsKeep ==
  ASSUME NEW s \in Step, NEW n \in NodeRec, NEW r \in Reading
  PROVE  /\ ChargeReason(s, n, r) = 0 =>
              /\ ChargeLimits(s, n, r).step_end = n.step_end
              /\ ChargeLimits(s, n, r).v_tmp = r.v
              /\ ChargeLimits(s, n, r).time_tmp =
                   IF n.v_tmp = r.v THEN n.time_tmp ELSE r.time
         /\ n.v_tmp = r.v => ChargeLimits(s, n, r).time_tmp = n.time_tmp
<1> DEFINE reason == ChargeReason(s, n, r)
           moved  == reason \in {0, 23, 28, 34} /\ n.v_tmp # r.v
           m == IF moved THEN [n EXCEPT !.v_tmp = r.v, !.time_tmp = r.time] ELSE n
<1>1. m \in NodeRec /\ m.step_end = n.step_end
  BY DEF NodeRec, Reading
<1>2. /\ reason = 0 => m.v_tmp = r.v /\ m.time_tmp =
                         IF n.v_tmp = r.v THEN n.time_tmp ELSE r.time
      /\ n.v_tmp = r.v => m.time_tmp = n.time_tmp
  BY DEF NodeRec, Reading
<1>3. ChargeLimits(s, n, r) =
        IF reason # 0 THEN Save(End(m, reason))
        ELSE IF charge_bat_vot_up(s, r) THEN [m EXCEPT !.node_status = 33] ELSE m
  BY DEF ChargeLimits
<1> HIDE DEF m, reason
<1>4. Save(End(m, reason)).time_tmp = m.time_tmp
  BY <1>1 DEF Save, End, NodeRec
<1>5. /\ [m EXCEPT !.node_status = 33].step_end = m.step_end
      /\ [m EXCEPT !.node_status = 33].v_tmp = m.v_tmp
      /\ [m EXCEPT !.node_status = 33].time_tmp = m.time_tmp
  BY <1>1 DEF NodeRec
<1> QED
  BY <1>1, <1>2, <1>3, <1>4, <1>5 DEF reason

(* What a poll of a charge keeps: with a reading that is not settled the   *)
(* voltage and the time, with a settled one as ChargeLimits does.          *)
LEMMA ChargePollKeeps ==
  ASSUME NEW s \in Step, NEW n \in NodeRec, NEW r \in Reading,
         s.type \in Charging, ~n.step_end
  PROVE  /\ r.settled /\ ~ChargePoll(s, n, r).step_end =>
              /\ ChargePoll(s, n, r).v_tmp = r.v
              /\ ChargePoll(s, n, r).time_tmp =
                   IF n.v_tmp = r.v THEN n.time_tmp ELSE r.time
         /\ n.v_tmp = r.v => ChargePoll(s, n, r).time_tmp = n.time_tmp
<1> DEFINE shown == Working(n, IF r.cc THEN 3 ELSE 2)
           able  == IF r.enabled THEN shown ELSE Save(End(shown, 13))
           timed == step_time_end(s, able, r)
           same(m) == m \in NodeRec /\ m.v_tmp = n.v_tmp /\ m.time_tmp = n.time_tmp
<1>1. ChargePoll(s, n, r) =
        IF HcvFull(s, r) THEN Save(End(n, n.node_status))
        ELSE IF ~r.settled \/ timed.step_end THEN timed
        ELSE IF r.err THEN End(timed, FaultReason(timed, r))
        ELSE ChargeLimits(s, timed, r)
  BY DEF ChargePoll
<1>2. same(shown)
  BY WorkingKeeps, CodesTyped DEF Working, NodeRec
<1>3. \A m \in NodeRec, reason \in Byte : same(m) => same(Save(End(m, reason)))
  <2> SUFFICES ASSUME NEW m \in NodeRec, NEW reason \in Byte, same(m)
               PROVE  same(Save(End(m, reason)))
    OBVIOUS
  <2>1. Save(End(m, reason)) \in NodeRec
    BY EndEnds, SaveKeeps
  <2>2. /\ Save(End(m, reason)).v_tmp = m.v_tmp
        /\ Save(End(m, reason)).time_tmp = m.time_tmp
    BY DEF Save, End, NodeRec
  <2> QED
    BY <2>1, <2>2
<1>4. same(able)
  <2> HIDE DEF shown, same
  <2>1. shown \in NodeRec
    BY <1>2 DEF same
  <2> QED
    BY <1>2, <1>3, <2>1, CodesTyped
<1>5. same(timed)
  <2> DEFINE reason == IF able.node_status < 10 THEN 20 ELSE able.node_status
  <2> HIDE DEF able, same
  <2>1. able \in NodeRec
    BY <1>4 DEF same
  <2>2. reason \in Byte
    BY <2>1, StatusTyped, CodesTyped
  <2>3. timed = IF TimeEnd(s, r) THEN Save(End(able, reason)) ELSE able
    BY DEF step_time_end
  <2> HIDE DEF reason, timed
  <2> QED
    BY <1>3, <1>4, <2>1, <2>2, <2>3
<1> HIDE DEF timed
<1>6. same(Save(End(n, n.node_status))) /\ Save(End(n, n.node_status)).step_end
  BY <1>3, StatusTyped, EndEnds, SaveKeeps, SMTT(40)
<1>7. /\ End(timed, FaultReason(timed, r)).step_end
      /\ End(timed, FaultReason(timed, r)).time_tmp = n.time_tmp
  BY <1>5 DEF End, NodeRec
<1>8. /\ ~ChargeLimits(s, timed, r).step_end =>
           /\ ChargeLimits(s, timed, r).v_tmp = r.v
           /\ ChargeLimits(s, timed, r).time_tmp =
                IF n.v_tmp = r.v THEN n.time_tmp ELSE r.time
      /\ n.v_tmp = r.v => ChargeLimits(s, timed, r).time_tmp = n.time_tmp
  BY <1>5, ChargeLimitsKeep, ChargeLimitsPoll
<1> QED
  BY <1>1, <1>5, <1>6, <1>7, <1>8 DEF Reading

(* A poll that ends a charge in regulation found its voltage unchanged for *)
(* longer than the time it keeps, below 3.1 V.                             *)
LEMMA RegulatedPoll ==
  ASSUME NEW s \in Step, NEW n \in NodeRec, NEW r \in Reading,
         s.type = "CV", set_i(s) >= 500, ~n.step_end, r.enabled, ~r.err,
         r.v \in 2800..s.parm1-1, r.i <= set_i(s),
         r.i >= set_i(s) - 500 \/ r.v >= s.parm1 - 40, ~TimeEnd(s, r),
         ~charge_curr_end(s, r), ~charge_capacity_end(s, r), ~sys_protect(r),
         ~recharge_capacity_end(s, r), ChargePoll(s, n, r).step_end
  PROVE  n.v_tmp = r.v /\ r.v < 3100 /\ UnchangedTooLong(s, n, r)
<1> DEFINE shown == Working(n, IF r.cc THEN 3 ELSE 2)
           timed == step_time_end(s, shown, r)
<1>1. ChargePoll(s, n, r) =
        IF ~r.settled \/ timed.step_end THEN timed ELSE ChargeLimits(s, timed, r)
  BY DEF ChargePoll, HcvFull
<1>2. shown \in NodeRec /\ ~shown.step_end
  <2>1. (IF r.cc THEN 3 ELSE 2) \in Byte
    BY CodesTyped
  <2>2. shown \in NodeRec
    BY <2>1, WorkingKeeps
  <2>3. ~shown.step_end
    BY WorkingTells
  <2> QED
    BY <2>2, <2>3
<1>3. shown.v_tmp = n.v_tmp /\ shown.time_tmp = n.time_tmp
  BY DEF Working, NodeRec
<1> HIDE DEF shown
<1>4. timed = shown
  BY <1>2, TimeEndTells
<1> HIDE DEF timed
<1>5. ChargeReason(s, timed, r) # 0
  BY <1>1, <1>2, <1>4, ChargeLimitsKeep DEF Reading
<1>6. charge_bat_err(s, timed, r)
  BY <1>2, <1>4, <1>5, RegulationMeetsNothing
<1>7. r.v \in Nat /\ r.v >= 2800
  OBVIOUS
<1>8. timed.v_tmp = r.v /\ r.v < 3100 /\ UnchangedTooLong(s, timed, r)
  BY <1>6, <1>7, SMTT(40) DEF charge_bat_err
<1>9. UnchangedTooLong(s, n, r)
  BY <1>3, <1>4, <1>8 DEF UnchangedTooLong
<1> QED
  BY <1>3, <1>4, <1>8, <1>9

LEMMA Regulation == PollSpec => []RegulationInv
<1> USE StepPollsAssumption
<1>1. PollInit /\ PollTypes => RegulationInv
  BY DEF PollInit, RegulationInv, NoReading, NoPast
<1>2. RegulationInv /\ [PollNext]_polling /\ PollTypes' => RegulationInv'
  <2> SUFFICES ASSUME RegulationInv, [PollNext]_polling, PollTypes' PROVE RegulationInv'
    OBVIOUS
  <2>1. node \in NodeRec /\ step \in Step /\ past \in [flat: Nat, faulty: BOOLEAN]
        /\ seen \in Reading
    BY TypeOKParts DEF RegulationInv
  <2>2. CASE Poll
    <3>1. PICK r \in Readings :
            /\ r.time >= seen.time
            /\ seen' = r
            /\ past' = [ flat   |-> IF r.v = seen.v THEN past.flat ELSE r.time,
                         faulty |-> past.faulty \/ r.err ]
            /\ node' = sys_run_status_poll(step, node, r)
      BY <2>2 DEF Poll
    <3>2. r \in Reading /\ step' = step /\ ~node.step_end
      BY <2>2 DEF Poll
    <3>3. past'.flat <= seen'.time
      BY <2>1, <3>1, <3>2 DEF RegulationInv, Reading
    <3>4. ASSUME step.type \in Charging, r.settled, ~node'.step_end
          PROVE  node'.v_tmp = r.v
      <4>1. node' = ChargePoll(step, node, r)
        BY <3>1, <3>4 DEF sys_run_status_poll, Charging
      <4> QED
        BY <2>1, <3>2, <3>4, <4>1, ChargePollKeeps
    <3> QED
      BY <3>1, <3>2, <3>3, <3>4 DEF RegulationInv
  <2>3. CASE BeginStep
    <3>1. seen' = NoReading /\ past' = NoPast
      BY <2>3 DEF BeginStep
    <3> QED
      BY <3>1 DEF RegulationInv, NoReading, NoPast
  <2>4. CASE ShowStage
    <3>1. node'.step_end = node.step_end /\ node'.v_tmp = node.v_tmp
      BY <2>1, <2>4 DEF ShowStage, NodeRec
    <3>2. UNCHANGED <<step, seen, past>>
      BY <2>4 DEF ShowStage
    <3> QED
      BY <3>1, <3>2 DEF RegulationInv
  <2>5. CASE UNCHANGED polling
    BY <2>5 DEF polling, RegulationInv
  <2> QED
    BY <2>2, <2>3, <2>4, <2>5 DEF PollNext
<1> QED
  BY <1>1, <1>2, Typed, PTL DEF PollSpec

(* What ends a charge in regulation, at 500 mA or more: below 3.1 V, a     *)
(* time that is not its own.  Everywhere else the poll of a charge lets a  *)
(* charge in regulation go on, whatever the steps before and the readings  *)
(* in between (sys_logic_control.c:450-700).                               *)
THEOREM Regulated ==
  ASSUME \A s \in Steps : s.type = "CV" => set_i(s) >= 500
  PROVE  PollSpec => [](seen.v >= 3100 \/ OwnTime => RegulatedGoesOn)
<1> DEFINE Goal == seen.v >= 3100 \/ OwnTime => RegulatedGoesOn
<1> USE StepPollsAssumption
<1>1. PollInit => Goal
  BY DEF PollInit, RegulatedGoesOn
<1>2. PollTypes /\ Goal /\ step \in Steps /\ [PollNext]_polling => Goal'
  <2> SUFFICES ASSUME PollTypes, Goal, step \in Steps, [PollNext]_polling PROVE Goal'
    OBVIOUS
  <2>1. node \in NodeRec /\ step \in Step /\ past \in [flat: Nat, faulty: BOOLEAN]
        /\ seen \in Reading
    BY TypeOKParts
  <2>2. CASE Poll
    <3>1. PICK r \in Readings :
            /\ seen' = r
            /\ past' = [ flat   |-> IF r.v = seen.v THEN past.flat ELSE r.time,
                         faulty |-> past.faulty \/ r.err ]
            /\ node' = sys_run_status_poll(step, node, r)
      BY <2>2 DEF Poll
    <3>2. r \in Reading /\ step' = step /\ ~node.step_end
      BY <2>2 DEF Poll
    <3> SUFFICES ASSUME (seen.v >= 3100 \/ OwnTime)', step.type = "CV",
                        InRegulation(step, seen)', node'.step_end
                 PROVE  FALSE
      BY <3>2 DEF RegulatedGoesOn
    <3>3. node' = ChargePoll(step, node, r)
      BY <3>1, <3>2 DEF sys_run_status_poll, Charging
    <3>4. /\ r.enabled /\ ~r.err
          /\ r.v \in 2800..step.parm1-1
          /\ r.i <= set_i(step) /\ (r.i >= set_i(step) - 500 \/ r.v >= step.parm1 - 40)
          /\ ~TimeEnd(step, r) /\ ~charge_curr_end(step, r)
          /\ ~charge_capacity_end(step, r)
          /\ ~sys_protect(r) /\ ~recharge_capacity_end(step, r)
          /\ r.v >= 3100 \/ r.time - past'.flat <= 300
      BY <3>1, <3>2 DEF InRegulation
    <3>5. node.v_tmp = r.v /\ r.v < 3100 /\ UnchangedTooLong(step, node, r)
      BY <2>1, <3>2, <3>3, <3>4, RegulatedPoll
    <3>6. node'.time_tmp = node.time_tmp
      BY <2>1, <3>2, <3>3, <3>5, ChargePollKeeps DEF Charging
    <3>7. node.time_tmp \in past'.flat..r.time
      BY <3>1, <3>4, <3>5, <3>6 DEF OwnTime
    <3>8. node.time_tmp \in Nat /\ r.time \in Nat /\ past'.flat \in Nat
      BY <2>1, <3>1, <3>2 DEF NodeRec, Reading
    <3> QED
      BY <3>4, <3>5, <3>7, <3>8, UnchangedTolerated
  <2>3. CASE BeginStep
    <3>1. ~node'.step_end
      BY <2>1, <2>3 DEF BeginStep, NodeRec
    <3> QED
      BY <3>1 DEF RegulatedGoesOn
  <2>4. CASE ShowStage
    <3>1. node'.step_end = node.step_end /\ node'.time_tmp = node.time_tmp
      BY <2>1, <2>4 DEF ShowStage, NodeRec
    <3>2. UNCHANGED <<step, seen, past>>
      BY <2>4 DEF ShowStage
    <3> QED
      BY <3>1, <3>2 DEF OwnTime, RegulatedGoesOn, InRegulation
  <2>5. CASE UNCHANGED polling
    BY <2>5 DEF polling, OwnTime, RegulatedGoesOn, InRegulation
  <2> QED
    BY <2>2, <2>3, <2>4, <2>5 DEF PollNext
<1>3. PollInit => step \in Steps
  BY DEF PollInit
<1>4. step \in Steps /\ [PollNext]_polling => (step \in Steps)'
  BY DEF PollNext, Poll, BeginStep, ShowStage, polling
<1> QED
  BY <1>1, <1>2, <1>3, <1>4, Typed, PTL DEF PollSpec

(* Once a time is the step's own it stays so while the charge goes on, and *)
(* the first voltage compared that is not the one an earlier step has left *)
(* makes it so: only the start of a step on an unchanged voltage is        *)
(* exposed to the time of another (sys_logic_control.c:632).               *)
TimeBecomesOwn ==
  [][Poll /\ step.type \in Charging /\ seen'.settled /\ ~node'.step_end
       /\ (seen'.v = node.v_tmp => seen.settled /\ OwnTime)
       => OwnTime']_polling

THEOREM OwnTimeLasts == PollSpec => TimeBecomesOwn
<1> USE StepPollsAssumption
<1>1. RegulationInv /\ Poll /\ step.type \in Charging /\ seen'.settled
        /\ ~node'.step_end /\ (seen'.v = node.v_tmp => seen.settled /\ OwnTime)
        => OwnTime'
  <2> SUFFICES ASSUME RegulationInv, Poll, step.type \in Charging, seen'.settled,
                      ~node'.step_end,
                      seen'.v = node.v_tmp => seen.settled /\ OwnTime
               PROVE  OwnTime'
    OBVIOUS
  <2>1. node \in NodeRec /\ step \in Step /\ past \in [flat: Nat, faulty: BOOLEAN]
        /\ seen \in Reading
    BY TypeOKParts DEF RegulationInv
  <2>2. PICK r \in Readings :
          /\ r.time >= seen.time
          /\ seen' = r
          /\ past' = [ flat   |-> IF r.v = seen.v THEN past.flat ELSE r.time,
                       faulty |-> past.faulty \/ r.err ]
          /\ node' = sys_run_status_poll(step, node, r)
    BY DEF Poll
  <2>3. r \in Reading /\ ~node.step_end
    BY DEF Poll
  <2>4. node' = ChargePoll(step, node, r)
    BY <2>2 DEF sys_run_status_poll, Charging
  <2>5. node'.time_tmp = IF node.v_tmp = r.v THEN node.time_tmp ELSE r.time
    BY <2>1, <2>2, <2>3, <2>4, ChargePollKeeps
  <2>6. node.time_tmp \in Nat /\ r.time \in Nat /\ seen.time \in Nat /\ past.flat \in Nat
    BY <2>1, <2>3 DEF NodeRec, Reading
  <2>7. CASE node.v_tmp = r.v
    <3>1. OwnTime /\ node.v_tmp = seen.v
      BY <2>2, <2>3, <2>7 DEF RegulationInv
    <3> QED
      BY <2>2, <2>5, <2>6, <2>7, <3>1 DEF OwnTime
  <2>8. CASE node.v_tmp # r.v
    <3>1. past'.flat <= r.time
      BY <2>2, <2>6 DEF RegulationInv
    <3> QED
      BY <2>2, <2>5, <2>6, <2>8, <3>1 DEF OwnTime
  <2> QED
    BY <2>7, <2>8
<1> QED
  BY <1>1, Regulation, PTL DEF PollSpec, TimeBecomesOwn
=============================================================================
