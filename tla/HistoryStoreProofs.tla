------------------------- MODULE HistoryStoreProofs -------------------------
(***************************************************************************)
(* Theorems about HistoryStore, for any number of nodes, any number of     *)
(* rows a minute, any length of a request and any number of lost replies:  *)
(* no row is lost on its way, and the host receives a node's history from  *)
(* its beginning.  Both follow from one invariant, HistoryInv, which says  *)
(* what lies in the reply buffer.                                          *)
(***************************************************************************)
EXTENDS HistoryStore, SequenceTheorems, WellFoundedInduction, TLAPS

(* The rows of a node are stored in the order they were written.           *)
InOrder ==
  \A a, b \in DOMAIN rows :
    a < b /\ rows[a].of = rows[b].of => rows[a].nr < rows[b].nr

Written == \A row \in Rows : row.nr <= nrs[row.of]

(* A range that is being read lies within the nodes; a node is recorded    *)
(* only if it may run.                                                     *)
InRange ==
  /\ srv.pc = "read" =>
       srv.cnt <= srv.i /\ srv.i <= srv.sum /\ srv.mun + srv.sum <= MaxNode
  /\ saver.pc = "row" => saver.n \in Runners

Taken(k) == srv.pc = "read" /\ k <= srv.i

(* What lies in a slot has left the database.  Before the server comes to  *)
(* the slot it is left over from an earlier reply; after that it may be    *)
(* the row of the node the slot stands for, if any row was found.          *)
SlotsKnown ==
  \A k \in Slots : buf[k] # NoRow /\ buf[k] \notin Accounted =>
    Taken(k) /\ X(buf[k]) = srv.mun + k - 1 /\ srv.cnt > 0

(* All older rows of its node have been dealt with.                        *)
OlderAccounted(row) == \A j \in 1..row.nr-1 : [row EXCEPT !.nr = j] \in Accounted

SlotsOldest == \A k \in Slots : buf[k] # NoRow => OlderAccounted(buf[k])

HistoryInv ==
  /\ TypeOK /\ InOrder /\ Written /\ InRange
  /\ SlotsKnown /\ SlotsOldest /\ NothingLost /\ OldestFirst
-----------------------------------------------------------------------------
(* Every non-empty set of naturals has a least element, which is its Min.  *)
Less == OpToRel(<, Nat)

LEMMA LessWellFounded == IsWellFoundedOn(Less, Nat)
  BY NatLessThanWellFounded DEF Less

LEMMA LessIsLess ==
  ASSUME NEW x \in Nat, NEW y \in Nat, <<y, x>> \notin Less
  PROVE  x <= y
  <1>1. Less = {ss \in Nat \X Nat : ss[1] < ss[2]}
    BY Zenon DEF Less, OpToRel
  <1>2. <<y, x>> \in Nat \X Nat /\ <<y, x>>[1] = y /\ <<y, x>>[2] = x
    OBVIOUS
  <1>3. ~(<<y, x>>[1] < <<y, x>>[2])
    BY <1>1, <1>2, Zenon
  <1>. QED BY <1>2, <1>3

LEMMA MinLemma ==
  ASSUME NEW S, S \subseteq Nat, S # {}
  PROVE  Min(S) \in S /\ \A y \in S : Min(S) <= y
  <1>1. PICK x \in S : \A y \in S : <<y, x>> \notin Less
    BY LessWellFounded, WFMin
  <1>2. \A y \in S : x <= y
    BY <1>1, LessIsLess
  <1>. QED BY <1>2 DEF Min

(* The query of a node finds its first row.                                *)
LEMMA FirstRowLemma ==
  ASSUME rows \in Seq(Row), NEW mun \in Int
  PROVE  LET k == FirstRow(mun)
         IN  \/ k = 0 /\ \A a \in DOMAIN rows : X(rows[a]) # mun
             \/ /\ k \in DOMAIN rows /\ X(rows[k]) = mun
                /\ \A a \in DOMAIN rows : X(rows[a]) = mun => k <= a
  <1>. DEFINE I == {i \in 1..Len(rows) : X(rows[i]) = mun}
  <1>1. FirstRow(mun) = IF I # {} THEN Min(I) ELSE 0
    BY DEF FirstRow, SelectInSeq
  <1>2. DOMAIN rows = 1..Len(rows) /\ Len(rows) \in Nat
    OBVIOUS
  <1>3. CASE I = {}
    BY <1>1, <1>2, <1>3
  <1>4. CASE I # {}
    <2>1. I \subseteq Nat
      BY <1>2
    <2>2. Min(I) \in I /\ \A y \in I : Min(I) <= y
      BY <1>4, <2>1, MinLemma
    <2>. QED BY <1>1, <1>2, <1>4, <2>2
  <1>. QED BY <1>3, <1>4

(* Removing one element of a sequence keeps all others in their order.     *)
LEMMA RemoveAtLemma ==
  ASSUME NEW S, NEW s \in Seq(S), NEW k \in DOMAIN s
  PROVE  /\ RemoveAt(s, k) \in Seq(S)
         /\ Len(RemoveAt(s, k)) = Len(s) - 1
         /\ \A i \in 1..Len(s)-1 :
              RemoveAt(s, k)[i] = IF i < k THEN s[i] ELSE s[i+1]
  <1>. DEFINE left == SubSeq(s, 1, k-1)
             right == SubSeq(s, k+1, Len(s))
  <1>1. Len(s) \in Nat /\ k \in 1..Len(s)
    OBVIOUS
  <1>2. left \in Seq(S) /\ Len(left) = k-1 /\ \A i \in 1..k-1 : left[i] = s[i]
    BY <1>1, SubSeqProperties
  <1>3. right \in Seq(S) /\ Len(right) = Len(s)-k
          /\ \A i \in 1..Len(s)-k : right[i] = s[k+i]
    BY <1>1, SubSeqProperties
  <1>4. RemoveAt(s, k) = left \o right
    BY DEF RemoveAt
  <1>. HIDE DEF left, right
  <1>. QED BY <1>1, <1>2, <1>3, <1>4, ConcatProperties, SMTT(40)

LEMMA RemoveAtSet ==
  ASSUME NEW S, NEW s \in Seq(S), NEW k \in DOMAIN s
  PROVE  /\ ToSet(RemoveAt(s, k)) \subseteq ToSet(s)
         /\ ToSet(s) \subseteq ToSet(RemoveAt(s, k)) \cup {s[k]}
  <1>. DEFINE r == RemoveAt(s, k)
  <1>1. Len(s) \in Nat /\ DOMAIN s = 1..Len(s) /\ k \in 1..Len(s)
    OBVIOUS
  <1>2. DOMAIN r = 1..Len(s)-1
    BY <1>1, RemoveAtLemma
  <1>3. \A i \in 1..Len(s)-1 : r[i] = IF i < k THEN s[i] ELSE s[i+1]
    BY RemoveAtLemma
  <1>4. ToSet(r) \subseteq ToSet(s)
    BY <1>1, <1>2, <1>3 DEF ToSet
  <1>5. ASSUME NEW i \in 1..Len(s), i # k
        PROVE  s[i] \in ToSet(r)
    <2>1. CASE i < k
      <3>1. i \in DOMAIN r /\ r[i] = s[i]
        BY <1>1, <1>2, <1>3, <2>1
      <3>. QED BY <3>1 DEF ToSet
    <2>2. CASE i > k
      <3>1. i-1 \in DOMAIN r /\ r[i-1] = s[i]
        BY <1>1, <1>2, <1>3, <2>2
      <3>. QED BY <3>1 DEF ToSet
    <2>. QED BY <1>1, <1>5, <2>1, <2>2
  <1>6. ToSet(s) \subseteq ToSet(r) \cup {s[k]}
    BY <1>1, <1>5 DEF ToSet
  <1>. QED BY <1>4, <1>6

LEMMA AppendLemma ==
  ASSUME NEW S, NEW s \in Seq(S), NEW e \in S
  PROVE  /\ Append(s, e) \in Seq(S)
         /\ DOMAIN Append(s, e) = 1..Len(s)+1 /\ DOMAIN s = 1..Len(s)
         /\ Len(s) \in Nat
         /\ \A i \in 1..Len(s)+1 : Append(s, e)[i] = IF i <= Len(s) THEN s[i] ELSE e
  OBVIOUS

LEMMA AppendSet ==
  ASSUME NEW S, NEW s \in Seq(S), NEW e \in S
  PROVE  ToSet(Append(s, e)) = ToSet(s) \cup {e}
  <1>. DEFINE r == Append(s, e)
  <1>1. /\ DOMAIN r = 1..Len(s)+1 /\ DOMAIN s = 1..Len(s) /\ Len(s) \in Nat
        /\ \A i \in 1..Len(s)+1 : r[i] = IF i <= Len(s) THEN s[i] ELSE e
    BY AppendLemma
  <1>. HIDE DEF r
  <1>2. r[Len(s)+1] = e /\ Len(s)+1 \in DOMAIN r
    BY <1>1
  <1>3. ToSet(r) \subseteq ToSet(s) \cup {e}
    BY <1>1 DEF ToSet
  <1>4. ToSet(s) \subseteq ToSet(r) /\ e \in ToSet(r)
    BY <1>1, <1>2 DEF ToSet
  <1>. QED BY <1>3, <1>4 DEF r
-----------------------------------------------------------------------------
(* What the types say of a reading server and of the rows.                 *)
LEMMA ReadFields ==
  ASSUME TypeOK, srv.pc = "read"
  PROVE  /\ srv \in [pc: {"read"}, mun: 0..MaxNode, sum: Slots, i: 0..MaxSum,
                     cnt: 0..MaxSum]
         /\ srv.mun \in 0..MaxNode /\ srv.sum \in 1..MaxSum
         /\ srv.i \in 0..MaxSum /\ srv.cnt \in 0..MaxSum
  BY DEF TypeOK, Idle, Slots

LEMMA RowsAreRows ==
  ASSUME TypeOK
  PROVE  /\ \A k \in DOMAIN rows : rows[k] \in Row /\ rows[k] \in Rows
         /\ \A row \in Rows : row \in Row /\ \E k \in DOMAIN rows : row = rows[k]
  BY DEF TypeOK, ToSet, Rows

LEMMA RowLemma ==
  ASSUME NEW row \in Row
  PROVE  /\ row.of \in Runners /\ row.of \in Node /\ row.nr \in Nat \ {0}
         /\ row # NoRow
         /\ row = [of |-> row.of, nr |-> row.nr]
         /\ \A j : [row EXCEPT !.nr = j] = [of |-> row.of, nr |-> j]
  BY HistoryStoreAssumption DEF Row, NoRow, Node

LEMMA AccountedGrows ==
  ASSUME host.got \subseteq host'.got, gone \subseteq gone'
  PROVE  Accounted \subseteq Accounted'
  <1>1. Received \subseteq Received'
    BY DEF Received
  <1>. QED BY <1>1 DEF Accounted

LEMMA OlderGrows ==
  ASSUME Accounted \subseteq Accounted'
  PROVE  \A row : OlderAccounted(row) => OlderAccounted(row)'
  BY DEF OlderAccounted

LEMMA InitInv == Init => HistoryInv
  <1>. SUFFICES ASSUME Init PROVE HistoryInv
    OBVIOUS
  <1>1. Node \subseteq Nat /\ Rows = {} /\ srv.pc # "read" /\ saver.pc # "row"
    BY DEF Init, Node, Rows, ToSet, Idle
  <1>2. TypeOK
    <2>1. /\ net \in [on: BOOLEAN, count: 0..NetLimit+1]
          /\ losses \in 0..MaxLosses /\ nrs \in [Node -> Nat]
      BY HistoryStoreAssumption DEF Init
    <2>2. rows \in Seq(Row) /\ buf \in [Slots -> Row \cup {NoRow}]
      BY DEF Init
    <2>3. host \in [got: SUBSET [to: 0..MaxNode, row: Row], told: SUBSET (0..MaxNode)]
      BY DEF Init
    <2>. QED BY <2>1, <2>2, <2>3 DEF Init, TypeOK
  <1>3. Received = {}
    BY DEF Init, Received
  <1>4. InOrder /\ Written /\ InRange
    BY <1>1 DEF Init, InOrder, Written, InRange
  <1>5. SlotsKnown /\ SlotsOldest
    BY DEF Init, SlotsKnown, SlotsOldest
  <1>6. NothingLost /\ OldestFirst
    BY <1>3 DEF Init, NothingLost, OldestFirst
  <1>. QED BY <1>2, <1>4, <1>5, <1>6 DEF HistoryInv
-----------------------------------------------------------------------------
(* Actions that touch neither rows nor slots nor the server's request.     *)
LEMMA KeepsHistory ==
  ASSUME HistoryInv, UNCHANGED <<srv, rows, buf, host, losses, nrs, gone>>
  PROVE  /\ InOrder' /\ Written' /\ SlotsKnown' /\ SlotsOldest'
         /\ NothingLost' /\ OldestFirst'
  <1>1. Accounted' = Accounted /\ Rows' = Rows /\ InHand' = InHand
        /\ Received' = Received
    BY DEF Accounted, Received, Rows, InHand
  <1>2. InOrder' /\ Written'
    BY <1>1 DEF HistoryInv, InOrder, Written
  <1>3. SlotsKnown' /\ SlotsOldest'
    BY <1>1 DEF HistoryInv, SlotsKnown, SlotsOldest, OlderAccounted, Taken
  <1>4. NothingLost' /\ OldestFirst'
    BY <1>1 DEF HistoryInv, NothingLost, OldestFirst
  <1>. QED BY <1>2, <1>3, <1>4

LEMMA ChangeInv ==
  ASSUME HistoryInv, NEW n \in Runners, Change(n)
  PROVE  HistoryInv'
  <1>1. TypeOK'
    BY DEF HistoryInv, TypeOK, Change, hist
  <1>2. InRange'
    BY DEF HistoryInv, InRange, Change
  <1>. QED BY <1>1, <1>2, KeepsHistory DEF HistoryInv, Change, hist

LEMMA TimeoutInv ==
  ASSUME HistoryInv, Timeout
  PROVE  HistoryInv'
  <1>1. net' \in [on: BOOLEAN, count: 0..NetLimit+1]
    <2>1. net \in [on: BOOLEAN, count: 0..NetLimit+1] /\ NetLimit \in Nat
      BY HistoryStoreAssumption DEF HistoryInv, TypeOK
    <2>2. CASE net.count > NetLimit
      BY <2>1, <2>2 DEF Timeout
    <2>3. CASE ~(net.count > NetLimit)
      <3>1. net.count + 1 \in 0..NetLimit+1
        BY <2>1, <2>3
      <3>. QED BY <2>1, <2>3, <3>1 DEF Timeout
    <2>. QED BY <2>2, <2>3
  <1>2. TypeOK'
    BY <1>1 DEF HistoryInv, TypeOK, Timeout, hist
  <1>3. InRange'
    BY DEF HistoryInv, InRange, Timeout
  <1>. QED BY <1>2, <1>3, KeepsHistory DEF HistoryInv, Timeout, hist

LEMMA AlarmInv ==
  ASSUME HistoryInv, Alarm
  PROVE  HistoryInv'
  <1>1. TypeOK'
    BY DEF HistoryInv, TypeOK, Alarm, hist
  <1>2. InRange'
    BY DEF HistoryInv, InRange, Alarm
  <1>. QED BY <1>1, <1>2, KeepsHistory DEF HistoryInv, Alarm, hist

LEMMA AtLemma ==
  ASSUME NEW n \in 0..MaxNode
  PROVE  /\ At(n) \in {Idle} \cup [pc: {"node", "row"}, n: Node, i: 0..Copies-1]
         /\ At(n).pc # "row"
  BY HistoryStoreAssumption DEF At, Idle, Node

LEMMA BeginHistoryInv ==
  ASSUME HistoryInv, BeginHistory
  PROVE  HistoryInv'
  <1>1. saver' = At(0) \/ saver' = Idle
    BY DEF BeginHistory
  <1>2. saver' \in {Idle} \cup [pc: {"node", "row"}, n: Node, i: 0..Copies-1]
        /\ saver'.pc # "row"
    BY <1>1, AtLemma, HistoryStoreAssumption DEF Idle
  <1>3. TypeOK'
    BY <1>2 DEF HistoryInv, TypeOK, BeginHistory, hist
  <1>4. InRange'
    BY <1>2 DEF HistoryInv, InRange, BeginHistory
  <1>. QED BY <1>3, <1>4, KeepsHistory DEF HistoryInv, BeginHistory, hist

LEMMA TestNodeInv ==
  ASSUME HistoryInv, TestNode
  PROVE  HistoryInv'
  <1>1. saver \in [pc: {"node", "row"}, n: Node, i: 0..Copies-1]
    BY DEF HistoryInv, TypeOK, TestNode, Idle
  <1>2. saver.n + 1 \in 0..MaxNode
    BY <1>1, HistoryStoreAssumption DEF Node
  <1>3. /\ saver' \in {Idle} \cup [pc: {"node", "row"}, n: Node, i: 0..Copies-1]
        /\ saver'.pc = "row" => saver'.n \in Runners
    BY <1>1, <1>2, AtLemma DEF TestNode, HistoryInv, TypeOK
  <1>4. TypeOK'
    BY <1>3 DEF HistoryInv, TypeOK, TestNode, hist
  <1>5. InRange'
    BY <1>3 DEF HistoryInv, InRange, TestNode
  <1>. QED BY <1>4, <1>5, KeepsHistory DEF HistoryInv, TestNode, hist
-----------------------------------------------------------------------------
(* Commands: the server is idle before and not at a slot after, and slots  *)
(* can only be cleared.                                                    *)
LEMMA OverwrittenLemma ==
  ASSUME TypeOK, NEW slots, buf' = Overwritten(slots)
  PROVE  /\ buf' \in [Slots -> Row \cup {NoRow}]
         /\ \A k \in Slots : buf'[k] = buf[k] \/ buf'[k] = NoRow
  BY DEF TypeOK, Overwritten

LEMMA CommandKeeps ==
  ASSUME HistoryInv, srv = Idle, \A k \in Slots : ~Taken(k)',
         InHand' = {}, UNCHANGED <<rows, nrs, gone>>, host'.got = host.got,
         \A k \in Slots : buf'[k] = buf[k] \/ buf'[k] = NoRow
  PROVE  /\ InOrder' /\ Written' /\ SlotsKnown' /\ SlotsOldest'
         /\ NothingLost' /\ OldestFirst'
  <1>1. Accounted' = Accounted /\ Rows' = Rows /\ Received' = Received
    BY DEF Accounted, Received, Rows
  <1>2. InOrder' /\ Written'
    BY <1>1 DEF HistoryInv, InOrder, Written
  <1>3. SlotsKnown'
    <2>1. \A k \in Slots : ~Taken(k)
      BY DEF Taken, Idle
    <2>2. \A k \in Slots : buf[k] # NoRow => buf[k] \in Accounted
      BY <2>1 DEF HistoryInv, SlotsKnown
    <2>. QED BY <1>1, <2>2 DEF SlotsKnown
  <1>4. SlotsOldest'
    BY <1>1 DEF HistoryInv, SlotsOldest, OlderAccounted
  <1>5. NothingLost'
    <2>1. InHand = {}
      BY DEF InHand, Idle
    <2>. QED BY <1>1, <2>1 DEF HistoryInv, NothingLost
  <1>6. OldestFirst'
    BY <1>1 DEF HistoryInv, OldestFirst
  <1>. QED BY <1>2, <1>3, <1>4, <1>5, <1>6

LEMMA FrameNet ==
  ASSUME Frame
  PROVE  srv = Idle /\ net' \in [on: BOOLEAN, count: 0..NetLimit+1]
  BY HistoryStoreAssumption DEF Frame

LEMMA NotReading ==
  ASSUME srv'.pc # "read"
  PROVE  (\A k \in Slots : ~Taken(k)') /\ InHand' = {}
  BY DEF Taken, InHand

LEMMA StopOneInv ==
  ASSUME HistoryInv, NEW n \in Runners, StopOne(n)
  PROVE  HistoryInv'
  <1>1. srv = Idle /\ srv'.pc # "read" /\ UNCHANGED <<saver, rows, buf, host, hist>>
    BY DEF StopOne, Frame
  <1>2. TypeOK'
    BY FrameNet DEF HistoryInv, TypeOK, StopOne, hist
  <1>3. InRange'
    BY <1>1 DEF HistoryInv, InRange
  <1>. QED BY <1>1, <1>2, <1>3, NotReading, CommandKeeps DEF HistoryInv, hist

LEMMA StopAllInv ==
  ASSUME HistoryInv, StopAll
  PROVE  HistoryInv'
  <1>1. srv = Idle /\ srv'.pc # "read" /\ UNCHANGED <<saver, rows, buf, host, hist>>
    BY DEF StopAll, Frame, Idle
  <1>2. TypeOK'
    BY FrameNet DEF HistoryInv, TypeOK, StopAll, hist
  <1>3. InRange'
    BY <1>1 DEF HistoryInv, InRange
  <1>. QED BY <1>1, <1>2, <1>3, NotReading, CommandKeeps DEF HistoryInv, hist

LEMMA OtherCommandInv ==
  ASSUME HistoryInv, OtherCommand
  PROVE  HistoryInv'
  <1>1. /\ srv = Idle /\ srv'.pc # "read"
        /\ UNCHANGED <<running, minute, delete, saver, srv, rows, host, hist>>
    BY DEF OtherCommand, Frame, Idle
  <1>2. /\ buf' \in [Slots -> Row \cup {NoRow}]
        /\ \A k \in Slots : buf'[k] = buf[k] \/ buf'[k] = NoRow
    BY OverwrittenLemma DEF HistoryInv, OtherCommand
  <1>3. TypeOK'
    BY <1>1, <1>2, FrameNet DEF HistoryInv, TypeOK, OtherCommand, hist
  <1>4. InRange'
    BY <1>1 DEF HistoryInv, InRange
  <1>. QED BY <1>1, <1>2, <1>3, <1>4, NotReading, CommandKeeps DEF HistoryInv, hist

LEMMA QueryHistoryInv ==
  ASSUME HistoryInv, NEW mun \in 0..MaxNode, QueryHistory(mun)
  PROVE  HistoryInv'
  <1>1. /\ srv = Idle /\ srv'.pc # "read"
        /\ UNCHANGED <<running, minute, delete, saver, srv, rows, hist>>
    BY DEF QueryHistory, Frame, Idle
  <1>2. /\ buf' \in [Slots -> Row \cup {NoRow}]
        /\ \A k \in Slots : buf'[k] = buf[k] \/ buf'[k] = NoRow
    BY OverwrittenLemma DEF HistoryInv, QueryHistory
  <1>3. /\ host'.got = host.got
        /\ host' \in [got: SUBSET [to: 0..MaxNode, row: Row],
                       told: SUBSET (0..MaxNode)]
    BY DEF HistoryInv, TypeOK, QueryHistory
  <1>4. TypeOK'
    BY <1>1, <1>2, <1>3, FrameNet DEF HistoryInv, TypeOK, QueryHistory, hist
  <1>5. InRange'
    BY <1>1 DEF HistoryInv, InRange
  <1>. QED
    BY <1>1, <1>2, <1>3, <1>4, <1>5, NotReading, CommandKeeps DEF HistoryInv, hist

LEMMA ReadHistoryInv ==
  ASSUME HistoryInv, NEW mun \in 0..MaxNode, NEW sum \in Slots, ReadHistory(mun, sum)
  PROVE  HistoryInv'
  <1>. DEFINE request == [pc |-> "read", mun |-> mun, sum |-> sum, i |-> 0, cnt |-> 0]
  <1>1. /\ srv = Idle
        /\ UNCHANGED <<running, minute, delete, saver, rows, buf, host, hist>>
        /\ \/ srv' = Idle
           \/ srv' = request /\ ~(mun + sum > MaxNode)
    BY DEF ReadHistory, Frame
  <1>2. sum \in Nat /\ 0 < sum /\ MaxSum \in Nat /\ MaxNode \in Nat
    BY HistoryStoreAssumption DEF Slots
  <1>3. TypeOK'
    <2>1. request \in [pc: {"read"}, mun: 0..MaxNode, sum: Slots, i: 0..MaxSum,
                       cnt: 0..MaxSum]
      BY <1>2
    <2>. QED BY <1>1, <2>1, FrameNet DEF HistoryInv, TypeOK, ReadHistory, hist
  <1>4. InRange'
    BY <1>1, <1>2 DEF HistoryInv, InRange, Idle
  <1>5. (\A k \in Slots : ~Taken(k)') /\ InHand' = {}
    <2>1. CASE srv' = Idle
      BY <2>1, NotReading DEF Idle
    <2>2. CASE srv' = request
      BY <2>2 DEF Taken, InHand, Slots
    <2>. QED BY <1>1, <2>1, <2>2
  <1>. QED BY <1>1, <1>3, <1>4, <1>5, CommandKeeps DEF HistoryInv, hist
-----------------------------------------------------------------------------
(* A deletion moves all rows to the history variable gone.                 *)
LEMMA DeletionKeeps ==
  ASSUME HistoryInv, DeleteRows, UNCHANGED <<buf, losses, nrs>>,
         InHand' = InHand, \A k \in Slots : Taken(k)' = Taken(k),
         \A k \in Slots : Taken(k) => srv' = srv
  PROVE  /\ rows' \in Seq(Row) /\ gone' \subseteq Row
         /\ host' \in [got: SUBSET [to: 0..MaxNode, row: Row],
                        told: SUBSET (0..MaxNode)]
         /\ InOrder' /\ Written' /\ SlotsKnown' /\ SlotsOldest'
         /\ NothingLost' /\ OldestFirst'
  <1>1. Rows' = {} /\ DOMAIN rows' = {} /\ rows' \in Seq(Row)
    BY DEF DeleteRows, Rows, ToSet
  <1>2. gone' = gone \cup Rows /\ gone' \subseteq Row
    BY RowsAreRows DEF DeleteRows, HistoryInv, TypeOK
  <1>3. /\ host'.got = host.got
        /\ host' \in [got: SUBSET [to: 0..MaxNode, row: Row],
                       told: SUBSET (0..MaxNode)]
    BY DEF HistoryInv, TypeOK, DeleteRows
  <1>4. Received' = Received
    BY <1>3 DEF Received
  <1>5. Accounted' = Accounted \cup Rows
    BY <1>2, <1>4 DEF Accounted
  <1>6. InOrder' /\ Written'
    BY <1>1 DEF InOrder, Written
  <1>7. SlotsKnown'
    BY <1>5 DEF HistoryInv, SlotsKnown
  <1>8. SlotsOldest'
    BY <1>5 DEF HistoryInv, SlotsOldest, OlderAccounted
  <1>9. NothingLost' /\ OldestFirst'
    BY <1>1, <1>4, <1>5 DEF HistoryInv, NothingLost, OldestFirst
  <1>. QED BY <1>1, <1>2, <1>3, <1>6, <1>7, <1>8, <1>9

LEMMA ServerDeletesInv ==
  ASSUME HistoryInv, ServerDeletes
  PROVE  HistoryInv'
  <1>1. /\ srv.pc = "delete" /\ srv' = Idle /\ DeleteRows
        /\ UNCHANGED <<running, net, minute, delete, saver, buf, losses, nrs>>
    BY DEF ServerDeletes
  <1>2. InHand' = InHand /\ \A k \in Slots : ~Taken(k) /\ Taken(k)' = Taken(k)
    BY <1>1 DEF InHand, Taken, Idle
  <1>3. InRange'
    BY <1>1 DEF HistoryInv, InRange, Idle
  <1>4. TypeOK'
    BY <1>1, <1>2, DeletionKeeps DEF HistoryInv, TypeOK
  <1>. QED BY <1>1, <1>2, <1>3, <1>4, DeletionKeeps DEF HistoryInv

LEMMA DeleteDueInv ==
  ASSUME HistoryInv, DeleteDue
  PROVE  HistoryInv'
  <1>1. /\ saver = Idle /\ delete' = FALSE /\ DeleteRows
        /\ UNCHANGED <<running, net, minute, saver, srv, buf, losses, nrs>>
    BY DEF DeleteDue
  <1>2. InHand' = InHand /\ \A k \in Slots : Taken(k)' = Taken(k)
    BY <1>1 DEF InHand, Taken
  <1>3. InRange'
    BY <1>1 DEF HistoryInv, InRange
  <1>4. TypeOK'
    BY <1>1, <1>2, DeletionKeeps DEF HistoryInv, TypeOK
  <1>. QED BY <1>1, <1>2, <1>3, <1>4, DeletionKeeps DEF HistoryInv
-----------------------------------------------------------------------------
(* A new row is the newest of its node.                                    *)
LEMMA InsertRowInv ==
  ASSUME HistoryInv, InsertRow
  PROVE  HistoryInv'
  <1>. DEFINE new == [of |-> saver.n, nr |-> nrs[saver.n] + 1]
  <1>1. /\ saver \in [pc: {"node", "row"}, n: Node, i: 0..Copies-1]
        /\ saver.n \in Runners /\ saver.n \in Node
    BY DEF HistoryInv, TypeOK, InRange, InsertRow, Idle
  <1>2. /\ nrs \in [Node -> Nat] /\ nrs' = [nrs EXCEPT ![saver.n] = @ + 1]
        /\ rows' = Append(rows, new) /\ rows \in Seq(Row)
        /\ UNCHANGED <<running, net, minute, delete, srv, buf, host, losses, gone>>
    BY DEF HistoryInv, TypeOK, InsertRow
  <1>3. /\ new \in Row /\ new.of = saver.n /\ new.nr = nrs[saver.n] + 1
        /\ nrs' \in [Node -> Nat]
    BY <1>1, <1>2 DEF Row
  <1>. HIDE DEF new
  <1>4. rows' \in Seq(Row) /\ Rows' = Rows \cup {new}
    BY <1>2, <1>3, AppendLemma, AppendSet DEF Rows
  <1>5. saver' \in {Idle} \cup [pc: {"node", "row"}, n: Node, i: 0..Copies-1]
        /\ (saver'.pc = "row" => saver'.n \in Runners)
    <2>1. CASE saver.i + 1 < Copies
      <3>1. saver.i + 1 \in 0..Copies-1
        BY <1>1, <2>1, HistoryStoreAssumption
      <3>. QED BY <1>1, <2>1, <3>1 DEF InsertRow
    <2>2. CASE ~(saver.i + 1 < Copies)
      <3>1. saver.n + 1 \in 0..MaxNode
        BY <1>1, HistoryStoreAssumption DEF Node
      <3>. QED BY <2>2, <3>1, AtLemma DEF InsertRow
    <2>. QED BY <2>1, <2>2
  <1>6. TypeOK'
    BY <1>2, <1>3, <1>4, <1>5 DEF HistoryInv, TypeOK
  <1>7. Accounted' = Accounted /\ Received' = Received /\ InHand' = InHand
    BY <1>2 DEF Accounted, Received, InHand
  <1>8. Written'
    <2>. SUFFICES ASSUME NEW row \in Rows' PROVE row.nr <= nrs'[row.of]
      BY DEF Written
    <2>1. CASE row = new
      BY <1>1, <1>2, <1>3, <2>1
    <2>2. CASE row \in Rows
      <3>1. row \in Row /\ row.nr <= nrs[row.of]
        BY <2>2, RowsAreRows DEF HistoryInv, Written
      <3>. QED BY <1>1, <1>2, <3>1, RowLemma
    <2>. QED BY <1>4, <2>1, <2>2
  <1>9. InOrder'
    <2>. SUFFICES ASSUME NEW a \in DOMAIN rows', NEW b \in DOMAIN rows', a < b,
                         rows'[a].of = rows'[b].of
                  PROVE  rows'[a].nr < rows'[b].nr
      BY DEF InOrder
    <2>1. /\ DOMAIN rows' = 1..Len(rows)+1 /\ DOMAIN rows = 1..Len(rows)
          /\ Len(rows) \in Nat
          /\ \A i \in 1..Len(rows)+1 :
               rows'[i] = IF i <= Len(rows) THEN rows[i] ELSE new
      BY <1>2, <1>3, AppendLemma
    <2>2. a \in DOMAIN rows /\ rows'[a] = rows[a]
      BY <2>1
    <2>3. CASE b <= Len(rows)
      BY <2>1, <2>2, <2>3 DEF HistoryInv, InOrder
    <2>4. CASE ~(b <= Len(rows))
      <3>1. rows'[b] = new
        BY <2>1, <2>4
      <3>2. rows[a] \in Row /\ rows[a].nr <= nrs[rows[a].of]
        BY <2>2, RowsAreRows DEF HistoryInv, Written
      <3>3. rows[a].of = saver.n
        BY <1>3, <2>2, <3>1
      <3>. QED BY <1>1, <1>2, <1>3, <2>2, <3>1, <3>2, <3>3, RowLemma
    <2>. QED BY <2>3, <2>4
  <1>10. SlotsKnown' /\ SlotsOldest'
    BY <1>2, <1>7 DEF HistoryInv, SlotsKnown, SlotsOldest, OlderAccounted, Taken
  <1>11. NothingLost'
    <2>. SUFFICES ASSUME NEW n \in Node, NEW k \in 1..nrs'[n]
                  PROVE  [of |-> n, nr |-> k] \in Rows' \cup InHand' \cup Accounted'
      BY DEF NothingLost
    <2>1. CASE k \in 1..nrs[n]
      BY <1>4, <1>7, <2>1 DEF HistoryInv, NothingLost
    <2>2. CASE k \notin 1..nrs[n]
      <3>1. n = saver.n /\ k = nrs[n] + 1
        BY <1>1, <1>2, <2>2
      <3>2. [of |-> n, nr |-> k] = new
        BY <3>1 DEF new
      <3>. QED BY <1>4, <3>2
    <2>. QED BY <2>1, <2>2
  <1>12. InRange' /\ OldestFirst'
    BY <1>2, <1>5, <1>7 DEF HistoryInv, InRange, OldestFirst
  <1>. QED BY <1>6, <1>8, <1>9, <1>10, <1>11, <1>12 DEF HistoryInv
-----------------------------------------------------------------------------
(* The server comes to the next slot.                                      *)
LEMMA ReadStep ==
  ASSUME HistoryInv, read_hisdata_fun
  PROVE  /\ srv.pc = "read" /\ srv.i \in 0..MaxSum /\ srv.i + 1 \in Slots
         /\ srv.mun + srv.i \in Node /\ srv.sum \in Slots
         /\ srv' \in [pc: {"read"}, mun: 0..MaxNode, sum: Slots, i: 0..MaxSum,
                      cnt: 0..MaxSum]
         /\ srv'.mun = srv.mun /\ srv'.sum = srv.sum /\ srv'.i = srv.i + 1
         /\ srv'.cnt \in {srv.cnt, srv.cnt + 1}
         /\ InRange'
         /\ Accounted' = Accounted /\ Received' = Received
         /\ host' \in [got: SUBSET [to: 0..MaxNode, row: Row],
                        told: SUBSET (0..MaxNode)]
  <1>1. /\ srv.pc = "read" /\ srv.i < srv.sum
        /\ UNCHANGED <<running, net, minute, delete, saver, hist>>
        /\ \/ srv' = [srv EXCEPT !.i = @ + 1]
           \/ srv' = [srv EXCEPT !.i = @ + 1, !.cnt = @ + 1]
    BY DEF read_hisdata_fun
  <1>2. /\ srv \in [pc: {"read"}, mun: 0..MaxNode, sum: Slots, i: 0..MaxSum,
                    cnt: 0..MaxSum]
        /\ srv.mun \in 0..MaxNode /\ srv.sum \in 1..MaxSum
        /\ srv.i \in 0..MaxSum /\ srv.cnt \in 0..MaxSum
    BY <1>1, ReadFields DEF HistoryInv
  <1>3. srv.cnt <= srv.i /\ srv.mun + srv.sum <= MaxNode
    BY <1>1 DEF HistoryInv, InRange
  <1>4. /\ srv.i + 1 \in Slots /\ srv.mun + srv.i \in Node /\ srv.sum \in Slots
        /\ srv.i + 1 \in 0..MaxSum /\ srv.cnt + 1 \in 0..MaxSum
    BY <1>1, <1>2, <1>3, HistoryStoreAssumption DEF Slots, Node
  <1>5. /\ srv'.mun = srv.mun /\ srv'.sum = srv.sum /\ srv'.i = srv.i + 1
        /\ srv'.cnt \in {srv.cnt, srv.cnt + 1}
        /\ srv' \in [pc: {"read"}, mun: 0..MaxNode, sum: Slots, i: 0..MaxSum,
                     cnt: 0..MaxSum]
    BY <1>1, <1>2, <1>4
  <1>6. InRange'
    BY <1>1, <1>2, <1>3, <1>5 DEF HistoryInv, InRange
  <1>7. /\ host'.got = host.got /\ gone' = gone
        /\ host' \in [got: SUBSET [to: 0..MaxNode, row: Row],
                       told: SUBSET (0..MaxNode)]
    BY DEF HistoryInv, TypeOK, read_hisdata_fun, hist
  <1>8. Accounted' = Accounted /\ Received' = Received
    BY <1>7 DEF Accounted, Received
  <1>. QED BY <1>1, <1>2, <1>4, <1>5, <1>6, <1>7, <1>8

LEMMA NoRowInv ==
  ASSUME HistoryInv, read_hisdata_fun, FirstRow(srv.mun + srv.i) = 0
  PROVE  HistoryInv'
  <1>1. UNCHANGED <<running, net, minute, delete, saver, rows, buf, hist>>
        /\ srv' = [srv EXCEPT !.i = @ + 1]
    BY DEF read_hisdata_fun
  <1>2. Rows' = Rows
    BY <1>1 DEF Rows
  <1>3. TypeOK'
    BY <1>1, ReadStep DEF HistoryInv, TypeOK, hist
  <1>4. InOrder' /\ Written'
    BY <1>1, <1>2 DEF HistoryInv, InOrder, Written, hist
  <1>5. srv'.cnt = srv.cnt /\ srv'.pc = "read"
    BY <1>1, ReadFields, ReadStep DEF HistoryInv
  <1>6. SlotsKnown'
    BY <1>1, <1>5, ReadStep DEF HistoryInv, SlotsKnown, Taken, Slots
  <1>7. SlotsOldest'
    BY <1>1, ReadStep DEF HistoryInv, SlotsOldest, OlderAccounted
  <1>8. InHand \subseteq InHand'
    BY <1>1, <1>5, ReadStep DEF InHand
  <1>9. NothingLost' /\ OldestFirst'
    BY <1>1, <1>2, <1>8, ReadStep DEF HistoryInv, NothingLost, OldestFirst, hist
  <1>. QED BY <1>3, <1>4, <1>6, <1>7, <1>9, ReadStep DEF HistoryInv

(* The first row of the node goes to its slot: all older ones have been    *)
(* dealt with, since none is before it and none lies in another slot.      *)
LEMMA RowReadInv ==
  ASSUME HistoryInv, read_hisdata_fun, FirstRow(srv.mun + srv.i) # 0
  PROVE  HistoryInv'
  <1>. DEFINE mun == srv.mun + srv.i
             k == FirstRow(mun)
             row == rows[k]
             s == srv.i + 1
  <1>1. /\ UNCHANGED <<running, net, minute, delete, saver, hist>>
        /\ srv' = [srv EXCEPT !.i = @ + 1, !.cnt = @ + 1]
        /\ buf' = [buf EXCEPT ![s] = row]
        /\ rows' = RemoveAt(rows, k)
    BY DEF read_hisdata_fun
  <1>2. mun \in Int /\ mun \in Node /\ s \in Slots /\ s \in Nat /\ srv.pc = "read"
    BY ReadStep DEF Node, Slots
  <1>3. rows \in Seq(Row) /\ buf \in [Slots -> Row \cup {NoRow}]
    BY DEF HistoryInv, TypeOK
  <1>4. /\ k \in DOMAIN rows /\ X(row) = mun
        /\ \A a \in DOMAIN rows : X(rows[a]) = mun => k <= a
    BY <1>2, <1>3, FirstRowLemma
  <1>. HIDE DEF k
  <1>5. row \in Row /\ row \in Rows
    BY <1>4, RowsAreRows DEF HistoryInv
  <1>. HIDE DEF mun, row, s
  <1>6. rows' \in Seq(Row)
    BY <1>1, <1>3, <1>4, RemoveAtLemma
  <1>7. Rows' \subseteq Rows /\ Rows \subseteq Rows' \cup {row}
    BY <1>1, <1>3, <1>4, RemoveAtSet DEF Rows, row
  <1>8. /\ buf' \in [Slots -> Row \cup {NoRow}] /\ buf'[s] = row
        /\ \A j \in Slots : j # s => buf'[j] = buf[j]
    BY <1>1, <1>2, <1>3, <1>5
  <1>9. srv'.cnt = srv.cnt + 1 /\ srv'.pc = "read" /\ srv.cnt \in 0..MaxSum
    BY <1>1, ReadFields, ReadStep DEF HistoryInv
  <1>10. /\ srv'.i = s /\ srv'.mun = srv.mun /\ srv.i \in Nat /\ s = srv.i + 1
         /\ mun = srv.mun + s - 1 /\ srv.mun \in Nat
    BY ReadStep, ReadFields DEF s, mun, HistoryInv
  <1>11. TypeOK'
    BY <1>1, <1>6, <1>8, ReadStep DEF HistoryInv, TypeOK, hist
  <1>12. Written'
    BY <1>1, <1>7 DEF HistoryInv, Written, hist
  <1>13. InOrder'
    <2>1. Len(rows) \in Nat /\ DOMAIN rows = 1..Len(rows) /\ k \in 1..Len(rows)
      BY <1>3, <1>4
    <2>2. DOMAIN rows' = 1..Len(rows)-1
          /\ \A i \in 1..Len(rows)-1 :
               rows'[i] = IF i < k THEN rows[i] ELSE rows[i+1]
      <3>1. Len(rows') = Len(rows) - 1 /\ DOMAIN rows' = 1..Len(rows')
        BY <1>1, <1>3, <1>4, <1>6, RemoveAtLemma
      <3>2. \A i \in 1..Len(rows)-1 :
               rows'[i] = IF i < k THEN rows[i] ELSE rows[i+1]
        BY <1>1, <1>3, <1>4, RemoveAtLemma
      <3>. QED BY <3>1, <3>2
    <2>. SUFFICES ASSUME NEW a \in DOMAIN rows', NEW b \in DOMAIN rows', a < b,
                         rows'[a].of = rows'[b].of
                  PROVE  rows'[a].nr < rows'[b].nr
      BY DEF InOrder
    <2>. DEFINE from(i) == IF i < k THEN i ELSE i+1
    <2>3. /\ from(a) \in DOMAIN rows /\ from(b) \in DOMAIN rows /\ from(a) < from(b)
          /\ rows'[a] = rows[from(a)] /\ rows'[b] = rows[from(b)]
      BY <2>1, <2>2
    <2>. HIDE DEF from
    <2>. QED BY <2>3 DEF HistoryInv, InOrder
  <1>14. SlotsKnown'
    <2>. SUFFICES ASSUME NEW j \in Slots, buf'[j] # NoRow, buf'[j] \notin Accounted'
                  PROVE  Taken(j)' /\ X(buf'[j]) = srv'.mun + j - 1 /\ srv'.cnt > 0
      BY DEF SlotsKnown, X
    <2>1. srv'.cnt > 0
      BY <1>9
    <2>2. CASE j = s
      BY <1>4, <1>8, <1>9, <1>10, <2>1, <2>2 DEF Taken, Slots, row
    <2>3. CASE j # s
      <3>1. buf'[j] = buf[j] /\ buf[j] \notin Accounted
        BY <1>8, <2>3, ReadStep
      <3>2. Taken(j) /\ X(buf[j]) = srv.mun + j - 1
        BY <3>1 DEF HistoryInv, SlotsKnown
      <3>3. Taken(j)'
        BY <1>9, <1>10, <3>2 DEF Taken, Slots
      <3>. QED BY <1>10, <2>1, <3>1, <3>2, <3>3
    <2>. QED BY <2>2, <2>3
  <1>15. \A x \in InHand : x \in InHand' \cup Accounted \cup {NoRow}
    <2>. SUFFICES ASSUME NEW j \in 1..srv.i, buf[j] # NoRow, buf[j] \notin Accounted
                  PROVE  buf[j] \in InHand'
      BY <1>2 DEF InHand
    <2>1. j \in Slots /\ j # s /\ j \in 1..srv'.i
      BY <1>2, <1>10, HistoryStoreAssumption DEF Slots
    <2>. QED BY <1>8, <1>9, <2>1 DEF InHand
  <1>16. row \in InHand'
    <2>1. s \in 1..srv'.i
      BY <1>2, <1>10 DEF Slots
    <2>. QED BY <1>8, <1>9, <2>1 DEF InHand
  <1>17. OlderAccounted(row)
    <2>. SUFFICES ASSUME NEW j \in 1..row.nr-1
                  PROVE  [row EXCEPT !.nr = j] \in Accounted
      BY DEF OlderAccounted
    <2>. DEFINE old == [of |-> row.of, nr |-> j]
    <2>1. [row EXCEPT !.nr = j] = old /\ row.nr \in Nat /\ row.of \in Node
      BY <1>5, RowLemma
    <2>2. row.nr <= nrs[row.of] /\ nrs[row.of] \in Nat
      BY <1>5, <2>1 DEF HistoryInv, Written, TypeOK
    <2>3. old \in Rows \cup InHand \cup Accounted
      BY <2>1, <2>2 DEF HistoryInv, NothingLost
    <2>4. old # NoRow /\ X(old) = mun
      BY <1>4, <2>1, HistoryStoreAssumption DEF NoRow, X, row, Node
    <2>5. CASE old \in Rows
      <3>1. PICK a \in DOMAIN rows : old = rows[a]
        BY <2>5, RowsAreRows DEF HistoryInv
      <3>2. k <= a
        BY <1>4, <2>4, <3>1
      <3>3. a # k
        BY <2>1, <3>1 DEF row
      <3>4. k < a
        BY <1>3, <1>4, <3>2, <3>3
      <3>5. rows[k].nr < rows[a].nr
        BY <1>4, <3>1, <3>4 DEF HistoryInv, InOrder, row
      <3>. QED BY <2>1, <3>1, <3>5 DEF row
    <2>6. CASE old \in InHand /\ old \notin Accounted
      <3>1. PICK h \in 1..srv.i : old = buf[h]
        BY <1>2, <2>6 DEF InHand
      <3>2. h \in Slots
        BY <1>2, <1>10, HistoryStoreAssumption DEF Slots
      <3>3. X(buf[h]) = srv.mun + h - 1
        BY <2>4, <2>6, <3>1, <3>2 DEF HistoryInv, SlotsKnown
      <3>. QED BY <1>10, <2>4, <3>1, <3>3
    <2>. QED BY <2>1, <2>3, <2>5, <2>6
  <1>18. SlotsOldest'
    <2>. SUFFICES ASSUME NEW j \in Slots, buf'[j] # NoRow, NEW i \in 1..buf'[j].nr-1
                  PROVE  [buf'[j] EXCEPT !.nr = i] \in Accounted'
      BY DEF SlotsOldest, OlderAccounted
    <2>1. OlderAccounted(buf'[j])
      BY <1>8, <1>17 DEF HistoryInv, SlotsOldest
    <2>. QED BY <2>1, ReadStep DEF OlderAccounted
  <1>19. NothingLost'
    <2>. SUFFICES ASSUME NEW n \in Node, NEW j \in 1..nrs[n]
                  PROVE  [of |-> n, nr |-> j] \in Rows' \cup InHand' \cup Accounted'
      BY <1>1 DEF NothingLost, hist
    <2>1. [of |-> n, nr |-> j] \in Rows \cup InHand \cup Accounted
      BY DEF HistoryInv, NothingLost
    <2>2. [of |-> n, nr |-> j] # NoRow
      BY DEF NoRow, Node
    <2>. QED BY <1>7, <1>15, <1>16, <2>1, <2>2, ReadStep
  <1>20. OldestFirst'
    BY ReadStep DEF HistoryInv, OldestFirst
  <1>. QED
    BY <1>11, <1>12, <1>13, <1>14, <1>18, <1>19, <1>20, ReadStep DEF HistoryInv
-----------------------------------------------------------------------------
(* A reply carries all that is in hand to the host, unless it is lost.     *)
LEMMA ReplyLemma ==
  ASSUME HistoryInv, srv.pc = "read", srv.i = srv.sum
  PROVE  /\ Reply(SlotsSent) \subseteq [to: 0..MaxNode, row: Row]
         /\ \A r \in Reply(SlotsSent) : OlderAccounted(r.row)
         /\ \A k \in Slots : buf[k] # NoRow /\ buf[k] \notin Accounted =>
              [to |-> X(buf[k]), row |-> buf[k]] \in Reply(SlotsSent)
  <1>1. /\ srv.mun \in 0..MaxNode /\ srv.sum \in 1..MaxSum /\ MaxNode \in Nat
        /\ MaxSum \in Nat /\ srv.cnt \in Nat /\ srv.mun + srv.sum <= MaxNode
    BY ReadFields, HistoryStoreAssumption DEF HistoryInv, InRange
  <1>2. SlotsSent \in 0..srv.sum /\ (srv.cnt > 0 => SlotsSent = srv.sum)
    BY <1>1 DEF SlotsSent
  <1>3. \A k \in 1..SlotsSent : k \in Slots /\ srv.mun + k - 1 \in 0..MaxNode
    BY <1>1, <1>2 DEF Slots
  <1>4. Reply(SlotsSent) \subseteq [to: 0..MaxNode, row: Row]
    BY <1>3 DEF Reply, HistoryInv, TypeOK
  <1>5. \A r \in Reply(SlotsSent) : OlderAccounted(r.row)
    BY <1>3 DEF Reply, HistoryInv, SlotsOldest
  <1>6. ASSUME NEW k \in Slots, buf[k] # NoRow, buf[k] \notin Accounted
        PROVE  [to |-> X(buf[k]), row |-> buf[k]] \in Reply(SlotsSent)
    <2>1. Taken(k) /\ X(buf[k]) = srv.mun + k - 1 /\ srv.cnt > 0
      BY <1>6 DEF HistoryInv, SlotsKnown
    <2>2. k \in 1..SlotsSent
      BY <1>1, <1>2, <2>1 DEF Taken, Slots
    <2>. QED BY <1>6, <2>1, <2>2 DEF Reply
  <1>. QED BY <1>4, <1>5, <1>6

LEMMA SentInv ==
  ASSUME HistoryInv, Sent,
         \/ /\ host' = [host EXCEPT !.got = @ \cup Reply(SlotsSent)]
            /\ UNCHANGED <<losses, gone>>
         \/ /\ losses' \in 0..MaxLosses
            /\ gone' = gone \cup {r.row : r \in Reply(SlotsSent)}
            /\ UNCHANGED host
  PROVE  HistoryInv'
  <1>1. /\ srv.pc = "read" /\ srv.i = srv.sum /\ srv' = Idle
        /\ buf' = Overwritten({SlotsSent + 1})
        /\ UNCHANGED <<running, net, minute, delete, saver, rows, nrs>>
    BY DEF Sent
  <1>2. /\ host' \in [got: SUBSET [to: 0..MaxNode, row: Row],
                       told: SUBSET (0..MaxNode)]
        /\ losses' \in 0..MaxLosses /\ gone' \subseteq Row
    <2>1. Reply(SlotsSent) \subseteq [to: 0..MaxNode, row: Row]
          /\ {r.row : r \in Reply(SlotsSent)} \subseteq Row
      BY <1>1, ReplyLemma
    <2>. QED BY <2>1 DEF HistoryInv, TypeOK
  <1>3. /\ buf' \in [Slots -> Row \cup {NoRow}]
        /\ \A k \in Slots : buf'[k] = buf[k] \/ buf'[k] = NoRow
    BY <1>1, OverwrittenLemma DEF HistoryInv
  <1>4. host.got \subseteq host'.got /\ gone \subseteq gone'
    BY DEF HistoryInv, TypeOK
  <1>5. Accounted \subseteq Accounted'
    BY <1>4, AccountedGrows
  <1>6. \A k \in Slots : buf[k] # NoRow => buf[k] \in Accounted'
    <2>. SUFFICES ASSUME NEW k \in Slots, buf[k] # NoRow, buf[k] \notin Accounted
                  PROVE  buf[k] \in Accounted'
      BY <1>5
    <2>. DEFINE r == [to |-> X(buf[k]), row |-> buf[k]]
    <2>1. r \in Reply(SlotsSent) /\ r.row = buf[k]
      BY <1>1, ReplyLemma
    <2>2. r \in host'.got \/ r.row \in gone'
      BY <2>1 DEF HistoryInv, TypeOK
    <2>3. ASSUME r \in host'.got PROVE buf[k] \in Received'
      BY <2>1, <2>3 DEF Received
    <2>. QED BY <2>1, <2>2, <2>3 DEF Accounted
  <1>7. \A row \in Received' : row \in Received \/ OlderAccounted(row)
    <2>. SUFFICES ASSUME NEW row \in Received'
                  PROVE  row \in Received \/ OlderAccounted(row)
      OBVIOUS
    <2>. DEFINE r == [to |-> X(row), row |-> row]
    <2>1. r \in host'.got /\ r.row = row
      BY DEF Received, X
    <2>2. r \in host.got \/ r \in Reply(SlotsSent)
      BY <2>1 DEF HistoryInv, TypeOK
    <2>3. CASE r \in host.got
      BY <2>1, <2>3 DEF Received
    <2>4. CASE r \in Reply(SlotsSent)
      BY <1>1, <2>1, <2>4, ReplyLemma
    <2>. QED BY <2>2, <2>3, <2>4
  <1>8. TypeOK'
    BY <1>1, <1>2, <1>3 DEF HistoryInv, TypeOK
  <1>9. Rows' = Rows /\ srv'.pc # "read"
    BY <1>1 DEF Rows, Idle
  <1>10. InOrder' /\ Written' /\ InRange'
    BY <1>1, <1>9 DEF HistoryInv, InOrder, Written, InRange
  <1>11. SlotsKnown'
    BY <1>3, <1>6 DEF SlotsKnown
  <1>12. SlotsOldest'
    BY <1>3, <1>5 DEF HistoryInv, SlotsOldest, OlderAccounted
  <1>13. NothingLost'
    <2>. SUFFICES ASSUME NEW n \in Node, NEW j \in 1..nrs[n]
                  PROVE  [of |-> n, nr |-> j] \in Rows' \cup Accounted'
      BY <1>1 DEF NothingLost
    <2>1. [of |-> n, nr |-> j] \in Rows \cup InHand \cup Accounted
      BY DEF HistoryInv, NothingLost
    <2>2. [of |-> n, nr |-> j] # NoRow
      BY DEF NoRow, Node
    <2>3. CASE [of |-> n, nr |-> j] \in InHand
      <3>1. PICK k \in 1..srv.i : [of |-> n, nr |-> j] = buf[k]
        BY <1>1, <2>3 DEF InHand
      <3>2. k \in Slots
        BY <1>1, ReadFields, HistoryStoreAssumption DEF HistoryInv, Slots
      <3>. QED BY <1>6, <2>2, <3>1, <3>2
    <2>. QED BY <1>5, <1>9, <2>1, <2>3
  <1>14. OldestFirst'
    <2>1. \A row \in Received' : OlderAccounted(row)
      BY <1>7 DEF HistoryInv, OldestFirst, OlderAccounted
    <2>. QED BY <1>5, <2>1 DEF OldestFirst, OlderAccounted
  <1>. QED BY <1>8, <1>10, <1>11, <1>12, <1>13, <1>14 DEF HistoryInv

LEMMA AnswerInv ==
  ASSUME HistoryInv, Answer \/ LoseAnswer
  PROVE  HistoryInv'
  <1>1. losses > 0 => losses - 1 \in 0..MaxLosses
    BY HistoryStoreAssumption DEF HistoryInv, TypeOK
  <1>. QED BY <1>1, SentInv DEF Answer, LoseAnswer
-----------------------------------------------------------------------------
LEMMA NextInv ==
  ASSUME HistoryInv, [Next]_vars
  PROVE  HistoryInv'
  <1>1. CASE Server
    <2>1. ASSUME NEW n \in Runners, StopOne(n) PROVE HistoryInv'
      BY <2>1, StopOneInv
    <2>2. ASSUME NEW mun \in 0..MaxNode, QueryHistory(mun) PROVE HistoryInv'
      BY <2>2, QueryHistoryInv
    <2>3. ASSUME NEW mun \in 0..MaxNode, NEW sum \in Slots, ReadHistory(mun, sum)
          PROVE  HistoryInv'
      BY <2>3, ReadHistoryInv
    <2>4. ASSUME read_hisdata_fun PROVE HistoryInv'
      BY <2>4, NoRowInv, RowReadInv
    <2>. QED BY <1>1, <2>1, <2>2, <2>3, <2>4, StopAllInv, ServerDeletesInv,
                OtherCommandInv, TimeoutInv, AnswerInv DEF Server
  <1>2. CASE SaveThread
    BY <1>2, BeginHistoryInv, TestNodeInv, InsertRowInv, DeleteDueInv DEF SaveThread
  <1>3. CASE Alarm
    BY <1>3, AlarmInv
  <1>4. ASSUME NEW n \in Runners, Change(n) PROVE HistoryInv'
    BY <1>4, ChangeInv
  <1>5. CASE UNCHANGED vars
    <2>1. /\ TypeOK' /\ InRange'
          /\ UNCHANGED <<srv, rows, buf, host, losses, nrs, gone>>
      BY <1>5 DEF HistoryInv, TypeOK, InRange, vars, hist
    <2>. QED BY <2>1, KeepsHistory DEF HistoryInv
  <1>. QED BY <1>1, <1>2, <1>3, <1>4, <1>5 DEF Next

LEMMA Invariant == Spec => []HistoryInv
  BY InitInv, NextInv, PTL DEF Spec

(* Every variable keeps its type: no slot, no row and no request leaves    *)
(* the range the code gives it, whatever the host asks for.                *)
THEOREM TypeCorrect == Spec => []TypeOK
  <1>1. HistoryInv => TypeOK
    BY DEF HistoryInv
  <1>. QED BY <1>1, Invariant, PTL

(* A row that was written is in the database, in the reply being filled,   *)
(* with the host under its number, or it was deleted by a stop or lost     *)
(* with a reply: neither an empty node in the range nor a reply left over  *)
(* in the buffer nor the save thread makes a row vanish.                   *)
THEOREM Delivery == Spec => []NothingLost
  <1>1. HistoryInv => NothingLost
    BY DEF HistoryInv
  <1>. QED BY <1>1, Invariant, PTL

(* When the host has a row of a node, no older row of that node is still   *)
(* to come.                                                                *)
THEOREM OldestIsFirst == Spec => []OldestFirst
  <1>1. HistoryInv => OldestFirst
    BY DEF HistoryInv
  <1>. QED BY <1>1, Invariant, PTL
-----------------------------------------------------------------------------
(* A row that is read belongs to the number that is read: the rows of any  *)
(* other number stay.                                                      *)
LEMMA ReadStatus ==
  ASSUME TypeOK, StatusTrue, read_hisdata_fun
  PROVE  StatusTrue'
  <1>. DEFINE mun == srv.mun + srv.i
              k   == FirstRow(mun)
  <1>1. mun \in Int
    BY ReadFields DEF read_hisdata_fun
  <1>2. host'.told = host.told \ {mun}
    BY DEF read_hisdata_fun, TypeOK
  <1>3. rows \in Seq(Row)
    BY DEF TypeOK
  <1>. SUFFICES ASSUME NEW m \in host.told, m # mun
                PROVE  \E row \in Rows' : X(row) = m
    BY <1>2 DEF StatusTrue, search_hisdata_fun
  <1>4. PICK row \in Rows : X(row) = m
    BY DEF StatusTrue, search_hisdata_fun
  <1>5. CASE k = 0
    BY <1>4, <1>5 DEF read_hisdata_fun, Rows
  <1>6. CASE k # 0
    <2>1. k \in DOMAIN rows /\ X(rows[k]) = mun
      BY <1>1, <1>3, <1>6, FirstRowLemma
    <2>2. rows' = RemoveAt(rows, k)
      BY <1>6 DEF read_hisdata_fun
    <2>. HIDE DEF k
    <2>3. ToSet(rows) \subseteq ToSet(rows') \cup {rows[k]}
      BY <1>3, <2>1, <2>2, RemoveAtSet
    <2>4. row # rows[k]
      BY <1>4, <2>1
    <2>. QED BY <1>4, <2>3, <2>4 DEF Rows
  <1>. QED BY <1>5, <1>6

(* Anything else either leaves what the host was told, and no row less, or *)
(* takes it back.                                                          *)
LEMMA ToldKept ==
  ASSUME StatusTrue, host'.told \subseteq host.told, Rows \subseteq Rows'
  PROVE  StatusTrue'
  BY DEF StatusTrue, search_hisdata_fun

LEMMA StatusStep == HistoryInv /\ StatusTrue /\ [Next]_vars => StatusTrue'
  <1>. SUFFICES ASSUME HistoryInv, StatusTrue, [Next]_vars PROVE StatusTrue'
    OBVIOUS
  <1>0. TypeOK
    BY DEF HistoryInv
  <1>1. CASE host' = host /\ rows' = rows
    BY <1>1, ToldKept DEF Rows
  <1>2. CASE DeleteRows
    <2>1. host'.told = {}
      BY <1>0, <1>2 DEF DeleteRows, TypeOK
    <2>. QED BY <2>1 DEF StatusTrue
  <1>3. ASSUME NEW mun \in 0..MaxNode, QueryHistory(mun)
        PROVE  StatusTrue'
    <2>1. host'.told = IF search_hisdata_fun(mun) THEN host.told \cup {mun}
                       ELSE host.told \ {mun}
      BY <1>0, <1>3 DEF QueryHistory, TypeOK
    <2>2. Rows' = Rows
      BY <1>3 DEF QueryHistory, Rows
    <2>. QED BY <2>1, <2>2 DEF StatusTrue, search_hisdata_fun
  <1>4. CASE Answer
    <2>1. host'.told = host.told /\ rows' = rows
      BY <1>0, <1>4 DEF Answer, Sent, TypeOK
    <2>. QED BY <2>1, ToldKept DEF Rows
  <1>5. CASE InsertRow
    <2>. DEFINE row == [of |-> saver.n, nr |-> nrs[saver.n] + 1]
    <2>1. saver.n \in Runners /\ rows' = Append(rows, row) /\ host' = host
      BY <1>5 DEF HistoryInv, InRange, InsertRow
    <2>2. rows \in Seq(Row) /\ row \in Row
      BY <1>0, <2>1, HistoryStoreAssumption, SMTT(40) DEF TypeOK, Row
    <2>. HIDE DEF row
    <2>3. Rows \subseteq Rows'
      BY <2>1, <2>2, AppendSet DEF Rows
    <2>. QED BY <2>1, <2>3, ToldKept
  <1>6. CASE read_hisdata_fun
    BY <1>0, <1>6, ReadStatus
  <1>7. ASSUME NEW n \in Runners, StopOne(n) \/ Change(n)
        PROVE  host' = host /\ rows' = rows
    BY <1>7 DEF StopOne, Change
  <1>8. StopAll \/ OtherCommand \/ Timeout \/ BeginHistory \/ TestNode \/ Alarm
          => host' = host /\ rows' = rows
    BY DEF StopAll, OtherCommand, Timeout, BeginHistory, TestNode, Alarm
  <1>9. /\ \A mun \in 0..MaxNode, sum \in Slots : ReadHistory(mun, sum)
             => host' = host /\ rows' = rows
        /\ LoseAnswer \/ UNCHANGED vars => host' = host /\ rows' = rows
    BY DEF ReadHistory, LoseAnswer, Sent, vars
  <1>10. ServerDeletes \/ DeleteDue => DeleteRows
    BY DEF ServerDeletes, DeleteDue
  <1>. QED BY <1>1, <1>2, <1>3, <1>4, <1>5, <1>6, <1>7, <1>8, <1>9, <1>10
              DEF Next, Server, SaveThread

(* A host that has been told that a number has rows finds one there until  *)
(* it reads it or a stop deletes it: neither the save thread nor a read of *)
(* another number takes it away (server.c:1018).                           *)
THEOREM StatusIsTrue == Spec => []StatusTrue
  <1>1. Init => StatusTrue
    BY DEF Init, StatusTrue
  <1>. QED BY <1>1, StatusStep, Invariant, PTL DEF Spec
=============================================================================
