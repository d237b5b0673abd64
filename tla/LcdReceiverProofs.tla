------------------------- MODULE LcdReceiverProofs -------------------------
(***************************************************************************)
(* Theorems about LcdReceiver, for any frames and any size of the ring     *)
(* buffer, and however many bytes are lost: the ring buffer is never       *)
(* filled to its last byte, no mixture of two frames is processed, and the *)
(* receiver thread implements LcdChannel.                                  *)
(***************************************************************************)
EXTENDS LcdReceiver, SequenceTheorems, WellFoundedInduction, TLAPS

(* The frame about to be stored is not an acknowledgement.                 *)
StoresContent == rev.pc = "store" => rev.frame \in Content

(* What has been copied is a frame or known to be torn; what is processed  *)
(* has passed the second test.                                             *)
CopyKnown ==
  /\ lcd.pc = "copied" => lcd.dgus_buf \in Content \cup {"torn"}
  /\ lcd.pc = "process" => lcd.dgus_buf \in Content

ReceiverInv == TypeOK /\ StoresContent /\ CopyKnown
-----------------------------------------------------------------------------
(* What is left when the first bytes are dropped.                          *)
LEMMA DropLemma ==
  ASSUME NEW S, NEW s \in Seq(S), NEW n \in Nat
  PROVE  /\ SubSeq(s, n + 1, Len(s)) \in Seq(S)
         /\ Len(SubSeq(s, n + 1, Len(s))) <= Len(s)
  <1>1. Len(s) \in Nat /\ \A i \in n+1..Len(s) : s[i] \in S
    OBVIOUS
  <1>. QED BY <1>1, SubSeqProperties

(* A ring buffer that has room still has after bytes are dropped.          *)
LEMMA DropKeepsRoom ==
  ASSUME TypeOK, NEW n \in Nat, Drop(n)
  PROVE  ring' \in Seq(Place) /\ Len(ring') < RingSize
  <1>1. ring \in Seq(Place) /\ Len(ring) < RingSize
    BY DEF TypeOK
  <1>2. ring' \in Seq(Place) /\ Len(ring') <= Len(ring)
    BY <1>1, DropLemma DEF Drop
  <1>. QED BY <1>1, <1>2, LcdReceiverAssumption

LEMMA BytesLemma ==
  ASSUME NEW f \in Frame
  PROVE  /\ Bytes(f) \in Seq(Place) /\ Len(Bytes(f)) = Length[f]
         /\ \A k \in 1..Length[f] : Bytes(f)[k] = [of |-> f, k |-> k]
  <1>1. Length[f] \in Nat
    BY LcdReceiverAssumption
  <1>2. \A k \in 1..Length[f] : [of |-> f, k |-> k] \in Place
    BY <1>1 DEF Place
  <1>. QED BY <1>1, <1>2 DEF Bytes

(* The smaller of two numbers.                                             *)
LEMMA MinOfTwo ==
  ASSUME NEW a \in Nat, NEW b \in Nat
  PROVE  Min({a, b}) \in Nat /\ Min({a, b}) <= a /\ Min({a, b}) <= b
  <1>1. \E x \in {a, b} : \A y \in {a, b} : x <= y
    OBVIOUS
  <1>. QED BY <1>1 DEF Min

(* The third byte of the ring names a frame of the screen, or the length   *)
(* is one the ring buffer cannot hold.                                     *)
LEMMA AnnouncedLemma ==
  ASSUME TypeOK, Len(ring) >= 7
  PROVE  Announced \in Frame \cup {"huge"}
  <1>1. ring[3] \in Place
    BY DEF TypeOK
  <1>. QED BY <1>1 DEF Announced, Place

LEMMA RemoveByte ==
  ASSUME NEW S, NEW s \in Seq(S), NEW k \in DOMAIN s
  PROVE  RemoveAt(s, k) \in Seq(S)
  <1>1. Len(s) \in Nat /\ k \in 1..Len(s)
    OBVIOUS
  <1>2. SubSeq(s, 1, k-1) \in Seq(S) /\ SubSeq(s, k+1, Len(s)) \in Seq(S)
    BY <1>1, SubSeqProperties
  <1>. QED BY <1>2, ConcatProperties DEF RemoveAt

(* What the LCD thread copies is a frame or torn.                          *)
LEMMA CopiedLemma == Copied \subseteq Content \cup {"torn"}
  BY DEF Copied
-----------------------------------------------------------------------------
LEMMA ReceiverInit == Init => ReceiverInv
  <1>. SUFFICES ASSUME Init PROVE ReceiverInv
    OBVIOUS
  <1>1. RingSize > 0
    BY LcdReceiverAssumption
  <1>2. TypeOK
    BY <1>1, LcdReceiverAssumption DEF Init, TypeOK
  <1>3. StoresContent /\ CopyKnown
    BY DEF Init, StoresContent, CopyKnown
  <1>. QED BY <1>2, <1>3 DEF ReceiverInv

LEMMA ReceiverStep == ReceiverInv /\ [Next]_vars => ReceiverInv'
  <1>. SUFFICES ASSUME ReceiverInv, [Next]_vars PROVE ReceiverInv'
    OBVIOUS
  <1>. USE DEF ReceiverInv
  <1>1. ASSUME NEW f \in Frame, Send(f) PROVE ReceiverInv'
    <2>1. line' \in Seq(Place)
      BY <1>1, BytesLemma, ConcatProperties DEF Send, TypeOK
    <2>. QED
      BY <1>1, <2>1
      DEF Send, receiver, mailbox, TypeOK, StoresContent, CopyKnown
  <1>2. CASE LoseByte
    <2>1. line' \in Seq(Place)
      BY <1>2, RemoveByte DEF LoseByte, TypeOK
    <2>2. noise' \in 0..MaxNoise
      BY <1>2, LcdReceiverAssumption DEF LoseByte, TypeOK
    <2>. QED
      BY <1>2, <2>1, <2>2
      DEF LoseByte, receiver, mailbox, TypeOK, StoresContent, CopyKnown
  <1>3. CASE Read
    <2>1. PICK n \in VMIN..Min({Len(line), RingSize}) :
            /\ ring' = ring \o SubSeq(line, 1, RoomLeft(n))
            /\ line' = SubSeq(line, n + 1, Len(line))
      BY <1>3 DEF Read
    <2>2. /\ Len(line) \in Nat /\ Len(ring) \in Nat /\ Len(ring) < RingSize
          /\ RingSize \in Nat
      BY LcdReceiverAssumption DEF TypeOK
    <2>3. n \in Nat /\ n <= Len(line)
      BY <2>1, <2>2, MinOfTwo DEF VMIN
    <2>4. /\ RoomLeft(n) \in Nat /\ RoomLeft(n) <= n
          /\ RoomLeft(n) <= RingSize - 1 - Len(ring)
      BY <2>2, <2>3, MinOfTwo DEF RoomLeft
    <2>5. /\ SubSeq(line, 1, RoomLeft(n)) \in Seq(Place)
          /\ Len(SubSeq(line, 1, RoomLeft(n))) = RoomLeft(n)
      <3>. HIDE DEF VMIN
      <3>1. \A i \in 1..RoomLeft(n) : line[i] \in Place
        BY <2>2, <2>3, <2>4 DEF TypeOK
      <3>. QED BY <3>1, <2>4, SubSeqProperties
    <2>6. ring' \in Seq(Place) /\ Len(ring') < RingSize
      BY <2>1, <2>2, <2>4, <2>5, ConcatProperties DEF TypeOK
    <2>7. line' \in Seq(Place)
      BY <2>1, <2>3, DropLemma DEF TypeOK
    <2>. QED
      BY <1>3, <2>6, <2>7 DEF Read, mailbox, TypeOK, StoresContent, CopyKnown
  <1>4. CASE PollEnds
    BY <1>4 DEF PollEnds, mailbox, TypeOK, StoresContent, CopyKnown
  <1>5. CASE PollSkipsByte
    <2>1. ring' \in Seq(Place) /\ Len(ring') < RingSize
      BY <1>5, DropKeepsRoom DEF PollSkipsByte
    <2>. QED
      BY <1>5, <2>1 DEF PollSkipsByte, mailbox, TypeOK, StoresContent, CopyKnown
  <1>6. CASE PollFindsAck
    <2>1. ring' \in Seq(Place) /\ Len(ring') < RingSize
      BY <1>6, DropKeepsRoom DEF PollFindsAck
    <2>. QED
      BY <1>6, <2>1 DEF PollFindsAck, mailbox, TypeOK, StoresContent, CopyKnown
  <1>7. CASE PollFindsFrame
    <2>1. Announced \in Content
      BY <1>7, AnnouncedLemma DEF PollFindsFrame, Complete, Content
    <2>. QED
      BY <1>7, <2>1 DEF PollFindsFrame, TypeOK, StoresContent, CopyKnown
  <1>8. CASE StoreFrame
    <2>1. rev.frame \in Content /\ Length[rev.frame] \in Nat
      BY <1>8, LcdReceiverAssumption DEF StoreFrame, StoresContent, Content
    <2>2. ring' \in Seq(Place) /\ Len(ring') < RingSize
      BY <1>8, <2>1, DropKeepsRoom DEF StoreFrame, TypeOK
    <2>3. lcd_rx_buf' \in Content \cup {"none"}
      BY <1>8, <2>1 DEF StoreFrame, TypeOK
    <2>. QED
      BY <1>8, <2>2, <2>3 DEF StoreFrame, TypeOK, StoresContent, CopyKnown
  <1>9. CASE PollWaits
    <2>1. ring' \in Seq(Place) /\ Len(ring') < RingSize
      <3>1. <<>> \in Seq(Place) /\ Len(<<>>) = 0 /\ RingSize > 0
        BY LcdReceiverAssumption
      <3>2. ring' = ring \/ ring' = <<>>
        BY <1>9 DEF PollWaits
      <3>. QED BY <3>1, <3>2 DEF TypeOK
    <2>2. data_err' \in 0..ErrLimit
      BY <1>9, LcdReceiverAssumption, SMTT(40) DEF PollWaits, TypeOK
    <2>. QED
      BY <1>9, <2>1, <2>2 DEF PollWaits, mailbox, TypeOK, StoresContent, CopyKnown
  <1>10. CASE Wake
    <2>1. lcd_rx_sem' \in Nat
      BY <1>10 DEF Wake, TypeOK
    <2>2. lcd' = lcd \/ \E f \in Content \cup {"torn"} : lcd' = [pc |-> "copied", dgus_buf |-> f]
      BY <1>10, CopiedLemma DEF Wake
    <2>. QED
      BY <1>10, <2>1, <2>2
      DEF Wake, receiver, mailbox, TypeOK, StoresContent, CopyKnown
  <1>11. CASE Empty
    BY <1>11 DEF Empty, receiver, TypeOK, StoresContent, CopyKnown
  <1>12. CASE Process
    BY <1>12 DEF Process, receiver, mailbox, TypeOK, StoresContent, CopyKnown
  <1>13. CASE Refresh
    BY <1>13 DEF Refresh, receiver, mailbox, TypeOK, StoresContent, CopyKnown
  <1>14. CASE UNCHANGED vars
    BY <1>14 DEF vars, receiver, mailbox, TypeOK, StoresContent, CopyKnown
  <1>. QED
    BY <1>1, <1>2, <1>3, <1>4, <1>5, <1>6, <1>7, <1>8, <1>9, <1>10, <1>11,
       <1>12, <1>13, <1>14
    DEF Next, SendAny, Poll, LcdThread

LEMMA Received == Spec => []ReceiverInv
  BY ReceiverInit, ReceiverStep, PTL DEF Spec

(* Every variable keeps its type; one place of the ring buffer always      *)
(* stays free, whatever the screen sends and when (the test of full,       *)
(* lcd.c:348-355).                                                         *)
THEOREM TypeCorrect == Spec => []TypeOK
  <1>1. ReceiverInv => TypeOK
    BY DEF ReceiverInv
  <1>. QED BY <1>1, Received, PTL

(* What the LCD thread processes is one whole frame the screen has sent,   *)
(* although the length it copies with is not the one of the frame in the   *)
(* buffer any more, and the receiver may write meanwhile: the second test  *)
(* of the check sum holds back all else.                                   *)
THEOREM WholeFrames == Spec => []WholeFramesOnly
  <1>1. ReceiverInv => WholeFramesOnly
    BY DEF ReceiverInv, CopyKnown, WholeFramesOnly
  <1>. QED BY <1>1, Received, PTL
-----------------------------------------------------------------------------
(* Every non-empty set of naturals has a least element.                    *)
LEMMA LeastElement ==
  ASSUME NEW S, S \subseteq Nat, S # {}
  PROVE  \E x \in S : \A y \in S : x <= y
  <1>. DEFINE Less == OpToRel(<, Nat)
  <1>1. IsWellFoundedOn(Less, Nat)
    BY NatLessThanWellFounded
  <1>2. ASSUME NEW x \in Nat, NEW y \in Nat, <<y, x>> \notin Less
        PROVE  x <= y
    <2>1. Less = {ss \in Nat \X Nat : ss[1] < ss[2]}
      BY Zenon DEF OpToRel
    <2>2. <<y, x>> \in Nat \X Nat /\ <<y, x>>[1] = y /\ <<y, x>>[2] = x
      OBVIOUS
    <2>3. ~(<<y, x>>[1] < <<y, x>>[2])
      BY <1>2, <2>1, <2>2, Zenon
    <2>. QED BY <2>2, <2>3
  <1>. HIDE DEF Less
  <1>3. PICK x \in S : \A y \in S : <<y, x>> \notin Less
    BY <1>1, WFMin
  <1>. QED BY <1>2, <1>3

(* The recursion that FirstFrames is.                                      *)
Firsts(bytes, g, n) ==
  IF n = 0 THEN <<>>
  ELSE IF bytes[n].k = 1 THEN Append(g[n-1], bytes[n].of) ELSE g[n-1]

LEMMA FirstsExist ==
  ASSUME NEW bytes, NEW m \in Nat
  PROVE  \E g : g = [n \in 0..m |-> Firsts(bytes, g, n)]
  <1>. DEFINE Missing == {l \in Nat : ~\E g : g = [n \in 0..l |-> Firsts(bytes, g, n)]}
  <1>1. SUFFICES ASSUME Missing # {} PROVE FALSE
    OBVIOUS
  <1>2. PICK l \in Missing : \A k \in Missing : l <= k
    BY <1>1, LeastElement
  <1>3. CASE l = 0
    <2>1. [n \in 0..0 |-> <<>>] = [n \in 0..0 |-> Firsts(bytes, [i \in 0..0 |-> <<>>], n)]
      BY DEF Firsts
    <2>. QED BY <1>2, <1>3, <2>1
  <1>4. CASE l # 0
    <2>1. l - 1 \in Nat /\ l - 1 \notin Missing
      BY <1>2, <1>4
    <2>2. PICK g : g = [n \in 0..l-1 |-> Firsts(bytes, g, n)]
      BY <2>1
    <2>. DEFINE h == [n \in 0..l |-> IF n < l THEN g[n] ELSE Firsts(bytes, g, n)]
    <2>3. \A n \in 0..l : Firsts(bytes, h, n) = Firsts(bytes, g, n)
      BY <1>2 DEF Firsts
    <2>4. \A n \in 0..l : h[n] = Firsts(bytes, h, n)
      BY <2>2, <2>3, <1>2, SMTT(40)
    <2>5. h = [n \in 0..l |-> Firsts(bytes, h, n)]
      <3>. HIDE DEF h
      <3>1. h = [n \in 0..l |-> h[n]]
        BY DEF h
      <3>. QED BY <2>4, <3>1
    <2>. QED BY <1>2, <2>5
  <1>. QED BY <1>3, <1>4

LEMMA FirstsDefined ==
  ASSUME NEW bytes \in Seq(Place)
  PROVE  \E g : /\ g = [n \in 0..Len(bytes) |-> Firsts(bytes, g, n)]
                /\ FirstFrames(bytes) = g[Len(bytes)]
  <1>. DEFINE frames == CHOOSE g : g = [n \in 0..Len(bytes) |-> Firsts(bytes, g, n)]
  <1>1. \E g : g = [n \in 0..Len(bytes) |-> Firsts(bytes, g, n)]
    <2>1. Len(bytes) \in Nat
      OBVIOUS
    <2>. QED BY <2>1, FirstsExist
  <1>2. frames = [n \in 0..Len(bytes) |-> Firsts(bytes, frames, n)]
    BY <1>1, Zenon
  <1>3. FirstFrames(bytes) = frames[Len(bytes)]
    BY Zenon DEF FirstFrames, Firsts
  <1>. QED BY <1>2, <1>3, Zenon

(* A property of numbers that holds of 0 and goes from each to the next.   *)
LEMMA Induction ==
  ASSUME NEW S, 0 \in S, \A n \in Nat \ {0} : n - 1 \in S => n \in S
  PROVE  Nat \subseteq S
  <1>. SUFFICES ASSUME Nat \ S # {} PROVE FALSE
    OBVIOUS
  <1>1. PICK n \in Nat \ S : \A k \in Nat \ S : n <= k
    BY LeastElement
  <1>2. n # 0 /\ n - 1 \in Nat
    BY <1>1
  <1>3. n - 1 \in S
    BY <1>1, <1>2
  <1>. QED BY <1>1, <1>2, <1>3

LEMMA FirstsRecursion ==
  ASSUME NEW bytes \in Seq(Place)
  PROVE  \E g \in [0..Len(bytes) -> Seq(Frame)] :
           /\ g[0] = <<>>
           /\ \A n \in 1..Len(bytes) :
                g[n] = IF bytes[n].k = 1 THEN Append(g[n-1], bytes[n].of) ELSE g[n-1]
           /\ FirstFrames(bytes) = g[Len(bytes)]
  <1>1. PICK g : /\ g = [n \in 0..Len(bytes) |-> Firsts(bytes, g, n)]
                 /\ FirstFrames(bytes) = g[Len(bytes)]
    BY FirstsDefined
  <1>2. Len(bytes) \in Nat /\ \A n \in 1..Len(bytes) : bytes[n] \in Place
    OBVIOUS
  <1>3. \A n \in 0..Len(bytes) : g[n] = Firsts(bytes, g, n)
    BY <1>1
  <1>4. g[0] = <<>>
    BY <1>2, <1>3 DEF Firsts
  <1>5. \A n \in 1..Len(bytes) :
          g[n] = IF bytes[n].k = 1 THEN Append(g[n-1], bytes[n].of) ELSE g[n-1]
    BY <1>2, <1>3 DEF Firsts
  <1>. DEFINE S == {n \in Nat : n <= Len(bytes) => g[n] \in Seq(Frame)}
  <1>6. 0 \in S
    <2>1. <<>> \in Seq(Frame)
      BY EmptySeq
    <2>. QED BY <1>4, <2>1
  <1>7. ASSUME NEW n \in Nat \ {0}, n - 1 \in S PROVE n \in S
    <2>. SUFFICES ASSUME n <= Len(bytes) PROVE g[n] \in Seq(Frame)
      OBVIOUS
    <2>1. n \in 1..Len(bytes) /\ g[n-1] \in Seq(Frame)
      BY <1>2, <1>7
    <2>2. bytes[n].of \in Frame
      BY <1>2, <2>1 DEF Place
    <2>3. Append(g[n-1], bytes[n].of) \in Seq(Frame)
      BY <2>1, <2>2, AppendProperties
    <2>. QED BY <1>5, <2>1, <2>3
  <1>8. \A n \in 0..Len(bytes) : g[n] \in Seq(Frame)
    <2>. HIDE DEF S
    <2>1. Nat \subseteq S
      BY <1>6, <1>7, Induction
    <2>. QED BY <1>2, <2>1 DEF S
  <1>9. g \in [0..Len(bytes) -> Seq(Frame)]
    <2>1. g = [n \in 0..Len(bytes) |-> g[n]]
      BY <1>1, <1>3
    <2>. QED BY <1>8, <2>1
  <1>. QED BY <1>1, <1>4, <1>5, <1>9

(* The frames of the bytes of two parts are those of each.                 *)
LEMMA FirstsConcat ==
  ASSUME NEW a \in Seq(Place), NEW b \in Seq(Place)
  PROVE  FirstFrames(a \o b) = FirstFrames(a) \o FirstFrames(b)
  <1>1. a \o b \in Seq(Place)
    BY ConcatProperties
  <1>2. PICK f \in [0..Len(a) -> Seq(Frame)] :
           /\ f[0] = <<>>
           /\ \A n \in 1..Len(a) :
                f[n] = IF a[n].k = 1 THEN Append(f[n-1], a[n].of) ELSE f[n-1]
           /\ FirstFrames(a) = f[Len(a)]
    BY FirstsRecursion
  <1>3. PICK g \in [0..Len(b) -> Seq(Frame)] :
           /\ g[0] = <<>>
           /\ \A n \in 1..Len(b) :
                g[n] = IF b[n].k = 1 THEN Append(g[n-1], b[n].of) ELSE g[n-1]
           /\ FirstFrames(b) = g[Len(b)]
    BY FirstsRecursion
  <1>4. PICK h \in [0..Len(a \o b) -> Seq(Frame)] :
           /\ h[0] = <<>>
           /\ \A n \in 1..Len(a \o b) :
                h[n] = IF (a \o b)[n].k = 1 THEN Append(h[n-1], (a \o b)[n].of) ELSE h[n-1]
           /\ FirstFrames(a \o b) = h[Len(a \o b)]
    BY <1>1, FirstsRecursion
  <1>5. PICK la \in Nat, lb \in Nat : la = Len(a) /\ lb = Len(b)
    <2>1. Len(a) \in Nat /\ Len(b) \in Nat
      OBVIOUS
    <2>. QED BY <2>1, Zenon
  <1>6. /\ Len(a \o b) = la + lb
        /\ \A n \in 1..la : (a \o b)[n] = a[n]
        /\ \A n \in 1..lb : (a \o b)[la + n] = b[n]
    BY <1>5, ConcatProperties
  <1>7. \A n \in 0..la : h[n] = f[n]
    <2>. DEFINE S == {n \in Nat : n <= la => h[n] = f[n]}
    <2>1. 0 \in S
      BY <1>2, <1>4
    <2>2. ASSUME NEW n \in Nat \ {0}, n - 1 \in S PROVE n \in S
      <3>. SUFFICES ASSUME n <= la PROVE h[n] = f[n]
        OBVIOUS
      <3>1. n \in 1..la /\ n \in 1..la+lb /\ h[n-1] = f[n-1]
        BY <2>2
      <3>2. h[n] = IF a[n].k = 1 THEN Append(h[n-1], a[n].of) ELSE h[n-1]
        BY <1>4, <1>6, <3>1
      <3>3. f[n] = IF a[n].k = 1 THEN Append(f[n-1], a[n].of) ELSE f[n-1]
        BY <1>2, <1>5, <3>1
      <3>. QED BY <3>1, <3>2, <3>3
    <2>. HIDE DEF S
    <2>3. Nat \subseteq S
      BY <2>1, <2>2, Induction
    <2>. QED BY <2>3 DEF S
  <1>8. \A n \in 0..lb : h[la + n] = f[la] \o g[n]
    <2>. DEFINE S == {n \in Nat : n <= lb => h[la + n] = f[la] \o g[n]}
    <2>0. f[la] \in Seq(Frame) /\ \A n \in 0..lb : g[n] \in Seq(Frame)
      <3>1. f \in [0..la -> Seq(Frame)] /\ g \in [0..lb -> Seq(Frame)]
        BY <1>2, <1>3, <1>5, Zenon
      <3>2. la \in 0..la
        OBVIOUS
      <3>. QED BY <3>1, <3>2
    <2>1. 0 \in S
      <3>1. h[la + 0] = f[la]
        BY <1>7
      <3>2. f[la] \o <<>> = f[la]
        BY <2>0, ConcatEmptySeq
      <3>. QED BY <1>3, <3>1, <3>2
    <2>2. ASSUME NEW n \in Nat \ {0}, n - 1 \in S PROVE n \in S
      <3>. SUFFICES ASSUME n <= lb PROVE h[la + n] = f[la] \o g[n]
        OBVIOUS
      <3>0. /\ n \in 1..lb /\ la + n \in 1..la+lb /\ (la + n) - 1 = la + (n - 1)
            /\ n - 1 \in 0..lb
        OBVIOUS
      <3>1. h[la + (n-1)] = f[la] \o g[n-1] /\ g[n-1] \in Seq(Frame)
        <4>1. n - 1 \in Nat /\ n - 1 <= lb
          OBVIOUS
        <4>2. h[la + (n-1)] = f[la] \o g[n-1]
          BY <2>2, <4>1, Zenon
        <4>. QED BY <2>0, <3>0, <4>2
      <3>2. h[la + n] = IF b[n].k = 1 THEN Append(f[la] \o g[n-1], b[n].of)
                        ELSE f[la] \o g[n-1]
        <4>1. h[la + n] = IF (a \o b)[la + n].k = 1
                          THEN Append(h[(la + n)-1], (a \o b)[la + n].of)
                          ELSE h[(la + n)-1]
          BY <1>4, <1>6, <3>0, Zenon
        <4>2. (a \o b)[la + n] = b[n]
          BY <1>6, <3>0
        <4>. QED BY <3>0, <3>1, <4>1, <4>2, Zenon
      <3>3. g[n] = IF b[n].k = 1 THEN Append(g[n-1], b[n].of) ELSE g[n-1]
        BY <1>3, <1>5, <3>0
      <3>4. b[n].of \in Frame
        <4>1. b[n] \in Place
          BY <1>5, <3>0
        <4>. QED BY <4>1 DEF Place
      <3>5. Append(f[la] \o g[n-1], b[n].of) = f[la] \o Append(g[n-1], b[n].of)
        <4>. DEFINE x == f[la]
                    y == g[n-1]
                    e == b[n].of
        <4>1. x \in Seq(Frame) /\ y \in Seq(Frame) /\ e \in Frame
          BY <2>0, <3>1, <3>4
        <4>. HIDE DEF x, y, e
        <4>2. Append(x \o y, e) = (x \o y) \o <<e>> /\ Append(y, e) = y \o <<e>>
          BY <4>1, ConcatProperties, AppendIsConcat
        <4>3. (x \o y) \o <<e>> = x \o (y \o <<e>>)
          <5>1. <<e>> \in Seq(Frame)
            BY <4>1
          <5>. QED BY <4>1, <5>1, ConcatAssociative, SMTT(40)
        <4>4. Append(x \o y, e) = x \o Append(y, e)
          BY <4>2, <4>3
        <4>. QED BY <4>4 DEF x, y, e
      <3>. QED BY <3>2, <3>3, <3>5
    <2>. HIDE DEF S
    <2>3. Nat \subseteq S
      BY <2>1, <2>2, Induction
    <2>4. \A n \in 0..lb : n \in Nat /\ n <= lb
      OBVIOUS
    <2>. QED BY <2>3, <2>4 DEF S
  <1>. QED BY <1>2, <1>3, <1>4, <1>5, <1>6, <1>8, SMTT(40)

LEMMA FirstsType ==
  ASSUME NEW a \in Seq(Place)
  PROVE  FirstFrames(a) \in Seq(Frame)
  <1>1. PICK f \in [0..Len(a) -> Seq(Frame)] : FirstFrames(a) = f[Len(a)]
    BY FirstsRecursion
  <1>2. Len(a) \in 0..Len(a)
    OBVIOUS
  <1>. QED BY <1>1, <1>2

LEMMA FirstsEmpty == FirstFrames(<<>>) = <<>>
  <1>1. <<>> \in Seq(Place) /\ Len(<<>>) = 0
    OBVIOUS
  <1>2. PICK f \in [0..Len(<<>>) -> Seq(Frame)] :
          f[0] = <<>> /\ FirstFrames(<<>>) = f[Len(<<>>)]
    BY <1>1, FirstsRecursion
  <1>. QED BY <1>1, <1>2

(* A whole frame has one first byte.                                       *)
LEMMA FirstsOfBytes ==
  ASSUME NEW f \in Frame, Bytes(f) \in Seq(Place)
  PROVE  FirstFrames(Bytes(f)) = <<f>>
  <1>1. PICK l \in Nat : l = Length[f] /\ l >= 7
    BY LcdReceiverAssumption
  <1>2. Len(Bytes(f)) = l /\ \A n \in 1..l : Bytes(f)[n] = [of |-> f, k |-> n]
    BY <1>1 DEF Bytes
  <1>3. PICK g \in [0..Len(Bytes(f)) -> Seq(Frame)] :
           /\ g[0] = <<>>
           /\ \A n \in 1..Len(Bytes(f)) :
                g[n] = IF Bytes(f)[n].k = 1 THEN Append(g[n-1], Bytes(f)[n].of) ELSE g[n-1]
           /\ FirstFrames(Bytes(f)) = g[Len(Bytes(f))]
    BY FirstsRecursion
  <1>4. ASSUME NEW n \in 1..l PROVE g[n] = IF n = 1 THEN Append(g[n-1], f) ELSE g[n-1]
    <2>1. g[n] = IF Bytes(f)[n].k = 1 THEN Append(g[n-1], Bytes(f)[n].of) ELSE g[n-1]
      BY <1>2, <1>3, Zenon
    <2>2. Bytes(f)[n].k = n /\ Bytes(f)[n].of = f
      <3>. DEFINE b == Bytes(f)[n]
      <3>1. b = [of |-> f, k |-> n]
        BY <1>2, Zenon
      <3>. HIDE DEF b
      <3>2. b.k = n /\ b.of = f
        BY <3>1
      <3>. QED BY <3>2 DEF b
    <2>. QED BY <2>1, <2>2, Zenon
  <1>. DEFINE S == {n \in Nat : n + 1 <= l => g[n + 1] = <<f>>}
  <1>5. 0 \in S
    <2>1. g[1] = Append(<<>>, f)
      <3>1. 1 \in 1..l /\ 1 - 1 = 0
        BY <1>1
      <3>. QED BY <1>3, <1>4, <3>1, Zenon
    <2>. QED BY <2>1
  <1>6. ASSUME NEW n \in Nat \ {0}, n - 1 \in S PROVE n \in S
    <2>. SUFFICES ASSUME n + 1 <= l PROVE g[n + 1] = <<f>>
      OBVIOUS
    <2>1. n + 1 \in 1..l /\ n + 1 # 1 /\ (n + 1) - 1 = n /\ (n - 1) + 1 = n /\ n <= l
      OBVIOUS
    <2>2. g[n + 1] = g[n]
      BY <1>4, <2>1
    <2>3. g[n] = <<f>>
      BY <1>6, <2>1
    <2>. QED BY <2>2, <2>3
  <1>7. l - 1 \in S
    <2>. HIDE DEF S
    <2>1. Nat \subseteq S
      BY <1>5, <1>6, Induction
    <2>. QED BY <1>1, <2>1
  <1>8. g[l] = <<f>>
    BY <1>1, <1>7
  <1>. QED BY <1>2, <1>3, <1>8

(* Frames that are lost together.                                          *)
LEMMA FirstsLost ==
  ASSUME NEW a \in Seq(Frame), NEW m \in Seq(Frame), NEW b \in Seq(Frame), m # <<>>
  PROVE  \E k \in DOMAIN (a \o m \o b) : \E rest \in 0..Len(a \o m \o b) :
           a \o b = SubSeq(a \o m \o b, 1, k - 1)
                     \o SubSeq(a \o m \o b, k + rest, Len(a \o m \o b))
  <1>. DEFINE s == a \o m \o b
              k == Len(a) + 1
              rest == Len(m)
  <1>1. PICK la \in Nat, lm \in Nat, lb \in Nat :
          la = Len(a) /\ lm = Len(m) /\ lb = Len(b) /\ lm > 0
    <2>1. Len(a) \in Nat /\ Len(b) \in Nat /\ Len(m) \in Nat /\ Len(m) > 0
      OBVIOUS
    <2>. QED BY <2>1
  <1>2. /\ s \in Seq(Frame) /\ Len(s) = la + lm + lb
        /\ \A i \in 1..la : s[i] = a[i]
        /\ \A i \in 1..lb : s[la + lm + i] = b[i]
    <2>1. a \o m \in Seq(Frame) /\ Len(a \o m) = la + lm
          /\ \A i \in 1..la : (a \o m)[i] = a[i]
      BY <1>1, ConcatProperties
    <2>. QED BY <1>1, <2>1, ConcatProperties
  <1>. HIDE DEF s
  <1>3. SubSeq(s, 1, la) = a
    <2>1. \A i \in 1..la : s[i] \in Frame
      BY <1>1, <1>2
    <2>2. /\ SubSeq(s, 1, la) \in Seq(Frame)
          /\ Len(SubSeq(s, 1, la)) = la
          /\ \A i \in 1..la : SubSeq(s, 1, la)[i] = s[i]
      BY <2>1, SubSeqProperties
    <2>. QED BY <1>1, <1>2, <2>2, SeqEqual
  <1>4. SubSeq(s, la + lm + 1, la + lm + lb) = b
    <2>1. \A i \in la+lm+1..la+lm+lb : s[i] \in Frame
      BY <1>1, <1>2
    <2>2. /\ SubSeq(s, la+lm+1, la+lm+lb) \in Seq(Frame)
          /\ Len(SubSeq(s, la+lm+1, la+lm+lb)) = lb
          /\ \A i \in 1..lb : SubSeq(s, la+lm+1, la+lm+lb)[i] = s[la+lm+i]
      BY <2>1, SubSeqProperties
    <2>. DEFINE t == SubSeq(s, la+lm+1, la+lm+lb)
    <2>3. \A i \in 1..lb : t[i] = b[i]
      BY <1>2, <2>2
    <2>4. t \in Seq(Frame) /\ Len(t) = Len(b)
      BY <1>1, <2>2
    <2>5. \A i \in 1..Len(t) : t[i] = b[i]
      BY <1>1, <2>3, <2>4
    <2>. HIDE DEF t
    <2>6. t = b
      BY <2>4, <2>5, SeqEqual
    <2>. QED BY <2>6 DEF t
  <1>5. k \in DOMAIN s /\ rest \in 0..Len(s)
    BY <1>1, <1>2
  <1>6. SubSeq(s, 1, k - 1) = a /\ SubSeq(s, k + rest, Len(s)) = b
    <2>1. k - 1 = la /\ k + rest = la + lm + 1
      BY <1>1
    <2>. QED BY <1>2, <1>3, <1>4, <2>1
  <1>. QED BY <1>5, <1>6 DEF s

-----------------------------------------------------------------------------
(* A frame is stored from the front of the ring buffer, where all its      *)
(* bytes are; nothing takes them away meanwhile.                           *)
StoringHeld ==
  /\ rev.pc # "store" => rev.frame = "none"
  /\ rev.pc = "store" =>
       /\ rev.frame \in Content
       /\ Len(ring) >= Length[rev.frame]
       /\ SubSeq(ring, 1, Length[rev.frame]) = Bytes(rev.frame)

LEMMA StoringInit == Init => StoringHeld
  BY DEF Init, StoringHeld

LEMMA StoringStep == ReceiverInv /\ StoringHeld /\ [Next]_vars => StoringHeld'
  <1>. SUFFICES ASSUME ReceiverInv, StoringHeld, [Next]_vars PROVE StoringHeld'
    OBVIOUS
  <1>. USE DEF StoringHeld
  <1>0. rev \in [pc: {"read", "poll", "store"}, frame: Content \cup {"none"}]
    BY DEF ReceiverInv, TypeOK
  <1>1. CASE UNCHANGED <<ring, rev>>
    BY <1>1
  <1>2. ASSUME rev.pc # "store", rev' = [rev EXCEPT !.pc = "poll"] \/ rev' = [rev EXCEPT !.pc = "read"]
        PROVE  StoringHeld'
    BY <1>0, <1>2
  <1>3. CASE PollFindsFrame
    <2>1. Announced \in Content
      BY <1>3, AnnouncedLemma DEF ReceiverInv, PollFindsFrame, Complete, Content
    <2>2. PICK f \in Content : f = Announced
      BY <2>1
    <2>3. Len(ring) >= Length[f] /\ SubSeq(ring, 1, Length[f]) = Bytes(f)
      BY <1>3, <2>2 DEF PollFindsFrame, Complete, CrcRight
    <2>4. rev' = [pc |-> "store", frame |-> f] /\ ring' = ring
      BY <1>3, <2>2 DEF PollFindsFrame
    <2>. QED BY <2>3, <2>4
  <1>4. CASE StoreFrame
    BY <1>4 DEF StoreFrame
  <1>5. CASE Read \/ PollEnds \/ PollWaits
    BY <1>2, <1>5 DEF Read, PollEnds, PollWaits
  <1>6. CASE PollSkipsByte \/ PollFindsAck
    BY <1>6 DEF PollSkipsByte, PollFindsAck
  <1>7. CASE SendAny \/ LoseByte \/ LcdThread \/ UNCHANGED vars
    <2>1. UNCHANGED <<ring, rev>>
      BY <1>7 DEF SendAny, Send, LoseByte, LcdThread, Wake, Empty, Process, Refresh,
                  vars, receiver
    <2>. QED BY <1>1, <2>1
  <1>. QED BY <1>3, <1>4, <1>5, <1>6, <1>7 DEF Next, Poll

(* A sequence is what is before a place in it and what is after.           *)
LEMMA SplitLemma ==
  ASSUME NEW S, NEW s \in Seq(S), NEW n \in Nat, n <= Len(s)
  PROVE  /\ SubSeq(s, 1, n) \in Seq(S) /\ SubSeq(s, n + 1, Len(s)) \in Seq(S)
         /\ s = SubSeq(s, 1, n) \o SubSeq(s, n + 1, Len(s))
  <1>1. Len(s) \in Nat /\ \A i \in 1..Len(s) : s[i] \in S
    OBVIOUS
  <1>2. SubSeq(s, 1, n) \in Seq(S) /\ SubSeq(s, n + 1, Len(s)) \in Seq(S)
    BY <1>1, SubSeqProperties
  <1>3. SubSeq(s, 1, n) \o SubSeq(s, n + 1, Len(s)) = SubSeq(s, 1, Len(s))
    <2>1. /\ 1 \in 1..Len(s)+1 /\ n \in 1-1..Len(s) /\ Len(s) \in n..Len(s)
      BY <1>1
    <2>. QED BY <2>1, ConcatAdjacentSubSeq
  <1>. QED BY <1>2, <1>3, SubSeqFull

(* Concatenation is associative, also of four sequences.                   *)
Regrouped(a, b, c, d) == a \o ((b \o c) \o d) = ((a \o b) \o c) \o d

LEMMA ConcatFour ==
  ASSUME NEW S
  PROVE  \A a, b, c, d \in Seq(S) : Regrouped(a, b, c, d)
  <1>. DEFINE Cat(s, t) == s \o t
  <1>1. \A s, t, u \in Seq(S) : Cat(Cat(s, t), u) = Cat(s, Cat(t, u))
    <2>. TAKE s, t, u \in Seq(S)
    <2>. QED BY ConcatAssociative
  <1>2. \A s, t \in Seq(S) : Cat(s, t) \in Seq(S)
    <2>. TAKE s, t \in Seq(S)
    <2>. QED BY ConcatProperties
  <1>. HIDE DEF Cat
  <1>3. \A a, b, c, d \in Seq(S) :
          Cat(a, Cat(Cat(b, c), d)) = Cat(Cat(Cat(a, b), c), d)
    BY <1>1, <1>2
  <1>. QED BY <1>3 DEF Cat, Regrouped

(* The frames under way, of bytes in three parts, with the part in the     *)
(* middle and without it.                                                  *)
LEMMA MiddleLost ==
  ASSUME NEW a \in Seq(Place), NEW m \in Seq(Place), NEW b \in Seq(Place)
  PROVE  LET old == FirstFrames((a \o m) \o b)
             new == FirstFrames(a \o b)
         IN  \/ new = old
             \/ \E k \in DOMAIN old : \E rest \in 0..Len(old) :
                  new = SubSeq(old, 1, k - 1) \o SubSeq(old, k + rest, Len(old))
  <1>1. /\ FirstFrames(a) \in Seq(Frame) /\ FirstFrames(m) \in Seq(Frame)
        /\ FirstFrames(b) \in Seq(Frame)
    BY FirstsType
  <1>2. FirstFrames(a \o b) = FirstFrames(a) \o FirstFrames(b)
    BY FirstsConcat
  <1>3. FirstFrames((a \o m) \o b) = (FirstFrames(a) \o FirstFrames(m)) \o FirstFrames(b)
    <2>1. a \o m \in Seq(Place)
      BY ConcatProperties
    <2>. QED BY <2>1, FirstsConcat
  <1>4. CASE FirstFrames(m) = <<>>
    BY <1>1, <1>2, <1>3, <1>4, ConcatEmptySeq
  <1>5. CASE FirstFrames(m) # <<>>
    <2>. DEFINE x == FirstFrames(a)
                y == FirstFrames(m)
                z == FirstFrames(b)
                old == (x \o y) \o z
    <2>1. x \in Seq(Frame) /\ y \in Seq(Frame) /\ z \in Seq(Frame) /\ y # <<>>
      BY <1>1, <1>5
    <2>2. \E k \in DOMAIN old : \E rest \in 0..Len(old) :
            x \o z = SubSeq(old, 1, k - 1) \o SubSeq(old, k + rest, Len(old))
      <3>. HIDE DEF x, y, z
      <3>. QED BY <2>1, FirstsLost
    <2>. QED BY <1>2, <1>3, <2>2, Zenon
  <1>. QED BY <1>4, <1>5, Zenon

(* Bytes that are lost: frames are lost with them, or none.                *)
LEMMA LossIsLose ==
  ASSUME NEW a \in Seq(Place), NEW m \in Seq(Place), NEW b \in Seq(Place),
         ring \o line = (a \o m) \o b, ring' \o line' = a \o b,
         UNCHANGED <<lcd_rx_buf, lcd_rx_len, lcd_rx_sem, lcd_crc_sem>>,
         rev'.frame = rev.frame
  PROVE  Channel!Lose \/ UNCHANGED Channel!channel
  <1>1. PICK old : old = FirstFrames(ring \o line)
    OBVIOUS
  <1>2. PICK new : new = FirstFrames(ring' \o line')
    OBVIOUS
  <1>3. \/ new = old
        \/ \E k \in DOMAIN old : \E rest \in 0..Len(old) :
             new = SubSeq(old, 1, k - 1) \o SubSeq(old, k + rest, Len(old))
    <2>1. old = FirstFrames((a \o m) \o b) /\ new = FirstFrames(a \o b)
      BY <1>1, <1>2
    <2>. QED BY <2>1, MiddleLost, Zenon
  <1>4. CASE new = old
    BY <1>1, <1>2, <1>4 DEF Channel!channel, Channel!mailbox
  <1>5. CASE \E k \in DOMAIN old : \E rest \in 0..Len(old) :
               new = SubSeq(old, 1, k - 1) \o SubSeq(old, k + rest, Len(old))
    BY <1>1, <1>2, <1>5 DEF Channel!Lose, Channel!mailbox
  <1>. QED BY <1>3, <1>4, <1>5

(* Bytes that are taken from the front of the ring buffer.                 *)
LEMMA FrontTaken ==
  ASSUME TypeOK, NEW n \in Nat, n <= Len(ring), Drop(n), line' = line
  PROVE  LET front == SubSeq(ring, 1, n)
         IN  /\ front \in Seq(Place) /\ ring' \in Seq(Place) /\ line \in Seq(Place)
             /\ ring = front \o ring'
             /\ ring \o line = front \o (ring' \o line')
  <1>1. ring \in Seq(Place) /\ line \in Seq(Place)
    BY DEF TypeOK
  <1>2. PICK front, rest : front = SubSeq(ring, 1, n) /\ rest = SubSeq(ring, n + 1, Len(ring))
    OBVIOUS
  <1>3. front \in Seq(Place) /\ rest \in Seq(Place) /\ ring = front \o rest
    BY <1>1, <1>2, SplitLemma
  <1>4. ring' = rest
    BY <1>2 DEF Drop
  <1>5. (front \o rest) \o line = front \o (rest \o line)
    BY <1>1, <1>3, ConcatAssociative, SMTT(40)
  <1>. QED BY <1>1, <1>2, <1>3, <1>4, <1>5

(* A frame at the front of the ring buffer is the first under way.         *)
LEMMA FrameFirst ==
  ASSUME TypeOK, NEW f \in Frame, Length[f] <= Len(ring),
         SubSeq(ring, 1, Length[f]) = Bytes(f)
  PROVE  /\ FirstFrames(ring \o line) # <<>>
         /\ Head(FirstFrames(ring \o line)) = f
         /\ Drop(Length[f]) /\ line' = line =>
              FirstFrames(ring' \o line') = Tail(FirstFrames(ring \o line))
  <1>1. ring \in Seq(Place) /\ line \in Seq(Place) /\ Length[f] \in Nat
    BY LcdReceiverAssumption DEF TypeOK
  <1>2. PICK rest : rest = SubSeq(ring, Length[f] + 1, Len(ring))
    OBVIOUS
  <1>3. Bytes(f) \in Seq(Place) /\ rest \in Seq(Place) /\ ring = Bytes(f) \o rest
    BY <1>1, <1>2, SplitLemma
  <1>4. rest \o line \in Seq(Place) /\ ring \o line = Bytes(f) \o (rest \o line)
    BY <1>1, <1>3, ConcatAssociative, ConcatProperties, SMTT(40)
  <1>5. FirstFrames(ring \o line) = <<f>> \o FirstFrames(rest \o line)
    BY <1>3, <1>4, FirstsConcat, FirstsOfBytes
  <1>6. PICK after \in Seq(Frame) : after = FirstFrames(rest \o line)
    BY <1>4, FirstsType
  <1>7. /\ <<f>> \o after # <<>> /\ Head(<<f>> \o after) = f
        /\ Tail(<<f>> \o after) = after
    OBVIOUS
  <1>8. Drop(Length[f]) /\ line' = line => ring' \o line' = rest \o line
    BY <1>2 DEF Drop
  <1>. QED BY <1>5, <1>6, <1>7, <1>8

LEMMA NothingLostUnderWay ==
  ASSUME UNCHANGED <<ring, line, lcd_rx_buf, lcd_rx_len, lcd_rx_sem, lcd_crc_sem>>,
         rev'.frame = rev.frame
  PROVE  UNCHANGED Channel!channel
  BY DEF Channel!channel, Channel!mailbox

LEMMA ChannelInit == Init => Channel!ChannelInit
  <1>. SUFFICES ASSUME Init PROVE Channel!ChannelInit
    OBVIOUS
  <1>1. <<>> \o <<>> = <<>>
    OBVIOUS
  <1>2. FirstFrames(ring \o line) = <<>>
    BY <1>1, FirstsEmpty DEF Init
  <1>. QED BY <1>2 DEF Init, Channel!ChannelInit

LEMMA ChannelSend ==
  ASSUME TypeOK, NEW f \in Frame, Send(f)
  PROVE  Channel!Send(f)
  <1>1. ring \in Seq(Place) /\ line \in Seq(Place) /\ Bytes(f) \in Seq(Place)
    BY BytesLemma DEF TypeOK
  <1>2. ring' \o line' = (ring \o line) \o Bytes(f)
    BY <1>1, ConcatAssociative, SMTT(40) DEF Send, receiver
  <1>3. ring \o line \in Seq(Place)
    BY <1>1, ConcatProperties
  <1>4. FirstFrames(ring' \o line') = FirstFrames(ring \o line) \o <<f>>
    BY <1>1, <1>2, <1>3, FirstsConcat, FirstsOfBytes
  <1>5. FirstFrames(ring \o line) \o <<f>> = Append(FirstFrames(ring \o line), f)
    BY <1>3, FirstsType, AppendIsConcat
  <1>. QED BY <1>4, <1>5 DEF Send, receiver, mailbox, Channel!Send, Channel!mailbox

LEMMA ChannelLoses ==
  ASSUME ReceiverInv, StoringHeld, LoseByte \/ Read \/ PollSkipsByte \/ PollWaits
  PROVE  Channel!Lose \/ UNCHANGED Channel!channel
  <1>0. /\ TypeOK /\ ring \in Seq(Place) /\ line \in Seq(Place)
        /\ rev \in [pc: {"read", "poll", "store"}, frame: Content \cup {"none"}]
    BY DEF ReceiverInv, TypeOK
  <1>1. CASE LoseByte
    <2>1. PICK k \in DOMAIN line : line' = RemoveAt(line, k)
      BY <1>1 DEF LoseByte
    <2>2. PICK l \in Nat : l = Len(line) /\ k \in 1..l
      BY <1>0
    <2>3. PICK before, byte, after : /\ before = SubSeq(line, 1, k - 1)
                                     /\ byte = SubSeq(line, k, k)
                                     /\ after = SubSeq(line, k + 1, l)
      OBVIOUS
    <2>4. before \in Seq(Place) /\ byte \in Seq(Place) /\ after \in Seq(Place)
      <3>1. \A i \in 1..l : line[i] \in Place
        BY <1>0, <2>2
      <3>2. /\ k - 1 \in Int /\ k \in Int /\ k + 1 \in Int /\ 1 \in Int /\ l \in Int
            /\ \A i \in 1..k-1 : line[i] \in Place
            /\ \A i \in k..k : line[i] \in Place
            /\ \A i \in k+1..l : line[i] \in Place
        BY <2>2, <3>1
      <3>. QED BY <2>3, <3>2, SubSeqProperties
    <2>5. line' = before \o after
      BY <2>1, <2>2, <2>3 DEF RemoveAt
    <2>6. line = (before \o byte) \o after
      <3>1. SubSeq(line, 1, k - 1) \o SubSeq(line, (k - 1) + 1, k) = SubSeq(line, 1, k)
        <4>1. 1 \in 1..Len(line)+1 /\ k - 1 \in 1-1..Len(line) /\ k \in k-1..Len(line)
          BY <2>2
        <4>. QED BY <1>0, <4>1, ConcatAdjacentSubSeq
      <3>2. line = SubSeq(line, 1, k) \o SubSeq(line, k + 1, Len(line))
        <4>1. k \in Nat /\ k <= Len(line)
          BY <2>2
        <4>. QED BY <1>0, <4>1, SplitLemma
      <3>3. (k - 1) + 1 = k
        BY <2>2
      <3>. QED BY <2>2, <2>3, <3>1, <3>2, <3>3
    <2>7. ring \o line = ((ring \o before) \o byte) \o after
      <3>1. ring \o ((before \o byte) \o after) = ((ring \o before) \o byte) \o after
        <4>1. Regrouped(ring, before, byte, after)
          BY <1>0, <2>4, ConcatFour
        <4>. QED BY <4>1, Zenon DEF Regrouped
      <3>. QED BY <2>6, <3>1, Zenon
    <2>8. ring' \o line' = (ring \o before) \o after
      <3>1. (ring \o before) \o after = ring \o (before \o after)
        BY <1>0, <2>4, ConcatAssociative, SMTT(40)
      <3>. QED BY <1>1, <2>5, <3>1 DEF LoseByte, receiver
    <2>9. ring \o before \in Seq(Place)
      BY <1>0, <2>4, ConcatProperties
    <2>. QED
      BY <1>1, <2>4, <2>7, <2>8, <2>9, LossIsLose DEF LoseByte, receiver, mailbox
  <1>2. CASE Read
    <2>1. PICK n \in VMIN..Min({Len(line), RingSize}) :
            /\ ring' = ring \o SubSeq(line, 1, RoomLeft(n))
            /\ line' = SubSeq(line, n + 1, Len(line))
      BY <1>2 DEF Read
    <2>2. PICK l \in Nat : l = Len(line)
      BY <1>0
    <2>3. /\ n \in Nat /\ n <= l
      <3>1. Len(line) \in Nat /\ RingSize \in Nat
        BY <1>0, LcdReceiverAssumption
      <3>2. PICK most : most = Min({Len(line), RingSize})
        OBVIOUS
      <3>3. most \in Nat /\ most <= Len(line)
        BY <3>1, <3>2, MinOfTwo
      <3>. QED BY <2>1, <2>2, <3>2, <3>3 DEF VMIN
    <2>4. PICK kept \in Nat : kept = RoomLeft(n) /\ kept <= n
      <3>1. RingSize - 1 - Len(ring) \in Nat
        BY <1>0, LcdReceiverAssumption DEF TypeOK
      <3>. QED BY <2>3, <3>1, MinOfTwo DEF RoomLeft
    <2>5. PICK first, lost, rest : /\ first = SubSeq(line, 1, kept)
                                   /\ lost = SubSeq(line, kept + 1, n)
                                   /\ rest = SubSeq(line, n + 1, l)
      OBVIOUS
    <2>6. first \in Seq(Place) /\ lost \in Seq(Place) /\ rest \in Seq(Place)
      <3>1. \A i \in 1..l : line[i] \in Place
        BY <1>0, <2>2
      <3>. QED BY <2>3, <2>4, <2>5, <3>1, SubSeqProperties
    <2>7. line = (first \o lost) \o rest
      <3>1. first \o lost = SubSeq(line, 1, n)
        <4>1. 1 \in 1..Len(line)+1 /\ kept \in 1-1..Len(line) /\ n \in kept..Len(line)
          BY <2>2, <2>3, <2>4
        <4>. QED BY <1>0, <2>5, <4>1, ConcatAdjacentSubSeq
      <3>2. line = SubSeq(line, 1, n) \o SubSeq(line, n + 1, Len(line))
        BY <1>0, <2>2, <2>3, SplitLemma
      <3>. QED BY <2>2, <2>5, <3>1, <3>2
    <2>8. ring \o line = ((ring \o first) \o lost) \o rest
      <3>1. ring \o ((first \o lost) \o rest) = ((ring \o first) \o lost) \o rest
        <4>1. Regrouped(ring, first, lost, rest)
          BY <1>0, <2>6, ConcatFour
        <4>. QED BY <4>1, Zenon DEF Regrouped
      <3>. QED BY <2>7, <3>1, Zenon
    <2>9. ring' \o line' = (ring \o first) \o rest
      BY <2>1, <2>2, <2>4, <2>5
    <2>10. ring \o first \in Seq(Place)
      BY <1>0, <2>6, ConcatProperties
    <2>11. rev'.frame = rev.frame
      BY <1>0, <1>2 DEF Read
    <2>. QED
      BY <1>2, <2>6, <2>8, <2>9, <2>10, <2>11, LossIsLose DEF Read, mailbox
  <1>3. CASE PollSkipsByte
    <2>1. PICK front : front = SubSeq(ring, 1, 1)
      OBVIOUS
    <2>2. /\ front \in Seq(Place) /\ ring' \in Seq(Place)
          /\ ring \o line = front \o (ring' \o line)
      BY <1>0, <1>3, <2>1, FrontTaken DEF PollSkipsByte
    <2>3. /\ <<>> \in Seq(Place) /\ ring' \o line \in Seq(Place)
          /\ <<>> \o front = front /\ <<>> \o (ring' \o line) = ring' \o line
      BY <1>0, <2>2, ConcatProperties, ConcatEmptySeq, EmptySeq
    <2>4. ring \o line = (<<>> \o front) \o (ring' \o line)
          /\ ring' \o line' = <<>> \o (ring' \o line)
      BY <1>3, <2>2, <2>3 DEF PollSkipsByte
    <2>. QED
      BY <1>3, <2>2, <2>3, <2>4, LossIsLose DEF PollSkipsByte, mailbox
  <1>4. CASE PollWaits
    <2>1. ring' = ring \/ ring' = <<>>
      BY <1>4 DEF PollWaits
    <2>2. rev'.frame = rev.frame
      BY <1>0, <1>4 DEF PollWaits
    <2>3. CASE ring' = ring
      BY <1>4, <2>2, <2>3, NothingLostUnderWay DEF PollWaits, mailbox
    <2>4. CASE ring' = <<>>
      <3>1. <<>> \in Seq(Place) /\ <<>> \o ring = ring /\ <<>> \o line = line
        BY <1>0, ConcatEmptySeq, EmptySeq
      <3>2. ring \o line = (<<>> \o ring) \o line /\ ring' \o line' = <<>> \o line
        BY <1>4, <2>4, <3>1 DEF PollWaits
      <3>. QED BY <1>0, <1>4, <2>2, <3>1, <3>2, LossIsLose DEF PollWaits, mailbox
    <2>. QED BY <2>1, <2>3, <2>4
  <1>. QED BY <1>1, <1>2, <1>3, <1>4

LEMMA ChannelPasses ==
  ASSUME ReceiverInv, StoringHeld, PollFindsAck \/ PollFindsFrame \/ StoreFrame
  PROVE  Channel!PassAck \/ Channel!Announce \/ Channel!Store
  <1>0. TypeOK
    BY DEF ReceiverInv
  <1>. USE DEF Channel!mailbox
  <1>1. CASE PollFindsAck
    <2>1. /\ "ack" \in Frame /\ Length["ack"] = 7
      BY LcdReceiverAssumption
    <2>2. /\ Length["ack"] <= Len(ring)
          /\ SubSeq(ring, 1, Length["ack"]) = Bytes("ack")
          /\ Drop(Length["ack"]) /\ line' = line
      BY <1>0, <1>1, <2>1 DEF PollFindsAck, CrcRight, TypeOK
    <2>3. /\ FirstFrames(ring \o line) # <<>>
          /\ Head(FirstFrames(ring \o line)) = "ack"
          /\ FirstFrames(ring' \o line') = Tail(FirstFrames(ring \o line))
      BY <1>0, <2>1, <2>2, FrameFirst
    <2>4. rev.frame = "none" /\ rev' = rev
      BY <1>1 DEF PollFindsAck, StoringHeld
    <2>. QED
      BY <1>1, <2>3, <2>4 DEF PollFindsAck, mailbox, Channel!PassAck
  <1>2. CASE PollFindsFrame
    <2>1. PICK f \in Content : f = Announced
      <3>1. Announced \in Content
        BY <1>0, <1>2, AnnouncedLemma DEF PollFindsFrame, Complete, Content
      <3>. QED BY <3>1
    <2>2. f \in Frame /\ Length[f] <= Len(ring) /\ SubSeq(ring, 1, Length[f]) = Bytes(f)
      <3>1. Len(ring) >= Length[f] /\ SubSeq(ring, 1, Length[f]) = Bytes(f)
        BY <1>2, <2>1 DEF PollFindsFrame, Complete, CrcRight
      <3>2. Len(ring) \in Nat /\ Length[f] \in Nat /\ f \in Frame
        BY <1>0, LcdReceiverAssumption DEF TypeOK, Content
      <3>. QED BY <3>1, <3>2
    <2>3. FirstFrames(ring \o line) # <<>> /\ Head(FirstFrames(ring \o line)) = f
      BY <1>0, <2>2, FrameFirst
    <2>4. rev.frame = "none" /\ rev' = [pc |-> "store", frame |-> f] /\ lcd_rx_len' = f
      BY <1>2, <2>1 DEF PollFindsFrame, StoringHeld
    <2>. QED
      BY <1>2, <2>3, <2>4 DEF PollFindsFrame, Channel!Announce
  <1>3. CASE StoreFrame
    <2>1. PICK f \in Content : f = rev.frame
      BY <1>3 DEF StoreFrame, StoringHeld
    <2>2. f \in Frame /\ f # "none" /\ Length[f] <= Len(ring)
          /\ SubSeq(ring, 1, Length[f]) = Bytes(f)
      <3>1. Len(ring) >= Length[f] /\ SubSeq(ring, 1, Length[f]) = Bytes(f)
        BY <1>3, <2>1 DEF StoreFrame, StoringHeld
      <3>2. Len(ring) \in Nat /\ Length[f] \in Nat /\ f \in Frame /\ f # "none"
        BY <1>0, LcdReceiverAssumption DEF TypeOK, Content
      <3>. QED BY <3>1, <3>2
    <2>3. rev'.frame = "none" /\ line' = line
      BY <1>3 DEF StoreFrame
    <2>4. CASE lcd_rx_buf' = f /\ Drop(Length[f])
      <3>1. FirstFrames(ring' \o line') = Tail(FirstFrames(ring \o line))
        BY <1>0, <2>2, <2>3, <2>4, FrameFirst
      <3>. QED
        BY <1>3, <2>1, <2>2, <2>3, <2>4, <3>1 DEF StoreFrame, Channel!Store
    <2>5. CASE lcd_rx_len = "none" /\ UNCHANGED <<lcd_rx_buf, ring>>
      BY <1>3, <2>1, <2>2, <2>3, <2>5 DEF StoreFrame, Channel!Store
    <2>. QED BY <1>3, <2>1, <2>4, <2>5 DEF StoreFrame
  <1>. QED BY <1>1, <1>2, <1>3

LEMMA ChannelConsumes ==
  ASSUME TypeOK, LcdThread
  PROVE  Channel!Consume
  <1>1. /\ lcd_rx_buf' = lcd_rx_buf /\ lcd_rx_buf \in Content \cup {"none"}
        /\ UNCHANGED <<line, ring, rev>>
    BY DEF LcdThread, Wake, Empty, Process, Refresh, receiver, mailbox, TypeOK
  <1>2. lcd_rx_len' \in {lcd_rx_len, "none"}
    BY DEF LcdThread, Wake, Empty, Process, Refresh, mailbox
  <1>3. lcd_rx_sem' \in {lcd_rx_sem, lcd_rx_sem - 1} \cap Nat
    BY DEF LcdThread, Wake, Empty, Process, Refresh, TypeOK
  <1>4. lcd_crc_sem' \in 0..lcd_crc_sem
    BY DEF LcdThread, Wake, Empty, Process, Refresh, TypeOK
  <1>. QED BY <1>1, <1>2, <1>3, <1>4 DEF Channel!Consume

LEMMA ChannelStep ==
  ReceiverInv /\ StoringHeld /\ [Next]_vars => [Channel!ChannelNext]_Channel!channel
  <1>. SUFFICES ASSUME ReceiverInv, StoringHeld, [Next]_vars
                PROVE  Channel!ChannelNext \/ UNCHANGED Channel!channel
    OBVIOUS
  <1>0. TypeOK
    BY DEF ReceiverInv
  <1>1. ASSUME NEW f \in Frame, Send(f) PROVE Channel!ChannelNext
    <2>1. Frame = Channel!Frame
      BY LcdReceiverAssumption DEF Content, Channel!Frame
    <2>. QED BY <1>0, <1>1, <2>1, ChannelSend DEF Channel!ChannelNext
  <1>2. CASE LoseByte \/ Read \/ PollSkipsByte \/ PollWaits
    BY <1>2, ChannelLoses DEF Channel!ChannelNext
  <1>3. CASE PollFindsAck \/ PollFindsFrame \/ StoreFrame
    BY <1>3, ChannelPasses DEF Channel!ChannelNext
  <1>4. CASE LcdThread
    BY <1>0, <1>4, ChannelConsumes DEF Channel!ChannelNext
  <1>5. CASE PollEnds \/ UNCHANGED vars
    <2>1. rev \in [pc: {"read", "poll", "store"}, frame: Content \cup {"none"}]
      BY <1>0 DEF TypeOK
    <2>2. rev'.frame = rev.frame
      BY <1>5, <2>1 DEF PollEnds, vars, receiver
    <2>. QED
      BY <1>5, <2>2, NothingLostUnderWay DEF PollEnds, vars, receiver, mailbox
  <1>. QED BY <1>1, <1>2, <1>3, <1>4, <1>5 DEF Next, SendAny, Poll

(* The receiver thread implements LcdChannel: of the frames the screen     *)
(* sends it passes some on, whole, in their order, each once, or once more *)
(* if the LCD thread emptied the buffer meanwhile; a frame gets lost only  *)
(* with its first byte (lcd.c:214-362, lcd.c:372-388).                     *)
THEOREM PromiseKept == Spec => ImplementsChannel
  <1>1. Init => ReceiverInv /\ StoringHeld /\ Channel!ChannelInit
    BY ReceiverInit, StoringInit, ChannelInit
  <1>2. ReceiverInv /\ StoringHeld /\ [Next]_vars => (ReceiverInv /\ StoringHeld)'
    BY ReceiverStep, StoringStep
  <1>. QED
    BY <1>1, <1>2, ChannelStep, PTL DEF Spec, ImplementsChannel, Channel!ChannelSpec
=============================================================================
