---------------------------- MODULE LcdReceiver ----------------------------
(***************************************************************************)
(* The receiver thread of the LCD at the level of bytes: the serial line,  *)
(* the ring buffer, the search for frames, and the hand-over of a frame to *)
(* the LCD thread's loop through one buffer and a counting semaphore.      *)
(*                                                                         *)
(* A byte is known by the frame it is of and its place in it; its value    *)
(* matters in three places only.  Places 1 and 2 are the header 5A A5.     *)
(* Place 3 is the length.  After a lost byte the place of the length is    *)
(* taken by a command byte, 80 to 83: a length no ring buffer can hold.    *)
(* A check sum is right exactly for the bytes of one frame, all of them in *)
(* their order.                                                            *)
(***************************************************************************)
EXTENDS Integers, Sequences, FiniteSetsExt, SequencesExt

CONSTANTS
  Length,       \* the frames of the screen with their number of bytes
  RingSize,     \* LCD_RX_BUF_LEN
  ErrLimit,     \* incomplete polls before the ring buffer is given up: 5
  MaxAhead,     \* bound on the posts not yet taken when the screen sends
  MaxNoise      \* bound on the bytes lost

Frame   == DOMAIN Length
Content == Frame \ {"ack"}

ASSUME LcdReceiverAssumption ==
  /\ "ack" \in Frame /\ Length["ack"] = 7
  /\ {"none", "torn", "huge"} \cap Frame = {}
  /\ RingSize \in Nat
  /\ \A f \in Frame : Length[f] \in 7..RingSize-1
  /\ ErrLimit \in Nat /\ MaxAhead \in Nat \ {0} /\ MaxNoise \in Nat

VARIABLES
  line,         \* bytes sent that the thread has not read
  ring,         \* lcd_uart: the bytes between rxout and rxin
  data_err,     \* polls that found an incomplete frame
  rev,          \* receiver thread: program counter, the frame being stored
  lcd_rx_buf,   \* the frame in the buffer
  lcd_rx_len,   \* the frame whose length it holds, "none" if 0
  lcd_rx_sem,
  lcd_crc_sem,
  lcd,          \* LCD thread: program counter and dgus_buf
  noise         \* bytes that may still be lost

receiver == <<ring, data_err, rev>>
mailbox  == <<lcd_rx_buf, lcd_rx_len>>
vars     == <<line, receiver, mailbox, lcd_rx_sem, lcd_crc_sem, lcd, noise>>

Bytes(f) == [k \in 1..Length[f] |-> [of |-> f, k |-> k]]

Init ==
  /\ line = <<>> /\ ring = <<>>
  /\ data_err = 0
  /\ rev = [pc |-> "read", frame |-> "none"]
  /\ lcd_rx_buf = "none" /\ lcd_rx_len = "none"
  /\ lcd_rx_sem = 0 /\ lcd_crc_sem = 0
  /\ lcd = [pc |-> "wait", dgus_buf |-> "none"]
  /\ noise = MaxNoise
-----------------------------------------------------------------------------
(* The screen.  Nothing stops it from sending while a frame is processed.  *)
(* What comes while the ring buffer is searched is as good as coming after.*)
VMIN == 7

Send(f) ==
  /\ rev.pc = "read" /\ Len(line) < VMIN /\ lcd_rx_sem + lcd_crc_sem < MaxAhead
  /\ line' = line \o Bytes(f)
  /\ UNCHANGED <<receiver, mailbox, lcd_rx_sem, lcd_crc_sem, lcd, noise>>

LoseByte ==
  /\ noise > 0 /\ rev.pc = "read"
  /\ \E k \in DOMAIN line : line' = RemoveAt(line, k)
  /\ noise' = noise - 1
  /\ UNCHANGED <<receiver, mailbox, lcd_rx_sem, lcd_crc_sem, lcd>>
-----------------------------------------------------------------------------
(* Mutant: the ring buffer is filled to the last byte and beyond.          *)
RoomUntested(n) == n

(* A full ring buffer holds one byte less than its size.                   *)
RoomLeft(n) == Min({n, RingSize - 1 - Len(ring)})

(* read returns with at least VMIN bytes, those that have come by then;    *)
(* with fewer on the line it waits for more.  What does not fit into the   *)
(* ring buffer is dropped.                                                 *)
Read ==
  /\ rev.pc = "read"
  /\ \E n \in VMIN..Min({Len(line), RingSize}) :
       LET kept == RoomLeft(n)
       IN  /\ ring' = ring \o SubSeq(line, 1, kept)
           /\ line' = SubSeq(line, n + 1, Len(line))
  /\ rev' = [rev EXCEPT !.pc = "poll"]
  /\ UNCHANGED <<data_err, mailbox, lcd_rx_sem, lcd_crc_sem, lcd, noise>>

(* What a turn of lcd_uart_data_poll finds at the front of the ring.       *)
HeaderFirst == ring[1].k = 1 /\ ring[2].k = 2

(* The frame the length byte announces; "huge" if it is a command byte.    *)
Announced == IF ring[3].k = 3 THEN ring[3].of ELSE "huge"

Complete == Announced # "huge" /\ Len(ring) >= Length[Announced]

(* Mutant: the check sum is not tested.                                    *)
CrcTaken == TRUE

CrcRight == SubSeq(ring, 1, Length[Announced]) = Bytes(Announced)

Drop(n) == ring' = SubSeq(ring, n + 1, Len(ring))

(* Fewer than seven bytes: back to reading.                                *)
PollEnds ==
  /\ rev.pc = "poll" /\ Len(ring) < 7
  /\ rev' = [rev EXCEPT !.pc = "read"]
  /\ UNCHANGED <<line, ring, data_err, mailbox, lcd_rx_sem, lcd_crc_sem, lcd, noise>>

PollSkipsByte ==
  /\ rev.pc = "poll" /\ Len(ring) >= 7
  /\ ~HeaderFirst \/ (Complete /\ ~CrcRight)
  /\ Drop(1)
  /\ UNCHANGED <<line, data_err, rev, mailbox, lcd_rx_sem, lcd_crc_sem, lcd, noise>>

PollFindsAck ==
  /\ rev.pc = "poll" /\ Len(ring) >= 7
  /\ HeaderFirst /\ Announced = "ack" /\ CrcRight
  /\ Drop(7)
  /\ lcd_crc_sem' = lcd_crc_sem + 1
  /\ UNCHANGED <<line, data_err, rev, mailbox, lcd_rx_sem, lcd, noise>>

PollFindsFrame ==
  /\ rev.pc = "poll" /\ Len(ring) >= 7
  /\ HeaderFirst /\ Announced # "ack" /\ Complete /\ CrcRight
  /\ lcd_rx_len' = Announced
  /\ rev' = [pc |-> "store", frame |-> Announced]
  /\ UNCHANGED <<line, ring, data_err, lcd_rx_buf, lcd_rx_sem, lcd_crc_sem, lcd, noise>>

(* lcd_rx_len is read again for the copy and for the new rxout, or kept in *)
(* a register: the LCD thread may have set it to 0.                        *)
StoreFrame ==
  /\ rev.pc = "store"
  /\ \/ lcd_rx_buf' = rev.frame /\ Drop(Length[rev.frame])
     \/ lcd_rx_len = "none" /\ UNCHANGED <<lcd_rx_buf, ring>>
  /\ lcd_rx_sem' = lcd_rx_sem + 1
  /\ rev' = [pc |-> "poll", frame |-> "none"]
  /\ UNCHANGED <<line, data_err, lcd_rx_len, lcd_crc_sem, lcd, noise>>

(* Mutant: the ring buffer is never given up.                              *)
PollWaitsOn ==
  /\ rev.pc = "poll" /\ Len(ring) >= 7 /\ HeaderFirst /\ ~Complete
  /\ data_err' = IF data_err < ErrLimit THEN data_err + 1 ELSE data_err
  /\ rev' = [rev EXCEPT !.pc = "read"]
  /\ UNCHANGED <<line, ring, mailbox, lcd_rx_sem, lcd_crc_sem, lcd, noise>>

(* An incomplete frame waits for its rest.  The polls that find one are    *)
(* counted, whichever frame it is; a frame that is completed does not      *)
(* reset the count.                                                        *)
PollWaits ==
  /\ rev.pc = "poll" /\ Len(ring) >= 7 /\ HeaderFirst /\ ~Complete
  /\ IF data_err < ErrLimit
     THEN data_err' = data_err + 1 /\ UNCHANGED ring
     ELSE data_err' = 0 /\ ring' = <<>>
  /\ rev' = [rev EXCEPT !.pc = "read"]
  /\ UNCHANGED <<line, mailbox, lcd_rx_sem, lcd_crc_sem, lcd, noise>>

Poll ==
  \/ PollEnds \/ PollSkipsByte \/ PollFindsAck \/ PollFindsFrame \/ StoreFrame
  \/ PollWaits
-----------------------------------------------------------------------------
(* The LCD thread's loop.  The buffer is copied with the length as it is   *)
(* by then.  A copy shorter than the frame keeps the rest of the one       *)
(* before; a copy made while the receiver writes may be of both frames.    *)
Copied ==
  LET whole(f) == IF f \in Content /\ lcd_rx_len \in Content
                       /\ (Length[lcd_rx_len] >= Length[f] \/ lcd.dgus_buf = f)
                  THEN f ELSE "torn"
  IN  {whole(lcd_rx_buf)} \cup
      (IF rev.pc = "store" THEN {whole(rev.frame), "torn"} ELSE {})

Wake ==
  /\ lcd.pc = "wait" /\ lcd_rx_sem > 0
  /\ lcd_rx_sem' = lcd_rx_sem - 1
  /\ IF lcd_rx_len = "none" THEN UNCHANGED lcd
     ELSE \E f \in Copied : lcd' = [pc |-> "copied", dgus_buf |-> f]
  /\ UNCHANGED <<line, receiver, mailbox, lcd_crc_sem, noise>>

(* Mutant: the copy is trusted.                                            *)
EmptyTrusting ==
  /\ lcd.pc = "copied"
  /\ lcd_rx_len' = "none"
  /\ lcd' = [lcd EXCEPT !.pc = "process"]
  /\ UNCHANGED <<line, receiver, lcd_rx_buf, lcd_rx_sem, lcd_crc_sem, noise>>

(* The buffer is marked empty, also of a frame that came since the copy.   *)
(* The check sum is tested once more.                                      *)
Empty ==
  /\ lcd.pc = "copied"
  /\ lcd_rx_len' = "none"
  /\ lcd' = [lcd EXCEPT !.pc = IF lcd.dgus_buf = "torn" THEN "wait" ELSE "process"]
  /\ UNCHANGED <<line, receiver, lcd_rx_buf, lcd_rx_sem, lcd_crc_sem, noise>>

(* ui_process; the transactions in it take acknowledgements.               *)
Process ==
  /\ lcd.pc = "process"
  /\ lcd_crc_sem' = 0
  /\ lcd' = [lcd EXCEPT !.pc = "wait"]
  /\ UNCHANGED <<line, receiver, mailbox, lcd_rx_sem, noise>>

(* Nothing came for 100 ms: the page is refreshed, with its transactions.  *)
Refresh ==
  /\ lcd.pc = "wait" /\ lcd_rx_sem = 0 /\ lcd_crc_sem > 0
  /\ lcd_crc_sem' = 0
  /\ UNCHANGED <<line, receiver, mailbox, lcd_rx_sem, lcd, noise>>

LcdThread == Wake \/ Empty \/ Process \/ Refresh

SendAny == \E f \in Frame : Send(f)
SendContent == \E f \in Content : Send(f)

Next == SendAny \/ LoseByte \/ Read \/ Poll \/ LcdThread

(* Both threads run on.  That the screen has something to say now and then *)
(* is an assumption about its operator.                                    *)
Fairness == WF_vars(Read) /\ WF_vars(Poll) /\ WF_vars(LcdThread)

Spec == Init /\ [][Next]_vars /\ Fairness
-----------------------------------------------------------------------------
Place == {b \in [of: Frame, k: Nat] : b.k \in 1..Length[b.of]}

(* Every variable has its type; the ring buffer never holds more than one  *)
(* byte less than its size, or full could not be told from empty.          *)
TypeOK ==
  /\ line \in Seq(Place)
  /\ ring \in Seq(Place) /\ Len(ring) < RingSize
  /\ data_err \in 0..ErrLimit
  /\ rev \in [pc: {"read", "poll", "store"}, frame: Content \cup {"none"}]
  /\ lcd_rx_buf \in Content \cup {"none"}
  /\ lcd_rx_len \in Content \cup {"none"}
  /\ lcd_rx_sem \in Nat /\ lcd_crc_sem \in Nat
  /\ lcd \in [pc: {"wait", "copied", "process"}, dgus_buf: Content \cup {"none", "torn"}]
  /\ noise \in 0..MaxNoise

(* Whatever a lost byte has made of the ring buffer, the thread finds back *)
(* to the frames: as long as the screen goes on sending, frames are passed *)
(* on ("more than 5 times: the data at hand is invalid, clear",            *)
(* lcd.c:310).                                                             *)
FindsBack == []<><<SendContent>>_vars => []<>(rev.pc = "store")

(* What is processed was sent: no mixture of two frames, no half of one.   *)
WholeFramesOnly == lcd.pc = "process" => lcd.dgus_buf \in Content

(* As long as no byte is lost, no frame is given up while it arrives: what *)
(* is given up is "invalid data" (lcd.c:310), "part of the data lost"      *)
(* (lcd.c:75).                                                             *)
IntactFramesKept == [][noise = MaxNoise /\ PollWaits => UNCHANGED ring]_vars

(* The frames whose first byte is among the bytes, in their order.          *)
FirstFrames(bytes) ==
  LET frames[n \in 0..Len(bytes)] ==
        IF n = 0 THEN <<>>
        ELSE IF bytes[n].k = 1 THEN Append(frames[n-1], bytes[n].of)
        ELSE frames[n-1]
  IN  frames[Len(bytes)]

(* The threads together keep the promise of LcdChannel.  A frame is under  *)
(* way as long as its first byte is.                                       *)
Channel == INSTANCE LcdChannel WITH
  Ack <- "ack", NoFrame <- "none",
  transit <- FirstFrames(ring \o line),
  storing <- rev.frame

ImplementsChannel == Channel!ChannelSpec
=============================================================================
