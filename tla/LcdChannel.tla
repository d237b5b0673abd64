----------------------------- MODULE LcdChannel -----------------------------
(***************************************************************************)
(* What the receiver thread of the LCD promises the LCD thread: of the     *)
(* frames the screen sends it passes some on, whole and in their order.    *)
(* An acknowledgement is a post of lcd_crc_sem; any other frame is put     *)
(* into the one buffer lcd_rx_buf, over whatever is there, and announced   *)
(* by a post of lcd_rx_sem.                                                *)
(***************************************************************************)
EXTENDS Naturals, Sequences

CONSTANTS
  Content,      \* the frames other than the acknowledgement
  Ack,          \* the acknowledgement
  NoFrame       \* an empty buffer

Frame == Content \cup {Ack}

VARIABLES
  transit,      \* frames the screen has sent, to be received or lost
  lcd_rx_buf,   \* the frame in the buffer, empty before the first
  lcd_rx_len,   \* the frame whose length lcd_rx_len holds, NoFrame if it is 0
  storing,      \* the frame the receiver is about to copy, or NoFrame
  lcd_rx_sem,   \* the two semaphores
  lcd_crc_sem

mailbox == <<lcd_rx_buf, lcd_rx_len, storing>>
channel == <<transit, mailbox, lcd_rx_sem, lcd_crc_sem>>

ChannelInit ==
  /\ transit = <<>>
  /\ lcd_rx_buf = NoFrame /\ lcd_rx_len = NoFrame /\ storing = NoFrame
  /\ lcd_rx_sem = 0 /\ lcd_crc_sem = 0

Send(f) ==
  /\ transit' = Append(transit, f)
  /\ UNCHANGED <<mailbox, lcd_rx_sem, lcd_crc_sem>>

(* Noise, an overflow of the ring buffer, or a ring buffer given up.       *)
Lose ==
  /\ \E k \in DOMAIN transit : \E rest \in 0..Len(transit) :
       transit' = SubSeq(transit, 1, k - 1) \o SubSeq(transit, k + rest, Len(transit))
  /\ UNCHANGED <<mailbox, lcd_rx_sem, lcd_crc_sem>>

PassAck ==
  /\ storing = NoFrame /\ transit # <<>> /\ Head(transit) = Ack
  /\ transit' = Tail(transit)
  /\ lcd_crc_sem' = lcd_crc_sem + 1
  /\ UNCHANGED <<mailbox, lcd_rx_sem>>

(* The length is stored first ...                                          *)
Announce ==
  /\ storing = NoFrame /\ transit # <<>> /\ Head(transit) \in Content
  /\ storing' = Head(transit) /\ lcd_rx_len' = Head(transit)
  /\ UNCHANGED <<transit, lcd_rx_buf, lcd_rx_sem, lcd_crc_sem>>

(* ... then as many bytes are copied as it says; if the LCD thread has set *)
(* it to 0 meanwhile and it is read again, none, and the frame stays where *)
(* it is and will be parsed once more.                                     *)
Store ==
  /\ storing # NoFrame
  /\ \/ lcd_rx_buf' = storing /\ transit' = Tail(transit)
     \/ lcd_rx_len = NoFrame /\ UNCHANGED <<lcd_rx_buf, transit>>
  /\ storing' = NoFrame
  /\ lcd_rx_sem' = lcd_rx_sem + 1
  /\ UNCHANGED <<lcd_rx_len, lcd_crc_sem>>

(* The LCD thread takes posts and does with the buffer what it likes.      *)
Consume ==
  /\ lcd_rx_len' \in {lcd_rx_len, NoFrame}
  /\ lcd_rx_sem' \in {lcd_rx_sem, lcd_rx_sem - 1} \cap Nat
  /\ lcd_crc_sem' \in 0..lcd_crc_sem
  /\ lcd_rx_buf' \in Content \cup {NoFrame}
  /\ UNCHANGED <<transit, storing>>

ChannelNext ==
  \/ \E f \in Frame : Send(f)
  \/ Lose \/ PassAck \/ Announce \/ Store \/ Consume

ChannelSpec == ChannelInit /\ [][ChannelNext]_channel
=============================================================================
