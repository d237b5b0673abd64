--------------------------- MODULE MCLcdReceiver ---------------------------
(* LcdReceiver for TLC: an acknowledgement, a key and the answer with a    *)
(* register; a ring buffer that one frame and a half fill.                 *)
EXTENDS LcdReceiver, TLC

Frames == "ack" :> 7 @@ "key" :> 11 @@ "reg" :> 10
=============================================================================
