------------------------------ MODULE LcdPanel ------------------------------
(***************************************************************************)
(* The LCD thread with the operator's screen: its loop, the transactions   *)
(* of the link (three tries, an acknowledgement that says nothing of what  *)
(* it acknowledges, answers recognised by little or nothing), the pages of *)
(* OperatorPages, and the receiver as LcdChannel promises it.              *)
(*                                                                         *)
(* The screen is a device of its own: it shows a page, keeps the fields    *)
(* the operator edits, carries out what reaches it in order and sends the  *)
(* keys and values of the operator when they come.  It goes on when the    *)
(* program starts again.                                                   *)
(***************************************************************************)
EXTENDS OperatorPages, LcdChannel

CONSTANTS
  Scenes,       \* what may happen: the keys the operator uses, pairs of page
                \* and offset, and how often what may go wrong, by kind
  MaxPosts,     \* bound on the acknowledgements left over when confirming
  MaxWire       \* bound on the requests on the line

VARIABLES
  Current_page, \* the page the LCD thread believes is shown
  lcd,          \* LCD thread: program counter, dgus_buf, tries left
  wire,         \* requests on their way to the screen
  shown,        \* the page it shows
  fields,       \* the network settings as they stand on page 5
  scene         \* one of Scenes, and what has gone wrong in it

Key(p, k)   == [t |-> "key", page |-> p, key |-> k]
Var(v, x)   == [t |-> "var", var |-> v, value |-> x]
Reg(p)      == [t |-> "reg", page |-> p]
Fields(n)   == [t |-> "fields", net |-> n]

(* What the screen sends.                                                  *)
Sent == {Key(k[1], k[2]) : k \in UNION {s.keys : s \in Scenes}} \cup {Reg(p) : p \in Pages}
          \cup {Fields(n) : n \in Network}
          \cup {Var(v, x) : v \in {"slip", "code"}, x \in BOOLEAN}
          \cup {Var(v, x) : v \in {"low", "high"}, x \in Limits}
Acknowledge == [t |-> "ack"]
Nothing == [t |-> "none"]

(* The operator does not wait; an answer comes after its timeout; a        *)
(* request or a frame is lost; the program starts again.                   *)
Kinds == {"crowded", "late", "lost", "restart"}

(* The settings start with 1 as their limits.                              *)
ASSUME LcdPanelAssumption ==
  /\ Content = Sent /\ Ack = Acknowledge /\ NoFrame = Nothing
  /\ 1 \in Limits
  /\ \A s \in Scenes : s.keys \subseteq Pages \X Nat /\ s.most \in [Kinds -> Nat]

thread == <<Current_page, lcd, todo>>
screen == <<wire, shown, fields>>
pages  == <<ui, sys_cfg>>
vars   == <<thread, pages, channel, screen, scene>>

Fault(kind) ==
  /\ scene.gone[kind] < scene.most[kind]
  /\ scene' = [scene EXCEPT !.gone[kind] = @ + 1]

Begun == [pc |-> "idle", dgus_buf |-> NoFrame, left |-> 2]

Init ==
  /\ sys_cfg \in [net: Nets, low: {1}, high: {1}, led: {FALSE}]
  /\ ui = Unopened(sys_cfg)
  /\ todo = dgus_switch_page(LOGO)
  /\ Current_page = LOGO
  /\ lcd = Begun
  /\ ChannelInit
  /\ wire = <<>> /\ shown \in Pages /\ fields = sys_cfg.net
  /\ \E s \in Scenes : scene = [keys |-> s.keys, most |-> s.most,
                                 gone |-> [kind \in Kinds |-> 0]]
-----------------------------------------------------------------------------
(* The loop: a frame is taken if there is one ...                          *)
Wake ==
  /\ lcd.pc = "idle" /\ todo = <<>> /\ lcd_rx_sem > 0
  /\ lcd_rx_sem' = lcd_rx_sem - 1
  /\ lcd' = IF lcd_rx_len = NoFrame THEN lcd
            ELSE [lcd EXCEPT !.pc = "copied", !.dgus_buf = lcd_rx_buf]
  /\ UNCHANGED <<Current_page, todo, pages, transit, mailbox, lcd_crc_sem, screen, scene>>

(* ... the buffer is marked empty, also of a frame stored since; the clear *)
(* that follows clears no byte.  All that can still matter of what is left *)
(* in it is whether it is the fields of a page or the register ...         *)
Empty ==
  /\ lcd.pc = "copied"
  /\ lcd_rx_len' = NoFrame
  /\ lcd_rx_buf' = IF lcd_rx_buf.t \in {"fields", "reg"} THEN lcd_rx_buf
                   ELSE Fields("garbage")
  /\ lcd' = [lcd EXCEPT !.pc = "process"]
  /\ UNCHANGED <<Current_page, todo, pages, transit, storing, lcd_rx_sem,
                 lcd_crc_sem, screen, scene>>

(* Mutant: a key of another page is dropped.                               *)
ProcessKeyDeaf(key) ==
  /\ key.t = "key"
  /\ IF key.page # Current_page
     THEN todo' = <<>> /\ UNCHANGED pages
     ELSE Button(key.page, key.key)

(* ... and ui_process calls the handler it is for.  A key of another page  *)
(* than the current one only makes the thread ask which page is shown.     *)
ProcessKey(key) ==
  /\ key.t = "key"
  /\ IF key.page # Current_page
     THEN todo' = <<ReadReg>> /\ UNCHANGED pages
     ELSE Button(key.page, key.key)

ProcessVar(var) ==
  /\ var.t = "var"
  /\ VChange(var.var, var.value)

(* The answer to an earlier request: there is no handler for it.           *)
ProcessAnswer(answer) ==
  /\ answer.t \notin {"key", "var"}
  /\ UNCHANGED <<pages, todo>>

ui_process ==
  /\ lcd.pc = "process"
  /\ ProcessKey(lcd.dgus_buf) \/ ProcessVar(lcd.dgus_buf) \/ ProcessAnswer(lcd.dgus_buf)
  /\ lcd' = Begun
  /\ UNCHANGED <<Current_page, channel, screen, scene>>

(* Nothing came for 100 ms.                                                *)
update_page ==
  /\ lcd.pc = "idle" /\ todo = <<>> /\ lcd_rx_sem = 0
  /\ Current_page \in HasPoll /\ Poll(Current_page)
  /\ UNCHANGED <<Current_page, lcd, channel, screen, scene>>
-----------------------------------------------------------------------------
(* The transactions.                                                       *)
Request ==
  /\ lcd.pc = "idle" /\ todo # <<>> /\ Len(wire) < MaxWire
  /\ wire' = Append(wire, Head(todo))
  /\ lcd' = [lcd EXCEPT !.pc = IF Head(todo) = ReadPage THEN "answer" ELSE "ack"]
  /\ UNCHANGED <<Current_page, todo, pages, channel, shown, fields, scene>>

Over == lcd' = Begun /\ todo' = Tail(todo)

(* Three tries; then the command is given up and the handler goes on.      *)
Retry ==
  IF lcd.left > 0
  THEN lcd' = [lcd EXCEPT !.pc = "idle", !.left = @ - 1] /\ UNCHANGED todo
  ELSE Over

(* Any post of lcd_crc_sem is an acknowledgement of the command, one left  *)
(* over as well.  Of reading a register it is only the first half.         *)
Acknowledged ==
  /\ lcd.pc = "ack" /\ lcd_crc_sem > 0
  /\ lcd_crc_sem' = lcd_crc_sem - 1
  /\ IF Head(todo) = ReadReg
     THEN lcd' = [lcd EXCEPT !.pc = "answer"] /\ UNCHANGED <<todo, Current_page>>
     ELSE /\ Over
          /\ Current_page' = IF Head(todo).cmd = "goto" THEN Head(todo).page
                             ELSE Current_page
  /\ UNCHANGED <<pages, transit, mailbox, lcd_rx_sem, screen, scene>>

(* A successful read clears as much of the buffer as lcd_rx_len says.      *)
TakeFrame ==
  /\ lcd_rx_len' = NoFrame
  /\ lcd_rx_buf' = IF lcd_rx_len = NoFrame THEN lcd_rx_buf ELSE NoFrame
  /\ UNCHANGED storing

(* dgus_read_reg: the frame must be the answer with this register, and its *)
(* check sum lie where lcd_rx_len has it, as it does after another answer  *)
(* with a register: all of them are as long.                               *)
RegisterRead ==
  /\ lcd.pc = "answer" /\ Head(todo) = ReadReg /\ lcd_rx_sem > 0
  /\ lcd_rx_sem' = lcd_rx_sem - 1
  /\ IF lcd_rx_buf.t = "reg" /\ lcd_rx_len.t = "reg"
     THEN /\ Current_page' = lcd_rx_buf.page
          /\ Over /\ TakeFrame
     ELSE Retry /\ UNCHANGED <<Current_page, mailbox>>
  /\ UNCHANGED <<pages, transit, lcd_crc_sem, screen, scene>>

(* Mutant: the acknowledgement is taken for the answer.                    *)
PageReadEarly ==
  /\ lcd.pc = "answer" /\ Head(todo) = ReadPage /\ lcd_crc_sem > 0
  /\ lcd_crc_sem' = lcd_crc_sem - 1
  /\ IF lcd_rx_buf = NoFrame THEN Retry /\ UNCHANGED <<pages, mailbox>>
     ELSE /\ Confirm(IF lcd_rx_buf.t = "fields" THEN lcd_rx_buf.net ELSE "garbage")
          /\ lcd' = Begun /\ TakeFrame
  /\ UNCHANGED <<Current_page, transit, lcd_rx_sem, screen, scene>>

(* dgus_read_page: whatever frame is in the buffer when a post of          *)
(* lcd_rx_sem comes is taken for the fields of the page; the               *)
(* acknowledgement is left in its semaphore.                               *)
PageRead ==
  /\ lcd.pc = "answer" /\ Head(todo) = ReadPage /\ lcd_rx_sem > 0
  /\ lcd_rx_sem' = lcd_rx_sem - 1
  /\ IF lcd_rx_buf = NoFrame THEN Retry /\ UNCHANGED <<pages, mailbox>>
     ELSE /\ Confirm(IF lcd_rx_buf.t = "fields" THEN lcd_rx_buf.net ELSE "garbage")
          /\ lcd' = Begun /\ TakeFrame
  /\ UNCHANGED <<Current_page, transit, lcd_crc_sem, screen, scene>>

(* A timeout comes by itself if the request or its answer was lost, and as *)
(* a fault if they are only late.                                          *)
OnItsWay == wire # <<>> \/ transit # <<>> \/ storing # NoFrame

TimedOut ==
  /\ \/ lcd.pc = "ack" /\ lcd_crc_sem = 0
     \/ lcd.pc = "answer" /\ lcd_rx_sem = 0
  /\ IF OnItsWay THEN Fault("late") ELSE UNCHANGED scene
  /\ Retry
  /\ UNCHANGED <<Current_page, pages, channel, screen>>

LcdThread ==
  \/ Wake \/ Empty \/ ui_process \/ update_page
  \/ Request \/ Acknowledged \/ RegisterRead \/ PageRead \/ TimedOut

Receiver ==
  /\ PassAck \/ Announce \/ Store
  /\ UNCHANGED <<thread, pages, screen, scene>>
-----------------------------------------------------------------------------
(* The screen carries out a request, acknowledges it and answers.          *)
Answers(request) ==
  CASE request = ReadReg  -> <<Ack, Reg(shown)>>
    [] request = ReadPage -> <<Ack, Fields(fields)>>
    [] OTHER              -> <<Ack>>

Serve ==
  /\ wire # <<>>
  /\ wire' = Tail(wire)
  /\ LET request == Head(wire)
     IN  /\ shown' = IF request.cmd = "goto" THEN request.page ELSE shown
         /\ fields' = IF request.cmd = "init_ro" THEN request.net ELSE fields
         /\ transit' = transit \o Answers(request)
  /\ UNCHANGED <<thread, pages, mailbox, lcd_rx_sem, lcd_crc_sem, scene>>

(* The operator waits until the last key has had its effect, or does not.  *)
Quiet == lcd.pc = "idle" /\ todo = <<>> /\ wire = <<>> /\ transit = <<>>
         /\ storing = NoFrame /\ lcd_rx_sem = 0

Patiently == IF Quiet THEN UNCHANGED scene ELSE Fault("crowded")

Press ==
  /\ \E k \in KeysOf(shown) :
       /\ <<shown, k>> \in scene.keys /\ Send(Key(shown, k))
       /\ shown = NET /\ k = 1 => lcd_crc_sem < MaxPosts
  /\ Patiently
  /\ UNCHANGED <<thread, pages, screen>>

TypeValue ==
  /\ \E k \in KeysOf(shown) : <<shown, k>> \in scene.keys
  /\ \/ shown = MAIN /\ (\E k \in KeysOf(PASSWORD) : <<PASSWORD, k>> \in scene.keys)
        /\ Send(Var("slip", TRUE))
     \/ shown = LIMITS /\ \E v \in {"low", "high"} : \E x \in Limits : Send(Var(v, x))
     \/ shown = PASSWORD /\ \E x \in BOOLEAN : Send(Var("code", x))
  /\ Patiently
  /\ UNCHANGED <<thread, pages, screen>>

EditFields ==
  /\ shown = NET /\ Quiet
  /\ \E n \in Nets : fields' = n
  /\ UNCHANGED <<thread, pages, channel, wire, shown, scene>>

LoseRequest ==
  /\ wire # <<>> /\ wire' = Tail(wire)
  /\ Fault("lost")
  /\ UNCHANGED <<thread, pages, channel, shown, fields>>

LoseFrame ==
  /\ storing = NoFrame /\ transit # <<>> /\ transit' = Tail(transit)
  /\ Fault("lost")
  /\ UNCHANGED <<thread, pages, mailbox, lcd_rx_sem, lcd_crc_sem, screen>>

(* The program starts again, by itself or by the operator's command; the   *)
(* settings are in the database, the screen goes on.                       *)
Restart ==
  /\ Fault("restart")
  /\ ui' = Unopened(sys_cfg) /\ todo' = <<Goto(LOGO)>>
  /\ Current_page' = LOGO /\ lcd' = Begun
  /\ transit' = <<>> /\ lcd_rx_buf' = NoFrame /\ lcd_rx_len' = NoFrame
  /\ storing' = NoFrame /\ lcd_rx_sem' = 0 /\ lcd_crc_sem' = 0
  /\ wire' = <<>>
  /\ UNCHANGED <<sys_cfg, shown, fields>>

Next ==
  \/ LcdThread \/ Receiver \/ Serve
  \/ Press \/ TypeValue \/ EditFields
  \/ LoseRequest \/ LoseFrame \/ Restart

(* The threads run on and the screen answers what reaches it.  Nothing is  *)
(* assumed of the operator.                                                *)
Fairness == WF_vars(LcdThread) /\ WF_vars(Receiver) /\ WF_vars(Serve)

Spec == Init /\ [][Next]_vars /\ Fairness
-----------------------------------------------------------------------------
(* Every variable has its type.                                            *)
TypeOK ==
  /\ ui \in UI
  /\ sys_cfg \in Setting
  /\ todo \in Seq(Command)
  /\ Current_page \in Pages /\ shown \in Pages
  /\ lcd \in [ pc: {"idle", "copied", "process", "ack", "answer"},
               dgus_buf: Content \cup {NoFrame}, left: 0..2 ]
  /\ transit \in Seq(Frame) /\ wire \in Seq(Command)
  /\ {lcd_rx_buf, lcd_rx_len, storing} \subseteq Content \cup {NoFrame}
  /\ lcd_rx_sem \in Nat /\ lcd_crc_sem \in Nat
  /\ fields \in Network
  /\ \E s \in Scenes : scene.keys = s.keys /\ scene.most = s.most
  /\ \A kind \in Kinds : scene.gone[kind] \in 0..scene.most[kind]

(* Whichever page the screen shows and whatever has been lost, late, taken *)
(* for something else or forgotten by a restart: if the operator goes on   *)
(* pressing keys, the LCD thread finds out which page he sees ("the CPU    *)
(* has restarted and the screen has not: read the page shown",             *)
(* lcd.c:1045).                                                            *)
PageFound == []<><<Press>>_vars => []<>(Current_page = shown)

(* Confirm saves what stands on the page: as long as the operator waits    *)
(* for each key and no answer is late, nothing else is ever taken for the  *)
(* fields of the page, whatever is lost.                                   *)
SavedAsTyped ==
  scene.gone.crowded = 0 /\ scene.gone.late = 0 => sys_cfg.net \in Nets

(* "When data comes back the command sent was right" (lcd.c:785): what     *)
(* confirm saves are the fields of the page.                               *)
ConfirmTakesFields == sys_cfg.net \in Nets
=============================================================================
