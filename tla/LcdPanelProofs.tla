--------------------------- MODULE LcdPanelProofs --------------------------
(***************************************************************************)
(* Theorems about LcdPanel, for any number of nodes, rows and pages of     *)
(* modules, any keys the operator uses and any number of losses, late      *)
(* answers and restarts: every variable keeps its type, and what confirm   *)
(* saves are the fields of the page as long as the operator waits for each *)
(* key and no answer is late.                                              *)
(*                                                                         *)
(* First come the types: what the handlers of OperatorPages do to the      *)
(* pages and leave to be sent, then each action.  Then the phases of an    *)
(* operation: on its way, confirm reading the page, or neither.            *)
(***************************************************************************)
EXTENDS LcdPanel, TLAPS

(* What the operator does, and what else the screen sends.                 *)
Operation == {f \in Content : f.t \in {"key", "var"}}
Report == (Content \cup {Ack}) \ Operation

(* Commands that keep the fields of the page, those that also leave them   *)
(* to themselves, and those of the pages that refresh.                     *)
Kept == {Write, ReadPage, ReadReg} \cup {InitRo(n) : n \in Nets}
          \cup {Goto(p) : p \in Pages}
Unread == Kept \ {ReadPage}
Drawing == {Write, Goto(MAIN), Goto(PASSWORD)}

(* The types, one by one.  A frame that is about to be copied is still     *)
(* where it was found.                                                     *)
LinkTyped ==
  /\ todo \in Seq(Command) /\ wire \in Seq(Command)
  /\ transit \in Seq(Frame)
  /\ lcd_rx_buf \in Content \cup {NoFrame} /\ lcd_rx_len \in Content \cup {NoFrame}
  /\ storing \in Content \cup {NoFrame} /\ (storing # NoFrame => transit # <<>>)
  /\ lcd_rx_sem \in Nat /\ lcd_crc_sem \in Nat

PagesTyped ==
  /\ ui \in UI /\ sys_cfg \in Setting /\ fields \in Network
  /\ Current_page \in Pages /\ shown \in Pages

Threads ==
  [ pc: {"idle", "copied", "process", "ack", "answer"},
    dgus_buf: Content \cup {NoFrame}, left: 0..2 ]

SceneOK ==
  scene \in [ keys: SUBSET (Pages \X Nat), most: [Kinds -> Nat],
              gone: [Kinds -> Nat] ]

SceneTyped ==
  /\ SceneOK
  /\ \E s \in Scenes : scene.keys = s.keys /\ scene.most = s.most
  /\ \A kind \in Kinds : scene.gone[kind] \in 0..scene.most[kind]

(* The operator waits for each key, and no answer is late.                 *)
Waits == scene.gone["crowded"] = 0 /\ scene.gone["late"] = 0

(* A transaction has its command, a frame is processed between commands.   *)
Working ==
  /\ lcd.pc \in {"ack", "answer"} => todo # <<>>
  /\ lcd.pc \in {"copied", "process"} => todo = <<>>

FieldsKept ==
  sys_cfg.net \in Nets /\ fields \in Nets /\ todo \in Seq(Kept) /\ wire \in Seq(Kept)

(* What the operator did last is on its way to its handler: in transit,    *)
(* in the buffer, copied, about to be processed.                           *)
InTransit(f) ==
  /\ lcd.pc \in {"idle", "ack"} /\ lcd_rx_sem = 0
  /\ transit # <<>> /\ Head(transit) = f /\ Tail(transit) \in Seq({Ack})
  /\ storing \in {NoFrame, f} /\ (storing = f => lcd_rx_len = f)
  /\ lcd_rx_buf \notin Operation
  /\ Current_page = NET => Tail(transit) = <<>>

InBuffer(f) ==
  /\ transit \in Seq({Ack}) /\ storing = NoFrame
  /\ Current_page = NET => transit = <<>>
  /\ \/ lcd.pc \in {"idle", "ack"} /\ lcd_rx_sem = 1 /\ lcd_rx_buf = f /\ lcd_rx_len = f
     \/ lcd.pc = "copied" /\ lcd_rx_sem = 0 /\ lcd.dgus_buf = f
     \/ /\ lcd.pc = "process" /\ lcd_rx_sem = 0 /\ lcd.dgus_buf = f
        /\ lcd_rx_buf \notin Operation

OneKey ==
  /\ todo \in Seq(Drawing) /\ wire \in Seq(Drawing)
  /\ Current_page = NET => todo = <<>> /\ wire = <<>>
  /\ \E f \in Operation : InTransit(f) \/ InBuffer(f)

(* Confirm reads the page: nothing else is on its way.                     *)
Calm ==
  transit = <<>> /\ storing = NoFrame /\ lcd_rx_sem = 0 /\ lcd_rx_buf \notin Operation

Awaited(f) ==
  /\ wire = <<>>
  /\ \/ /\ transit \in {<<Ack, f>>, <<f>>} /\ lcd_rx_sem = 0 /\ lcd_rx_buf \notin Operation
        /\ \/ storing = NoFrame
           \/ storing = f /\ lcd_rx_len = f /\ transit = <<f>>
     \/ transit = <<>> /\ storing = NoFrame /\ lcd_rx_sem = 1 /\ lcd_rx_buf = f

Reading ==
  /\ todo = <<ReadPage>>
  /\ \/ lcd.pc = "idle" /\ wire = <<>> /\ Calm
     \/ lcd.pc = "answer" /\ wire \in {<<>>, <<ReadPage>>} /\ Calm
     \/ lcd.pc = "answer" /\ \E n \in Nets : Awaited(Fields(n))

(* Neither a key nor a reading of the page is on its way.                  *)
Undisturbed ==
  /\ todo \in Seq(Unread) /\ transit \in Seq(Report)
  /\ storing \notin Operation /\ lcd_rx_buf \notin Operation
  /\ lcd.pc \in {"copied", "process"} => lcd.dgus_buf \notin Operation

PanelTyped == LinkTyped /\ PagesTyped /\ lcd \in Threads /\ SceneTyped /\ Working
Phase == FieldsKept /\ (OneKey \/ Reading \/ Undisturbed)
PanelInv == PanelTyped /\ (Waits => Phase)
-----------------------------------------------------------------------------
(* Frames and commands are told apart.                                     *)
LEMMA AnswerForms ==
  ASSUME NEW f \in Content
  PROVE  /\ f.t \in {"key", "var", "reg", "fields"}
         /\ f.t = "key" => f.page \in Pages /\ f.key \in Nat
         /\ f.t = "reg" => f.page \in Pages
         /\ f.t = "fields" => f.net \in Network
         /\ f.t = "var" => \/ f.var \in {"slip", "code"} /\ f.value \in BOOLEAN
                           \/ f.var \in {"low", "high"} /\ f.value \in Limits
  <1>1. f \in Sent
    BY LcdPanelAssumption
  <1>2. CASE f \in {Key(k[1], k[2]) : k \in UNION {s.keys : s \in Scenes}}
    <2>1. PICK k \in UNION {s.keys : s \in Scenes} : f = Key(k[1], k[2])
      BY <1>2
    <2>2. PICK s \in Scenes : k \in s.keys
      BY <2>1
    <2>3. k \in Pages \X Nat
      BY <2>2, LcdPanelAssumption
    <2>. QED BY <2>1, <2>3 DEF Key
  <1>3. CASE f \in {Reg(p) : p \in Pages}
    BY <1>3 DEF Reg
  <1>4. CASE f \in {Fields(n) : n \in Network}
    BY <1>4 DEF Fields
  <1>5. CASE f \in {Var(v, x) : v \in {"slip", "code"}, x \in BOOLEAN}
    BY <1>5 DEF Var
  <1>6. CASE f \in {Var(v, x) : v \in {"low", "high"}, x \in Limits}
    BY <1>6 DEF Var
  <1>. QED BY <1>1, <1>2, <1>3, <1>4, <1>5, <1>6 DEF Sent

LEMMA FramesDiffer ==
  /\ Ack \notin Content /\ NoFrame \notin Content /\ Ack # NoFrame
  /\ Operation \subseteq Content /\ Ack \notin Operation /\ NoFrame \notin Operation
  /\ Ack.t = "ack" /\ NoFrame.t = "none"
  /\ \A n \in Network : Fields(n) \in Content \ Operation
  /\ \A p \in Pages : Reg(p) \in Content \ Operation
  <1>1. Ack.t = "ack" /\ NoFrame.t = "none"
    BY LcdPanelAssumption DEF Acknowledge, Nothing
  <1>2. \A f \in Content : f.t \in {"key", "var", "reg", "fields"}
    BY AnswerForms
  <1>3. ASSUME NEW n \in Network PROVE Fields(n) \in Content \ Operation
    <2>1. Fields(n).t = "fields"
      BY DEF Fields
    <2>. QED BY <2>1, LcdPanelAssumption DEF Sent, Operation
  <1>4. ASSUME NEW p \in Pages PROVE Reg(p) \in Content \ Operation
    <2>1. Reg(p).t = "reg"
      BY DEF Reg
    <2>. QED BY <2>1, LcdPanelAssumption DEF Sent, Operation
  <1>. QED BY <1>1, <1>2, <1>3, <1>4 DEF Operation

LEMMA CommandsDiffer ==
  /\ ReadPage # ReadReg /\ ReadPage \notin Drawing
  /\ Kept \subseteq Command /\ Drawing \subseteq Unread /\ Unread \subseteq Kept
  /\ ReadReg \in Unread /\ ReadPage \in Kept
  /\ \A c \in Kept : c.cmd = "init_ro" => c.net \in Nets
  /\ \A c \in Command : /\ c.cmd = "goto" => c.page \in Pages
                        /\ c.cmd = "init_ro" => c.net \in Network
  /\ ReadPage.cmd = "read_page" /\ ReadReg.cmd = "read_reg"
  /\ \A c \in Drawing : /\ c # ReadReg /\ c # ReadPage
                        /\ c.cmd # "init_ro"
                        /\ (c.cmd = "goto" => c.page \in {MAIN, PASSWORD})
  BY DEF ReadPage, ReadReg, Write, Goto, InitRo, Drawing,
         Kept, Unread, Command, Network, MAIN, PASSWORD, Pages

LEMMA AnswersForm ==
  ASSUME PagesTyped
  PROVE  /\ \A c \in Command : Answers(c) \in Seq(Report)
         /\ \A c \in Drawing : Answers(c) = <<Ack>>
         /\ Answers(ReadPage) = <<Ack, Fields(fields)>>
  <1>1. /\ Ack \in Report /\ Fields(fields) \in Report /\ Reg(shown) \in Report
    BY FramesDiffer DEF Report, PagesTyped
  <1>2. \A c \in Drawing : c # ReadReg /\ c # ReadPage
    BY CommandsDiffer
  <1>3. ReadPage # ReadReg
    BY CommandsDiffer
  <1>4. <<Ack>> \in Seq(Report) /\ <<Ack, Fields(fields)>> \in Seq(Report)
        /\ <<Ack, Reg(shown)>> \in Seq(Report)
    BY <1>1
  <1>. QED BY <1>2, <1>3, <1>4 DEF Answers
-----------------------------------------------------------------------------
(* The pages.                                                              *)

(* What opening a page, and showing things on it, takes.                   *)
Display(n) == {Write, InitRo(n)} \cup {Goto(p) : p \in Pages}

LEMMA Quotient ==
  ASSUME NEW m \in Nat \ {0}, NEW d \in Nat \ {0}, m % d = 0
  PROVE  m \div d \in Nat \ {0}
  <1>1. m = d * (m \div d) + (m % d) /\ m \div d \in Int
    OBVIOUS
  <1>2. d * (m \div d) > 0
    BY <1>1
  <1>. QED BY <1>1, <1>2

LEMMA Numbers ==
  /\ MAX_NODE \in Nat \ {0} /\ Rows \in Nat \ {0} /\ PerModulePage \in Nat \ {0}
  /\ StepRows \in Nat \ {0} /\ StepNums \subseteq Nat
  /\ PAGE_SUM \in Nat /\ MAX_NODE \div ValueRows - 1 \in Nat
  /\ 0 * PerModulePage < MAX_NODE
  <1>1. /\ \A n \in {MAX_NODE, Rows, ValueRows, StepRows, PerModulePage} : n \in Nat \ {0}
        /\ MAX_NODE % Rows = 0 /\ MAX_NODE % ValueRows = 0 /\ StepNums \subseteq Nat
    BY OperatorPagesAssumption
  <1>2. MAX_NODE \div Rows \in Nat \ {0} /\ MAX_NODE \div ValueRows \in Nat \ {0}
    BY <1>1, Quotient
  <1>. QED BY <1>1, <1>2 DEF PAGE_SUM

LEMMA PageInitTyped ==
  ASSUME sys_cfg \in Setting, NEW p \in Pages, NEW u \in UI
  PROVE  PageInit(p, u) \in UI
  <1>1. Temp(sys_cfg) \in [low: Limits, high: Limits, led: BOOLEAN]
    BY DEF Temp, Setting
  <1>2. sys_cfg.net \in Network
    BY DEF Setting
  <1>3. 0 \in Offsets
    BY Numbers DEF Offsets
  <1>4. 0 \in 0..MAX_NODE \div ValueRows - 1
    BY Numbers
  <1>5. [u EXCEPT !.page5_ro_var = sys_cfg.net] \in UI
    BY <1>2 DEF UI
  <1>6. [u EXCEPT !.page7_offset = 0, !.module_cnt = 0] \in UI
    <2>1. [u EXCEPT !.page7_offset = 0] \in UI
      BY <1>3 DEF UI
    <2>2. ASSUME NEW v \in UI PROVE [v EXCEPT !.module_cnt = 0] \in UI
      BY DEF UI
    <2>3. [u EXCEPT !.page7_offset = 0, !.module_cnt = 0]
            = [[u EXCEPT !.page7_offset = 0] EXCEPT !.module_cnt = 0]
      OBVIOUS
    <2>. QED BY <2>1, <2>2, <2>3
  <1>7. [u EXCEPT !.temp = Temp(sys_cfg)] \in UI
    BY <1>1 DEF UI
  <1>8. [u EXCEPT !.page9_step_check_page = 0] \in UI
    BY DEF UI
  <1>9. [u EXCEPT !.page10_cnt_poll = 0] \in UI
    BY <1>4 DEF UI
  <1>. QED BY <1>5, <1>6, <1>7, <1>8, <1>9 DEF PageInit

LEMMA SwitchPage ==
  ASSUME NEW p \in Pages
  PROVE  /\ dgus_switch_page(p) \in Seq(Display(sys_cfg.net))
         /\ p \in {MAIN, PASSWORD} => dgus_switch_page(p) \in Seq(Drawing)
  <1>0. /\ Write \in Display(sys_cfg.net)
        /\ InitRo(sys_cfg.net) \in Display(sys_cfg.net)
        /\ Goto(p) \in Display(sys_cfg.net)
    BY DEF Display
  <1>1. /\ <<>> \in Seq(Display(sys_cfg.net)) /\ <<Write>> \in Seq(Display(sys_cfg.net))
        /\ <<InitRo(sys_cfg.net)>> \in Seq(Display(sys_cfg.net))
        /\ <<Goto(p)>> \in Seq(Display(sys_cfg.net))
    BY <1>0
  <1>2. InitCommands(p) \in Seq(Display(sys_cfg.net))
    BY <1>1 DEF InitCommands
  <1>3. (IF p \in HasWo THEN <<Write>> ELSE <<>>) \in Seq(Display(sys_cfg.net))
    BY <1>1
  <1>4. ASSUME p \in {MAIN, PASSWORD}
        PROVE  dgus_switch_page(p) \in Seq(Drawing)
    <2>1. InitCommands(p) = <<>>
      BY <1>4 DEF InitCommands, MAIN, PASSWORD, NET, NODE,
           GROUPS, MODULES, LIMITS, STEPS, VALUES, OPERATOR
    <2>2. Write \in Drawing /\ Goto(p) \in Drawing
      BY <1>4 DEF Drawing
    <2>3. (IF p \in HasWo THEN <<Write>> ELSE <<>>) \in Seq(Drawing)
      BY <2>2
    <2>. QED BY <2>1, <2>2, <2>3 DEF dgus_switch_page
  <1>. QED BY <1>1, <1>2, <1>3, <1>4 DEF dgus_switch_page

LEMMA LeaveLemma ==
  ASSUME sys_cfg \in Setting, NEW u \in UI,
         NEW commands \in {<<>>, <<Write>>}, NEW p \in Pages \cup {STAY},
         Leave(u, commands, p)
  PROVE  /\ ui' \in UI
         /\ todo' \in Seq(Display(sys_cfg.net))
         /\ p \in {MAIN, PASSWORD, STAY} => todo' \in Seq(Drawing)
  <1>0. Write \in Display(sys_cfg.net) /\ Write \in Drawing
    BY DEF Display, Drawing
  <1>1. commands \in Seq(Display(sys_cfg.net)) /\ commands \in Seq(Drawing)
    <2>1. CASE commands = <<>>
      BY <2>1
    <2>2. CASE commands = <<Write>>
      <3>1. commands \in Seq(Display(sys_cfg.net))
        BY <1>0, <2>2
      <3>2. commands \in Seq(Drawing)
        BY <1>0, <2>2
      <3>. QED BY <3>1, <3>2
    <2>. QED BY <2>1, <2>2
  <1>2. CASE p = STAY
    BY <1>1, <1>2 DEF Leave
  <1>3. CASE p # STAY
    <2>1. p \in Pages /\ ui' = PageInit(p, u)
          /\ todo' = commands \o dgus_switch_page(p)
      BY <1>3 DEF Leave
    <2>2. dgus_switch_page(p) \in Seq(Display(sys_cfg.net))
          /\ (p \in {MAIN, PASSWORD}
                => dgus_switch_page(p) \in Seq(Drawing))
      BY <2>1, SwitchPage
    <2>. QED BY <1>1, <1>3, <2>1, <2>2, PageInitTyped
  <1>. QED BY <1>2, <1>3

(* What a handler may leave behind.                                        *)
Handled ==
  /\ ui' \in UI
  /\ sys_cfg' \in Setting /\ sys_cfg'.net = sys_cfg.net
  /\ todo' \in Seq(Display(sys_cfg.net))

Shows(p) ==
  \E u \in UI : \E c \in {<<>>, <<Write>>} : Leave(u, c, p)

Goes == \E p \in Pages \cup {STAY} : Shows(p)

LEMMA GoesHandled ==
  ASSUME sys_cfg \in Setting, Goes,
         sys_cfg' \in Setting, sys_cfg'.net = sys_cfg.net
  PROVE  Handled
  <1>1. PICK p \in Pages \cup {STAY} : Shows(p)
    BY DEF Goes
  <1>2. PICK u \in UI : \E c \in {<<>>, <<Write>>} : Leave(u, c, p)
    BY <1>1 DEF Shows
  <1>3. PICK c \in {<<>>, <<Write>>} : Leave(u, c, p)
    BY <1>2
  <1>. QED BY <1>3, LeaveLemma DEF Handled

LEMMA PageNumbers ==
  /\ {LOGO, MAIN, NODE, OPTIONS, NET, GROUPS,
      MODULES, LIMITS, STEPS, VALUES, PASSWORD,
      OPERATOR} \subseteq Pages
  /\ NET \notin {MAIN, PASSWORD, LOGO, OPTIONS} \cup HasPoll
  BY DEF LOGO, MAIN, NODE, OPTIONS, NET, GROUPS,
         MODULES, LIMITS, STEPS, VALUES, PASSWORD,
         OPERATOR, Pages, HasPoll

LEMMA TurnLemma ==
  ASSUME ui \in UI,
         NEW commands \in {<<>>, <<Write>>}, NEW lim \in Nat,
         NEW number \in {"step_group_select", "page9_step_check_page", "page10_cnt_poll"},
         NEW by \in {-1, 1}, by = -1 => lim = 0,
         by = 1 => \/ number = "step_group_select" /\ lim = PAGE_SUM
                   \/ number = "page10_cnt_poll" /\ lim = MAX_NODE \div ValueRows - 1,
         Turn(lim, number, by, commands)
  PROVE  Goes
  <1>1. [ui EXCEPT ![number] = @ + by] \in UI \/ ui[number] = lim
    <2>1. CASE number = "step_group_select"
      <3>1. ui.step_group_select \in 0..PAGE_SUM
        BY DEF UI
      <3>2. ui.step_group_select # lim => ui.step_group_select + by \in 0..PAGE_SUM
        BY <2>1, <3>1, Numbers
      <3>3. ASSUME NEW v \in 0..PAGE_SUM PROVE [ui EXCEPT !.step_group_select = v] \in UI
        BY DEF UI
      <3>. QED BY <2>1, <3>2, <3>3
    <2>2. CASE number = "page9_step_check_page"
      <3>1. ui.page9_step_check_page \in Nat
        BY DEF UI
      <3>2. ui.page9_step_check_page # lim => ui.page9_step_check_page + by \in Nat
        BY <2>2, <3>1, Numbers
      <3>3. ASSUME NEW v \in Nat PROVE [ui EXCEPT !.page9_step_check_page = v] \in UI
        BY DEF UI
      <3>. QED BY <2>2, <3>2, <3>3
    <2>3. CASE number = "page10_cnt_poll"
      <3>1. ui.page10_cnt_poll \in 0..MAX_NODE \div ValueRows - 1
        BY DEF UI
      <3>2. ui.page10_cnt_poll # lim =>
              ui.page10_cnt_poll + by \in 0..MAX_NODE \div ValueRows - 1
        BY <2>3, <3>1, Numbers
      <3>3. ASSUME NEW v \in 0..MAX_NODE \div ValueRows - 1
            PROVE  [ui EXCEPT !.page10_cnt_poll = v] \in UI
        BY DEF UI
      <3>. QED BY <2>3, <3>2, <3>3
    <2>. QED BY <2>1, <2>2, <2>3
  <1>2. \E u \in UI : \/ Leave(u, commands, STAY)
                             \/ Leave(u, <<>>, STAY)
    BY <1>1 DEF Turn
  <1>. QED BY <1>2 DEF Goes, Shows


LEMMA Button1Goes ==
  ASSUME ui \in UI, NEW k \in Nat, Button1(k)
  PROVE  Goes /\ UNCHANGED sys_cfg
  <1>1. [ui EXCEPT !.switch_page_flag = IF @ # 0 THEN @ - 1 ELSE @] \in UI
    BY Numbers DEF UI
  <1>2. [ui EXCEPT !.switch_page_flag = IF @ # PAGE_SUM THEN @ + 1 ELSE @] \in UI
    BY Numbers DEF UI
  <1>. QED BY <1>1, <1>2, PageNumbers DEF Button1, Goes, Shows

LEMMA Button2Goes ==
  ASSUME ui \in UI, NEW k \in Nat, Button2(k)
  PROVE  Goes /\ UNCHANGED sys_cfg
  <1>. QED BY PageNumbers DEF Button2, Goes, Shows

LEMMA Button4Goes ==
  ASSUME ui \in UI, NEW k \in Nat, Button4(k)
  PROVE  Goes /\ UNCHANGED sys_cfg
  <1>. QED BY PageNumbers DEF Button4, Goes, Shows

LEMMA Button5Goes ==
  ASSUME ui \in UI, NEW k \in Nat, Button5(k)
  PROVE  /\ UNCHANGED sys_cfg
         /\ \/ Goes
            \/ UNCHANGED ui /\ todo' = <<ReadPage>>
  <1>1. CASE Leave(ui, <<>>, OPTIONS)
    BY <1>1, PageNumbers DEF Button5, Goes, Shows
  <1>2. CASE Leave(ui, <<ReadPage>>, STAY)
    BY <1>2 DEF Button5, Leave
  <1>. QED BY <1>1, <1>2 DEF Button5

LEMMA Button6Goes ==
  ASSUME ui \in UI, NEW k \in Nat, Button6(k)
  PROVE  Goes /\ UNCHANGED sys_cfg
  <1>1. [ui EXCEPT !.step_group_select = 0] \in UI
    BY Numbers DEF UI
  <1>2. CASE Turn(0, "step_group_select", -1, <<Write>>)
    BY <1>2, TurnLemma DEF Button6
  <1>3. CASE Turn(PAGE_SUM, "step_group_select", 1, <<Write>>)
    BY <1>3, TurnLemma, Numbers DEF Button6
  <1>4. CASE \/ Leave([ui EXCEPT !.step_group_select = 0], <<>>, OPTIONS)
             \/ Leave(ui, <<>>, STEPS)
    BY <1>1, <1>4, PageNumbers DEF Goes, Shows, Button6
  <1>. QED BY <1>2, <1>3, <1>4 DEF Button6

LEMMA Button7Goes ==
  ASSUME ui \in UI, NEW k \in Nat, Button7(k)
  PROVE  Goes /\ UNCHANGED sys_cfg
  <1>1. CASE Leave(ui, <<>>, OPTIONS)
    BY <1>1, PageNumbers DEF Button7, Goes, Shows
  <1>2. ASSUME ~Leave(ui, <<>>, OPTIONS)
        PROVE  Goes
    <2>. DEFINE o == ui.page7_offset
                next == CASE k = 1 /\ (o + 1) * PerModulePage < MAX_NODE -> o + 1
                          [] k = 2 /\ o > 0 -> o - 1
                          [] OTHER -> o
                u == [ui EXCEPT !.page7_offset = next,
                                !.module_cnt = (Rows * (next - 1)) % 256]
    <2>1. o \in Nat /\ o * PerModulePage < MAX_NODE
      BY DEF UI, Offsets
    <2>2. o > 0 => o - 1 \in Offsets
      <3>1. o > 0 => (o - 1) * PerModulePage < MAX_NODE
        BY <2>1, Numbers
      <3>. QED BY <2>1, <3>1 DEF Offsets
    <2>3. next \in Offsets
      BY <2>1, <2>2 DEF Offsets
    <2>4. (Rows * (next - 1)) % 256 \in 0..255
      <3>1. PICK n \in Nat : n = next
        BY <2>3 DEF Offsets
      <3>2. Rows * (n - 1) \in Int
        BY Numbers
      <3>. QED BY <3>1, <3>2
    <2>5. u \in UI
      <3>1. ASSUME NEW x \in Offsets, NEW y \in 0..255
            PROVE  [ui EXCEPT !.page7_offset = x, !.module_cnt = y] \in UI
        BY DEF UI
      <3>. HIDE DEF next
      <3>. QED BY <2>3, <2>4, <3>1
    <2>6. Leave(u, <<Write>>, STAY)
      BY <1>2 DEF Button7
    <2>. QED BY <2>5, <2>6 DEF Goes, Shows
  <1>3. UNCHANGED sys_cfg
    BY DEF Button7
  <1>. QED BY <1>1, <1>2, <1>3

LEMMA Button8Goes ==
  ASSUME ui \in UI, sys_cfg \in Setting, NEW k \in Nat, Button8(k)
  PROVE  Goes /\ sys_cfg' \in Setting /\ sys_cfg'.net = sys_cfg.net
  <1>1. ui.temp \in [low: Limits, high: Limits, led: BOOLEAN]
    BY DEF UI
  <1>2. [ui EXCEPT !.temp.led = ~@] \in UI
    <2>1. [ui.temp EXCEPT !.led = ~@] \in [low: Limits, high: Limits, led: BOOLEAN]
      BY <1>1
    <2>2. ASSUME NEW x \in [low: Limits, high: Limits, led: BOOLEAN]
          PROVE  [ui EXCEPT !.temp = x] \in UI
      BY DEF UI
    <2>3. [ui EXCEPT !.temp.led = ~@] = [ui EXCEPT !.temp = [ui.temp EXCEPT !.led = ~@]]
      BY DEF UI
    <2>. QED BY <2>1, <2>2, <2>3
  <1>3. sys_cfg' \in Setting /\ sys_cfg'.net = sys_cfg.net
    BY <1>1 DEF Button8, Setting
  <1>4. Goes
    BY <1>2, PageNumbers DEF Button8, Goes, Shows
  <1>. QED BY <1>3, <1>4

LEMMA Button9Goes ==
  ASSUME ui \in UI, NEW k \in Nat, Button9(k)
  PROVE  Goes /\ UNCHANGED sys_cfg
  <1>1. CASE Turn(0, "page9_step_check_page", -1, <<>>)
    BY <1>1, TurnLemma DEF Button9
  <1>2. ASSUME NEW n \in StepNums,
               Leave([ui EXCEPT !.page9_step_check_page =
                              IF (@ + 1) * StepRows < n THEN @ + 1 ELSE @],
                           <<>>, STAY)
        PROVE  Goes
    <2>1. [ui EXCEPT !.page9_step_check_page =
             IF (@ + 1) * StepRows < n THEN @ + 1 ELSE @] \in UI
      BY DEF UI
    <2>. QED BY <1>2, <2>1 DEF Goes, Shows
  <1>3. CASE Leave(ui, <<>>, GROUPS)
    BY <1>3, PageNumbers DEF Goes, Shows, Button9
  <1>. QED BY <1>1, <1>2, <1>3 DEF Button9

LEMMA Button10Goes ==
  ASSUME ui \in UI, NEW k \in Nat, Button10(k)
  PROVE  Goes /\ UNCHANGED sys_cfg
  <1>1. CASE Turn(0, "page10_cnt_poll", -1, <<Write>>)
    BY <1>1, TurnLemma DEF Button10
  <1>2. CASE Turn(MAX_NODE \div ValueRows - 1, "page10_cnt_poll", 1, <<Write>>)
    BY <1>2, TurnLemma, Numbers DEF Button10
  <1>3. CASE Leave(ui, <<>>, MAIN)
    BY <1>3, PageNumbers DEF Goes, Shows, Button10
  <1>. QED BY <1>1, <1>2, <1>3 DEF Button10

LEMMA Button14Goes ==
  ASSUME ui \in UI, NEW k \in Nat, Button14(k)
  PROVE  Goes /\ UNCHANGED sys_cfg
  BY PageNumbers DEF Button14, Goes, Shows

LEMMA Button15Goes ==
  ASSUME ui \in UI, NEW k \in Nat, Button15(k)
  PROVE  Goes /\ UNCHANGED sys_cfg
  BY PageNumbers DEF Button15, Goes, Shows

(* A key leads to another page, shows something or, confirming the network *)
(* settings, reads the page.                                               *)
LEMMA ButtonHandled ==
  ASSUME ui \in UI, sys_cfg \in Setting,
         NEW p \in Pages, NEW k \in Nat, Button(p, k)
  PROVE  /\ ui' \in UI /\ sys_cfg' \in Setting /\ sys_cfg'.net = sys_cfg.net
         /\ \/ todo' \in Seq(Display(sys_cfg.net))
            \/ p = NET /\ todo' = <<ReadPage>>
  <1>1. sys_cfg' \in Setting /\ sys_cfg'.net = sys_cfg.net
    BY Button1Goes, Button2Goes, Button4Goes, Button5Goes, Button6Goes, Button7Goes,
       Button8Goes, Button9Goes, Button10Goes, Button14Goes, Button15Goes DEF Button
  <1>2. \/ Goes
        \/ p = NET /\ UNCHANGED ui /\ todo' = <<ReadPage>>
    BY Button1Goes, Button2Goes, Button4Goes, Button5Goes, Button6Goes, Button7Goes,
       Button8Goes, Button9Goes, Button10Goes, Button14Goes, Button15Goes DEF Button
  <1>. QED BY <1>1, <1>2, GoesHandled DEF Handled

(* A value that was typed.                                                 *)
LEMMA VChangeHandled ==
  ASSUME ui \in UI, sys_cfg \in Setting,
         NEW f \in Content, f.t = "var", VChange(f.var, f.value)
  PROVE  Handled
  <1>1. \/ f.var \in {"slip", "code"} /\ f.value \in BOOLEAN
        \/ f.var \in {"low", "high"} /\ f.value \in Limits
    BY AnswerForms
  <1>2. CASE f.var = "slip" /\ f.value \in BOOLEAN
    <2>1. [ui EXCEPT !.slip = f.value] \in UI
      BY <1>2 DEF UI
    <2>. QED BY <1>2, <2>1, GoesHandled DEF Goes, Shows, VChange
  <1>3. CASE f.var = "code" /\ f.value \in BOOLEAN
    <2>1. [ui EXCEPT !.passwad = f.value] \in UI
      BY <1>3 DEF UI
    <2>. QED BY <1>3, <2>1, GoesHandled DEF Goes, Shows, VChange
  <1>4. CASE f.var = "low" /\ f.value \in Limits
    <2>1. [ui EXCEPT !.temp.low = f.value] \in UI
      BY <1>4 DEF UI
    <2>. QED BY <1>4, <2>1, GoesHandled DEF Goes, Shows, VChange
  <1>5. CASE f.var = "high" /\ f.value \in Limits
    <2>1. [ui EXCEPT !.temp.high = f.value] \in UI
      BY <1>5 DEF UI
    <2>. QED BY <1>5, <2>1, GoesHandled DEF Goes, Shows, VChange
  <1>. QED BY <1>1, <1>2, <1>3, <1>4, <1>5

(* A refresh stays on its page or leads to the first one or the password.  *)
LEMMA PollHandled ==
  ASSUME ui \in UI, sys_cfg \in Setting,
         NEW p \in Pages, Poll(p)
  PROVE  Handled /\ todo' \in Seq(Drawing) /\ p \in HasPoll /\ UNCHANGED sys_cfg
  <1>1. \E q \in {MAIN, PASSWORD, STAY} : Shows(q)
    <2>1. [ui EXCEPT !.slip = FALSE] \in UI
      BY DEF UI
    <2>2. ASSUME Poll7 PROVE Shows(STAY)
      <3>. DEFINE cnt == (ui.module_cnt + 1) % 256
                  next == IF cnt >= (ui.page7_offset + 1) * Rows
                          THEN (ui.page7_offset * Rows) % 256 ELSE cnt
      <3>1. PICK o \in Nat : o = ui.page7_offset
        BY DEF UI, Offsets
      <3>2. o * Rows \in Nat
        BY Numbers
      <3>3. (o * Rows) % 256 \in 0..255
        BY <3>2
      <3>4. cnt \in 0..255
        BY DEF UI
      <3>5. next \in 0..255
        BY <3>1, <3>3, <3>4
      <3>6. ASSUME NEW x \in 0..255 PROVE [ui EXCEPT !.module_cnt = x] \in UI
        BY DEF UI
      <3>7. Leave([ui EXCEPT !.module_cnt = next], <<Write>>, STAY)
        BY <2>2 DEF Poll7
      <3>. HIDE DEF next
      <3>. QED BY <3>5, <3>6, <3>7 DEF Shows
    <2>. QED BY <2>1, <2>2 DEF Shows, Poll, Poll0, Poll1, Poll2,
                Poll9, Poll10
  <1>2. PICK q \in {MAIN, PASSWORD, STAY} :
          \E u \in UI : \E c \in {<<>>, <<Write>>} : Leave(u, c, q)
    BY <1>1 DEF Shows
  <1>3. todo' \in Seq(Drawing)
    BY <1>2, PageNumbers, LeaveLemma
  <1>4. Goes
    BY <1>1, PageNumbers DEF Goes
  <1>5. p \in HasPoll /\ UNCHANGED sys_cfg
    BY DEF Poll, HasPoll
  <1>. QED BY <1>3, <1>4, <1>5, GoesHandled

LEMMA UnopenedTyped ==
  ASSUME sys_cfg \in Setting
  PROVE  Unopened(sys_cfg) \in UI
  <1>1. Temp(sys_cfg) \in [low: Limits, high: Limits, led: BOOLEAN]
    BY DEF Temp, Setting
  <1>2. sys_cfg.net \in Network
    BY DEF Setting
  <1>3. 0 \in Offsets /\ 0 \in 0..MAX_NODE \div ValueRows - 1 /\ 0 \in 0..PAGE_SUM
    BY Numbers DEF Offsets
  <1>. QED BY <1>1, <1>2, <1>3 DEF Unopened, UI
-----------------------------------------------------------------------------
(* The types, kept by every action.                                        *)
LEMMA FaultLemma ==
  ASSUME SceneTyped, NEW kind \in Kinds, Fault(kind)
  PROVE  /\ SceneOK'
         /\ \E s \in Scenes : scene'.keys = s.keys /\ scene'.most = s.most
         /\ \A k \in Kinds : scene'.gone[k] \in 0..scene'.most[k]
         /\ \A k \in Kinds : scene'.gone[k] = 0 => scene.gone[k] = 0
         /\ scene'.gone[kind] # 0
  <1>1. /\ scene.gone \in [Kinds -> Nat] /\ scene.most \in [Kinds -> Nat]
        /\ scene.gone[kind] < scene.most[kind]
        /\ scene' = [scene EXCEPT !.gone = [scene.gone EXCEPT ![kind] = @ + 1]]
    BY DEF SceneTyped, SceneOK, Fault
  <1>2. /\ scene'.gone = [scene.gone EXCEPT ![kind] = @ + 1]
        /\ scene'.keys = scene.keys /\ scene'.most = scene.most
    BY <1>1 DEF SceneTyped, SceneOK
  <1>3. SceneOK'
    BY <1>1, <1>2 DEF SceneTyped, SceneOK
  <1>4. scene'.gone \in [Kinds -> Nat]
        /\ \A k \in Kinds :
             scene'.gone[k] = IF k = kind THEN scene.gone[k] + 1 ELSE scene.gone[k]
    BY <1>1, <1>2
  <1>5. \A k \in Kinds : scene.gone[k] \in 0..scene.most[k]
    BY DEF SceneTyped
  <1>6. \A k \in Kinds : scene'.gone[k] \in 0..scene'.most[k]
    BY <1>1, <1>2, <1>4, <1>5
  <1>. QED BY <1>1, <1>2, <1>3, <1>4, <1>6 DEF SceneTyped

LEMMA KindsThere == {"crowded", "late", "lost", "restart"} = Kinds
  BY DEF Kinds

LEMMA SceneStep ==
  ASSUME SceneTyped,
         UNCHANGED scene \/ \E kind \in Kinds : Fault(kind)
  PROVE  SceneTyped'
  <1>1. CASE UNCHANGED scene
    BY <1>1 DEF SceneTyped, SceneOK
  <1>2. CASE \E kind \in Kinds : Fault(kind)
    BY <1>2, FaultLemma DEF SceneTyped
  <1>. QED BY <1>1, <1>2

LEMMA ThreadsLemma ==
  ASSUME NEW x \in Threads
  PROVE  /\ \A pc \in {"idle", "copied", "process", "ack", "answer"} :
              /\ [x EXCEPT !.pc = pc] \in Threads
              /\ [x EXCEPT !.pc = pc].pc = pc
              /\ [x EXCEPT !.pc = pc].dgus_buf = x.dgus_buf
         /\ x.left > 0 => [x EXCEPT !.pc = "idle", !.left = @ - 1] \in Threads
         /\ [x EXCEPT !.pc = "idle", !.left = @ - 1].pc = "idle"
         /\ \A f \in Content \cup {NoFrame} :
              /\ [x EXCEPT !.pc = "copied", !.dgus_buf = f] \in Threads
              /\ [x EXCEPT !.pc = "copied", !.dgus_buf = f].pc = "copied"
              /\ [x EXCEPT !.pc = "copied", !.dgus_buf = f].dgus_buf = f
         /\ Begun \in Threads /\ Begun.pc = "idle"
  <1>1. \A pc \in {"idle", "copied", "process", "ack", "answer"} :
              /\ [x EXCEPT !.pc = pc] \in Threads
              /\ [x EXCEPT !.pc = pc].pc = pc
              /\ [x EXCEPT !.pc = pc].dgus_buf = x.dgus_buf
    BY DEF Threads
  <1>2. x.left > 0 => [x EXCEPT !.pc = "idle", !.left = @ - 1] \in Threads
    <2>1. x.left > 0 => x.left - 1 \in 0..2
      BY DEF Threads
    <2>2. ASSUME NEW n \in 0..2 PROVE [x EXCEPT !.pc = "idle", !.left = n] \in Threads
      BY DEF Threads
    <2>. QED BY <2>1, <2>2
  <1>3. [x EXCEPT !.pc = "idle", !.left = @ - 1].pc = "idle"
    BY DEF Threads
  <1>4. \A f \in Content \cup {NoFrame} :
              /\ [x EXCEPT !.pc = "copied", !.dgus_buf = f] \in Threads
              /\ [x EXCEPT !.pc = "copied", !.dgus_buf = f].pc = "copied"
              /\ [x EXCEPT !.pc = "copied", !.dgus_buf = f].dgus_buf = f
    BY DEF Threads
  <1>5. Begun \in Threads /\ Begun.pc = "idle"
    BY DEF Threads, Begun
  <1>. QED BY <1>1, <1>2, <1>3, <1>4, <1>5

LEMMA SceneSame ==
  ASSUME SceneTyped, UNCHANGED scene PROVE SceneTyped'
  BY DEF SceneTyped, SceneOK

LEMMA PagesSame ==
  ASSUME PagesTyped, UNCHANGED <<ui, sys_cfg, fields, Current_page, shown>>
  PROVE  PagesTyped'
  BY DEF PagesTyped

(* A transaction that failed.                                              *)
LEMMA RetryLemma ==
  ASSUME todo \in Seq(Command), lcd \in Threads, todo # <<>>, Retry
  PROVE  /\ lcd' \in Threads /\ lcd'.pc = "idle"
         /\ todo' \in Seq(Command)
         /\ todo' = todo \/ todo' = Tail(todo)
  <1>1. CASE lcd.left > 0
    <2>1. lcd' = [lcd EXCEPT !.pc = "idle", !.left = @ - 1] /\ todo' = todo
      BY <1>1 DEF Retry
    <2>2. /\ [lcd EXCEPT !.pc = "idle", !.left = @ - 1] \in Threads
          /\ [lcd EXCEPT !.pc = "idle", !.left = @ - 1].pc = "idle"
      BY <1>1, ThreadsLemma
    <2>. QED BY <2>1, <2>2
  <1>2. CASE ~(lcd.left > 0)
    <2>1. lcd' = Begun /\ todo' = Tail(todo)
      BY <1>2 DEF Retry, Over
    <2>2. Tail(todo) \in Seq(Command)
      OBVIOUS
    <2>. QED BY <2>1, <2>2, ThreadsLemma
  <1>. QED BY <1>1, <1>2

LEMMA WakeTyped ==
  ASSUME PanelTyped, Wake PROVE PanelTyped'
  <1>1. LinkTyped'
    BY DEF PanelTyped, Wake, LinkTyped, screen, mailbox
  <1>2. lcd' \in Threads /\ Working'
    BY ThreadsLemma DEF PanelTyped, Wake, LinkTyped, Working
  <1>3. PagesTyped' /\ SceneTyped'
    BY PagesSame, SceneSame DEF PanelTyped, Wake, pages, screen
  <1>. QED BY <1>1, <1>2, <1>3 DEF PanelTyped

LEMMA EmptyTyped ==
  ASSUME PanelTyped, Empty PROVE PanelTyped'
  <1>1. Fields("garbage") \in Content
    BY FramesDiffer DEF Network
  <1>2. LinkTyped'
    BY <1>1 DEF PanelTyped, Empty, LinkTyped, screen
  <1>3. lcd' \in Threads /\ Working'
    BY ThreadsLemma DEF PanelTyped, Empty, Working
  <1>4. PagesTyped' /\ SceneTyped'
    BY PagesSame, SceneSame DEF PanelTyped, Empty, pages, screen
  <1>. QED BY <1>2, <1>3, <1>4 DEF PanelTyped

LEMMA RequestTyped ==
  ASSUME PanelTyped, Request PROVE PanelTyped'
  <1>1. LinkTyped'
    <2>1. Head(todo) \in Command
      BY DEF PanelTyped, Request, LinkTyped
    <2>2. wire' \in Seq(Command)
      BY <2>1 DEF PanelTyped, Request, LinkTyped
    <2>. QED BY <2>2 DEF PanelTyped, Request, LinkTyped, channel, mailbox
  <1>2. lcd' \in Threads /\ Working'
    BY ThreadsLemma DEF PanelTyped, Request, Working
  <1>3. PagesTyped' /\ SceneTyped'
    BY PagesSame, SceneSame DEF PanelTyped, Request, pages
  <1>. QED BY <1>1, <1>2, <1>3 DEF PanelTyped

LEMMA AcknowledgedTyped ==
  ASSUME PanelTyped, Acknowledged PROVE PanelTyped'
  <1>1. todo # <<>> /\ todo \in Seq(Command)
    BY DEF PanelTyped, Acknowledged, Working, LinkTyped
  <1>2. Head(todo) \in Command /\ Tail(todo) \in Seq(Command)
    BY <1>1
  <1>3. /\ todo' \in Seq(Command) /\ lcd' \in Threads
        /\ lcd'.pc \in {"ack", "answer"} => todo' # <<>>
        /\ lcd'.pc \in {"copied", "process"} => todo' = <<>>
    <2>1. CASE Head(todo) = ReadReg
      <3>1. lcd' = [lcd EXCEPT !.pc = "answer"] /\ todo' = todo
        BY <2>1 DEF Acknowledged
      <3>2. /\ [lcd EXCEPT !.pc = "answer"] \in Threads
            /\ [lcd EXCEPT !.pc = "answer"].pc = "answer"
        BY ThreadsLemma DEF PanelTyped
      <3>. QED BY <1>1, <3>1, <3>2
    <2>2. CASE Head(todo) # ReadReg
      <3>1. lcd' = Begun /\ todo' = Tail(todo)
        BY <2>2 DEF Acknowledged, Over
      <3>. QED BY <1>2, <3>1, ThreadsLemma DEF PanelTyped
    <2>. QED BY <2>1, <2>2
  <1>4. LinkTyped' /\ lcd' \in Threads /\ Working'
    BY <1>3 DEF PanelTyped, Acknowledged, LinkTyped, screen, mailbox, Working
  <1>5. PagesTyped'
    BY <1>2, CommandsDiffer DEF PanelTyped, Acknowledged, pages, screen, PagesTyped
  <1>6. SceneTyped'
    BY SceneSame DEF PanelTyped, Acknowledged
  <1>. QED BY <1>4, <1>5, <1>6 DEF PanelTyped

LEMMA TakeFrameTyped ==
  ASSUME LinkTyped, TakeFrame \/ UNCHANGED mailbox
  PROVE  /\ lcd_rx_buf' \in Content \cup {NoFrame}
         /\ lcd_rx_len' \in Content \cup {NoFrame}
         /\ UNCHANGED storing
  BY DEF LinkTyped, TakeFrame, mailbox

LEMMA RegisterReadTyped ==
  ASSUME PanelTyped, RegisterRead PROVE PanelTyped'
  <1>1. todo # <<>> /\ todo \in Seq(Command) /\ lcd \in Threads
    BY DEF PanelTyped, RegisterRead, Working, LinkTyped
  <1>2. Tail(todo) \in Seq(Command)
    BY <1>1
  <1>3. todo' \in Seq(Command) /\ lcd' \in Threads /\ Working'
    BY <1>1, <1>2, RetryLemma, ThreadsLemma DEF RegisterRead, Over, Working
  <1>4. LinkTyped'
    <2>1. TakeFrame \/ UNCHANGED mailbox
      BY DEF RegisterRead
    <2>. QED BY <1>3, <2>1, TakeFrameTyped DEF PanelTyped, RegisterRead, LinkTyped, screen
  <1>5. PagesTyped'
    <2>1. lcd_rx_buf \in Content /\ lcd_rx_buf.t = "reg" => lcd_rx_buf.page \in Pages
      BY AnswerForms
    <2>2. lcd_rx_buf.t = "reg" => lcd_rx_buf \in Content
      BY FramesDiffer DEF PanelTyped, LinkTyped
    <2>. QED BY <2>1, <2>2 DEF PanelTyped, RegisterRead, pages, screen, PagesTyped
  <1>6. SceneTyped'
    BY SceneSame DEF PanelTyped, RegisterRead
  <1>. QED BY <1>3, <1>4, <1>5, <1>6 DEF PanelTyped

LEMMA PageReadTyped ==
  ASSUME PanelTyped, PageRead PROVE PanelTyped'
  <1>1. todo # <<>> /\ todo \in Seq(Command) /\ lcd \in Threads
    BY DEF PanelTyped, PageRead, Working, LinkTyped
  <1>2. CASE Retry /\ UNCHANGED <<pages, mailbox>>
    <2>1. todo' \in Seq(Command) /\ lcd' \in Threads /\ Working'
      BY <1>1, <1>2, RetryLemma, ThreadsLemma DEF Working
    <2>2. LinkTyped'
      BY <1>2, <2>1 DEF PanelTyped, PageRead, LinkTyped, screen, mailbox
    <2>3. PagesTyped' /\ SceneTyped'
      BY <1>2, PagesSame, SceneSame DEF PanelTyped, PageRead, pages, screen
    <2>. QED BY <2>1, <2>2, <2>3 DEF PanelTyped
  <1>3. ASSUME NEW n \in Network, Confirm(n), lcd' = Begun,
               TakeFrame
        PROVE  PanelTyped'
    <2>1. sys_cfg' \in Setting /\ ui' \in UI
      BY <1>3 DEF PanelTyped, Confirm, PagesTyped, Setting, UI
    <2>2. todo' \in Seq(Command)
      <3>1. todo' \in Seq(Display(sys_cfg.net))
        BY <1>3, SwitchPage, PageNumbers DEF Confirm
      <3>2. Display(sys_cfg.net) \subseteq Command
        BY DEF PanelTyped, Display, Command, PagesTyped, Setting
      <3>. QED BY <3>1, <3>2
    <2>3. LinkTyped'
      BY <1>3, <2>2, TakeFrameTyped DEF PanelTyped, PageRead, LinkTyped, screen
    <2>4. PagesTyped' /\ SceneTyped'
      BY <2>1, SceneSame DEF PanelTyped, PageRead, screen, PagesTyped
    <2>5. lcd' \in Threads /\ Working'
      BY <1>1, <1>3, ThreadsLemma DEF Working
    <2>. QED BY <2>3, <2>4, <2>5 DEF PanelTyped
  <1>4. lcd_rx_buf # NoFrame /\ lcd_rx_buf.t = "fields" => lcd_rx_buf.net \in Network
    BY AnswerForms DEF PanelTyped, LinkTyped
  <1>5. "garbage" \in Network
    BY DEF Network
  <1>6. \/ Retry /\ UNCHANGED <<pages, mailbox>>
        \/ \E n \in Network :
             Confirm(n) /\ lcd' = Begun /\ TakeFrame
    BY <1>4, <1>5 DEF PageRead
  <1>. QED BY <1>2, <1>3, <1>6

LEMMA TimedOutTyped ==
  ASSUME PanelTyped, TimedOut PROVE PanelTyped'
  <1>1. todo # <<>> /\ todo \in Seq(Command) /\ lcd \in Threads /\ Retry
    BY DEF PanelTyped, TimedOut, Working, LinkTyped
  <1>2. todo' \in Seq(Command) /\ lcd' \in Threads /\ Working'
    BY <1>1, RetryLemma DEF Working
  <1>3. LinkTyped'
    BY <1>2 DEF PanelTyped, TimedOut, LinkTyped, screen, channel, mailbox
  <1>4. PagesTyped'
    BY PagesSame DEF PanelTyped, TimedOut, pages, screen
  <1>5. SceneTyped'
    BY SceneStep, KindsThere DEF TimedOut, PanelTyped
  <1>. QED BY <1>2, <1>3, <1>4, <1>5 DEF PanelTyped

LEMMA ReceiverTyped ==
  ASSUME PanelTyped, Receiver PROVE PanelTyped'
  <1>1. LinkTyped'
    <2>1. CASE PassAck
      BY <2>1 DEF PanelTyped, Receiver, PassAck, LinkTyped, screen,
           mailbox, thread
    <2>2. CASE Announce
      BY <2>2 DEF PanelTyped, Receiver, Announce, LinkTyped, screen,
           thread
    <2>3. CASE Store
      <3>1. transit \in Seq(Frame) /\ transit # <<>>
        BY <2>3 DEF PanelTyped, Store, LinkTyped
      <3>2. Tail(transit) \in Seq(Frame)
        BY <3>1
      <3>3. transit' \in Seq(Frame)
        BY <2>3, <3>1, <3>2 DEF Store
      <3>. QED BY <2>3, <3>3 DEF PanelTyped, Receiver, Store, LinkTyped,
             screen, thread
    <2>. QED BY <2>1, <2>2, <2>3 DEF Receiver
  <1>2. lcd' \in Threads /\ Working'
    BY DEF PanelTyped, Receiver, thread, Working
  <1>3. PagesTyped' /\ SceneTyped'
    BY PagesSame, SceneSame DEF PanelTyped, Receiver, pages, screen, thread
  <1>. QED BY <1>1, <1>2, <1>3 DEF PanelTyped

LEMMA ServeTyped ==
  ASSUME PanelTyped, Serve PROVE PanelTyped'
  <1>1. wire \in Seq(Command) /\ wire # <<>>
    BY DEF PanelTyped, LinkTyped, Serve
  <1>2. PICK c \in Command : c = Head(wire)
    BY <1>1
  <1>3. Answers(c) \in Seq(Report) /\ Report \subseteq Frame
    BY AnswersForm DEF PanelTyped, Report, Frame
  <1>4. Answers(c) \in Seq(Frame)
    BY <1>3
  <1>5. transit' = transit \o Answers(c)
    BY <1>2 DEF Serve
  <1>6. transit' \in Seq(Frame) /\ (transit # <<>> => transit' # <<>>)
    BY <1>4, <1>5 DEF PanelTyped, LinkTyped
  <1>7. Tail(wire) \in Seq(Command)
    BY <1>1
  <1>8. LinkTyped'
    BY <1>6, <1>7 DEF PanelTyped, LinkTyped, Serve, thread, mailbox
  <1>9. shown' \in Pages /\ fields' \in Network
    BY <1>2, CommandsDiffer DEF PanelTyped, Serve, PagesTyped
  <1>10. PagesTyped' /\ SceneTyped' /\ Working' /\ lcd' \in Threads
    BY <1>9, SceneSame DEF PanelTyped, PagesTyped, Serve, thread, pages,
       Working
  <1>. QED BY <1>8, <1>10 DEF PanelTyped

LEMMA TypedValue ==
  ASSUME PanelTyped, TypeValue
  PROVE  \E f \in Operation : Send(f)
  <1>. DEFINE V == {Var(v, x) : v \in {"slip", "code"}, x \in BOOLEAN}
              W == {Var(v, x) : v \in {"low", "high"}, x \in Limits}
  <1>1. \A v \in {"slip", "code"} : \A x \in BOOLEAN : Var(v, x) \in V
    OBVIOUS
  <1>2. \A v \in {"low", "high"} : \A x \in Limits : Var(v, x) \in W
    OBVIOUS
  <1>3. V \cup W \subseteq Content
    <2>1. Content = Sent
      BY LcdPanelAssumption
    <2>2. ASSUME NEW f \in V PROVE f \in Sent
      <3>1. PICK v \in {"slip", "code"}, x \in BOOLEAN : f = Var(v, x)
        OBVIOUS
      <3>. QED BY <3>1 DEF Sent
    <2>3. ASSUME NEW f \in W PROVE f \in Sent
      <3>1. PICK v \in {"low", "high"}, x \in Limits : f = Var(v, x)
        OBVIOUS
      <3>. QED BY <3>1 DEF Sent
    <2>. QED BY <2>1, <2>2, <2>3
  <1>4. \A f \in V \cup W : f.t = "var"
    BY DEF Var
  <1>. HIDE DEF V, W
  <1>5. \E f \in V \cup W : Send(f)
    BY <1>1, <1>2 DEF TypeValue
  <1>. QED BY <1>3, <1>4, <1>5 DEF Operation

LEMMA PressedKey ==
  ASSUME PanelTyped, Press
  PROVE  \E f \in Operation : Send(f)
  <1>1. PICK k \in KeysOf(shown) :
          <<shown, k>> \in scene.keys /\ Send(Key(shown, k))
    BY DEF Press
  <1>2. PICK s \in Scenes : scene.keys = s.keys
    BY DEF PanelTyped, SceneTyped
  <1>3. Key(shown, k) \in Sent
    <2>. DEFINE p == <<shown, k>>
    <2>1. p \in UNION {x.keys : x \in Scenes} /\ p[1] = shown /\ p[2] = k
      BY <1>1, <1>2
    <2>2. Key(p[1], p[2]) \in Sent
      BY <2>1 DEF Sent
    <2>. QED BY <2>1, <2>2
  <1>4. Key(shown, k).t = "key"
    BY DEF Key
  <1>. QED BY <1>1, <1>3, <1>4, LcdPanelAssumption DEF Operation

LEMMA OperatorTyped ==
  ASSUME PanelTyped, Press \/ TypeValue PROVE PanelTyped'
  <1>1. PICK f \in Operation : Send(f)
    BY PressedKey, TypedValue
  <1>2. transit' = Append(transit, f) /\ f \in Frame /\ transit \in Seq(Frame)
    BY <1>1 DEF Send, Operation, PanelTyped, LinkTyped, Frame
  <1>3. transit' \in Seq(Frame) /\ transit' # <<>>
    BY <1>2
  <1>4. UNCHANGED scene \/ \E kind \in Kinds : Fault(kind)
    BY KindsThere DEF Press, TypeValue, Patiently
  <1>5. SceneTyped'
    BY <1>4, SceneStep DEF PanelTyped
  <1>6. UNCHANGED <<thread, pages, screen>>
    BY DEF Press, TypeValue
  <1>7. LinkTyped'
    BY <1>1, <1>3, <1>6 DEF Send, PanelTyped, LinkTyped, thread, mailbox,
       screen
  <1>8. PagesTyped' /\ Working' /\ lcd' \in Threads
    BY <1>6, PagesSame DEF PanelTyped, thread, pages, screen, Working
  <1>. QED BY <1>5, <1>7, <1>8 DEF PanelTyped

LEMMA EditFieldsTyped ==
  ASSUME PanelTyped, EditFields PROVE PanelTyped'
  <1>1. LinkTyped' /\ Working' /\ lcd' \in Threads
    BY DEF EditFields, PanelTyped, LinkTyped, Working, thread, mailbox,
       channel
  <1>2. PagesTyped' /\ SceneTyped'
    BY SceneSame DEF EditFields, PanelTyped, PagesTyped, thread, pages,
       Network
  <1>. QED BY <1>1, <1>2 DEF PanelTyped

LEMMA LossTyped ==
  ASSUME PanelTyped, LoseRequest \/ LoseFrame PROVE PanelTyped'
  <1>1. SceneTyped'
    BY SceneStep, KindsThere DEF LoseRequest, LoseFrame, PanelTyped
  <1>2. wire \in Seq(Command) /\ transit \in Seq(Frame)
    BY DEF PanelTyped, LinkTyped
  <1>3. /\ wire # <<>> => Tail(wire) \in Seq(Command)
        /\ transit # <<>> => Tail(transit) \in Seq(Frame)
    BY <1>2
  <1>4. LinkTyped'
    BY <1>2, <1>3 DEF LoseRequest, LoseFrame, PanelTyped, LinkTyped, thread,
       channel, mailbox, screen
  <1>5. PagesTyped' /\ Working' /\ lcd' \in Threads
    BY PagesSame DEF LoseRequest, LoseFrame, PanelTyped, thread, pages,
       screen, Working
  <1>. QED BY <1>1, <1>4, <1>5 DEF PanelTyped

LEMMA RestartTyped ==
  ASSUME PanelTyped, Restart PROVE PanelTyped'
  <1>1. Unopened(sys_cfg) \in UI
    BY UnopenedTyped DEF PanelTyped, PagesTyped
  <1>2. <<Goto(LOGO)>> \in Seq(Command) /\ LOGO \in Pages
    <2>1. Goto(LOGO) \in Command
      BY PageNumbers DEF Command
    <2>. QED BY <2>1, PageNumbers
  <1>3. LinkTyped'
    BY <1>2 DEF Restart, LinkTyped
  <1>4. PagesTyped' /\ Working' /\ lcd' \in Threads
    BY <1>1, <1>2, ThreadsLemma DEF Restart, PanelTyped, PagesTyped, Working
  <1>5. SceneTyped'
    BY SceneStep, KindsThere DEF Restart, PanelTyped
  <1>. QED BY <1>3, <1>4, <1>5 DEF PanelTyped

LEMMA ui_processTyped ==
  ASSUME PanelTyped, ui_process PROVE PanelTyped'
  <1>1. PICK f \in Content \cup {NoFrame} : f = lcd.dgus_buf
    BY DEF PanelTyped, Threads
  <1>2. ui' \in UI /\ sys_cfg' \in Setting /\ todo' \in Seq(Command)
    <2>1. Display(sys_cfg.net) \subseteq Command
      BY DEF Display, Command, PanelTyped, PagesTyped, Setting
    <2>2. ui \in UI /\ sys_cfg \in Setting
      BY DEF PanelTyped, PagesTyped
    <2>3. CASE ProcessKey(f)
      <3>1. f \in Content /\ f.t = "key" /\ f.page \in Pages /\ f.key \in Nat
        BY <2>3, AnswerForms, FramesDiffer DEF ProcessKey
      <3>2. CASE Button(f.page, f.key)
        <4>1. todo' \in Seq(Display(sys_cfg.net)) \/ todo' = <<ReadPage>>
          BY <2>2, <3>1, <3>2, ButtonHandled
        <4>2. ReadPage \in Command
          BY DEF Command
        <4>3. todo' \in Seq(Command)
          <5>1. CASE todo' \in Seq(Display(sys_cfg.net))
            BY <2>1, <5>1
          <5>2. CASE todo' = <<ReadPage>>
            BY <4>2, <5>2
          <5>. QED BY <4>1, <5>1, <5>2
        <4>. QED BY <2>2, <3>1, <3>2, <4>3, ButtonHandled
      <3>3. CASE todo' = <<ReadReg>> /\ UNCHANGED pages
        <4>1. ReadReg \in Command
          BY DEF Command
        <4>. QED BY <2>2, <3>3, <4>1 DEF pages
      <3>. QED BY <2>3, <3>2, <3>3 DEF ProcessKey
    <2>4. CASE ProcessVar(f)
      <3>1. f \in Content /\ f.t = "var" /\ VChange(f.var, f.value)
        BY <2>4, FramesDiffer DEF ProcessVar
      <3>. QED BY <2>1, <2>2, <3>1, VChangeHandled DEF Handled
    <2>5. CASE ProcessAnswer(f)
      BY <2>2, <2>5 DEF ProcessAnswer, pages, PanelTyped, LinkTyped
    <2>. QED BY <1>1, <2>3, <2>4, <2>5 DEF ui_process
  <1>3. LinkTyped'
    BY <1>2 DEF ui_process, PanelTyped, LinkTyped, channel, mailbox,
       screen
  <1>4. PagesTyped' /\ lcd' \in Threads /\ Working'
    BY <1>2, ThreadsLemma DEF ui_process, PanelTyped, PagesTyped, Working, screen
  <1>5. SceneTyped'
    BY SceneSame DEF ui_process, PanelTyped
  <1>. QED BY <1>3, <1>4, <1>5 DEF PanelTyped

LEMMA update_pageTyped ==
  ASSUME PanelTyped, update_page PROVE PanelTyped'
  <1>1. PICK p \in Pages : p = Current_page
    BY DEF PanelTyped, PagesTyped
  <1>2. Handled /\ todo' \in Seq(Drawing)
    BY <1>1, PollHandled DEF update_page, PanelTyped, PagesTyped
  <1>3. todo' \in Seq(Command)
    BY <1>2, CommandsDiffer
  <1>4. LinkTyped'
    BY <1>3 DEF update_page, PanelTyped, LinkTyped, channel, mailbox,
       screen
  <1>5. PagesTyped' /\ lcd' \in Threads /\ Working'
    BY <1>2 DEF Handled, update_page, PanelTyped, PagesTyped, Working, screen
  <1>6. SceneTyped'
    BY SceneSame DEF update_page, PanelTyped
  <1>. QED BY <1>4, <1>5, <1>6 DEF PanelTyped

LEMMA PanelTypedStep ==
  ASSUME PanelTyped, [Next]_vars PROVE PanelTyped'
  <1>1. CASE UNCHANGED vars
    BY <1>1, PagesSame, SceneSame DEF vars, thread, pages, channel,
       screen, mailbox, PanelTyped, LinkTyped, Working
  <1>2. CASE LcdThread
    BY <1>2, WakeTyped, EmptyTyped, ui_processTyped, update_pageTyped, RequestTyped,
       AcknowledgedTyped, RegisterReadTyped, PageReadTyped, TimedOutTyped DEF LcdThread
  <1>. QED BY <1>1, <1>2, ReceiverTyped, ServeTyped, OperatorTyped, EditFieldsTyped,
          LossTyped, RestartTyped DEF Next

LEMMA PanelTypedInit == ASSUME Init PROVE PanelTyped
  <1>1. sys_cfg \in Setting /\ sys_cfg.net \in Network
    BY LcdPanelAssumption DEF Init, Setting, Network
  <1>2. ui \in UI
    BY <1>1, UnopenedTyped DEF Init
  <1>3. todo \in Seq(Command)
    <2>1. todo \in Seq(Display(sys_cfg.net))
      BY SwitchPage, PageNumbers DEF Init
    <2>2. Display(sys_cfg.net) \subseteq Command
      BY <1>1 DEF Display, Command
    <2>. QED BY <2>1, <2>2
  <1>4. LinkTyped
    BY <1>3 DEF Init, ChannelInit, LinkTyped
  <1>5. PagesTyped
    BY <1>1, <1>2, PageNumbers DEF Init, PagesTyped
  <1>6. lcd \in Threads /\ Working
    BY DEF Init, Begun, Threads, Working
  <1>7. SceneTyped
    <2>1. PICK s \in Scenes : scene = [keys |-> s.keys, most |-> s.most,
                                       gone |-> [kind \in Kinds |-> 0]]
      BY DEF Init
    <2>2. s.keys \subseteq Pages \X Nat /\ s.most \in [Kinds -> Nat]
      BY <2>1, LcdPanelAssumption
    <2>. QED BY <2>1, <2>2 DEF SceneTyped, SceneOK
  <1>. QED BY <1>4, <1>5, <1>6, <1>7 DEF PanelTyped
-----------------------------------------------------------------------------
(* What the operator typed is what is saved.  Each lemma named after an    *)
(* action says that it leads from a phase to a phase.                      *)
LEMMA FaultWaits ==
  ASSUME SceneTyped, NEW kind \in Kinds, Fault(kind), Waits'
  PROVE  Waits /\ kind \notin {"crowded", "late"}
  BY FaultLemma, KindsThere DEF Waits

LEMMA DisplayUnread ==
  ASSUME sys_cfg.net \in Nets
  PROVE  Display(sys_cfg.net) \subseteq Unread
  BY DEF Display, Unread, Kept, Write, InitRo, Goto, ReadPage

LEMMA FieldsSame ==
  ASSUME FieldsKept, sys_cfg'.net = sys_cfg.net, UNCHANGED fields,
         todo' \in Seq(Kept), wire' \in Seq(Kept)
  PROVE  FieldsKept'
  BY DEF FieldsKept

LEMMA WakePhase ==
  ASSUME PanelTyped, Phase, Wake PROVE Phase'
  <1>1. FieldsKept'
    BY FieldsSame DEF Phase, FieldsKept, Wake, pages, screen
  <1>2. /\ lcd.pc = "idle" /\ todo = <<>> /\ lcd_rx_sem > 0 /\ lcd_rx_sem' = lcd_rx_sem - 1
        /\ UNCHANGED <<Current_page, todo, transit, lcd_rx_buf, lcd_rx_len,
                       storing, wire>>
    BY DEF Wake, screen, mailbox
  <1>3. \/ lcd' = lcd /\ lcd_rx_len = NoFrame
        \/ /\ lcd'.pc = "copied" /\ lcd'.dgus_buf = lcd_rx_buf
           /\ lcd_rx_len # NoFrame
    <2>1. CASE lcd_rx_len = NoFrame
      BY <2>1 DEF Wake
    <2>2. CASE lcd_rx_len # NoFrame
      <3>1. PICK f \in Content \cup {NoFrame} : f = lcd_rx_buf
        BY DEF PanelTyped, LinkTyped
      <3>2. lcd' = [lcd EXCEPT !.pc = "copied", !.dgus_buf = f] /\ lcd \in Threads
        BY <2>2, <3>1 DEF Wake, PanelTyped
      <3>3. lcd'.pc = "copied" /\ lcd'.dgus_buf = f
        BY <3>2 DEF Threads
      <3>. QED BY <2>2, <3>1, <3>3
    <2>. QED BY <2>1, <2>2
  <1>4. ~Reading
    BY <1>2 DEF Reading
  <1>5. ASSUME OneKey PROVE OneKey'
    <2>1. PICK f \in Operation : InTransit(f) \/ InBuffer(f)
      BY <1>5 DEF OneKey
    <2>2. InBuffer(f) /\ lcd_rx_sem = 1 /\ lcd_rx_buf = f /\ lcd_rx_len = f
      BY <1>2, <2>1 DEF InTransit, InBuffer
    <2>3. lcd'.pc = "copied" /\ lcd'.dgus_buf = f
      BY <1>3, <2>2, FramesDiffer
    <2>4. InBuffer(f)'
      BY <1>2, <2>2, <2>3 DEF InBuffer
    <2>. QED BY <1>2, <1>5, <2>4 DEF OneKey
  <1>6. ASSUME Undisturbed PROVE Undisturbed'
    BY <1>2, <1>3, <1>6 DEF Undisturbed
  <1>. QED BY <1>1, <1>4, <1>5, <1>6 DEF Phase

LEMMA EmptyPhase ==
  ASSUME PanelTyped, Phase, Empty PROVE Phase'
  <1>1. FieldsKept'
    BY FieldsSame DEF Phase, FieldsKept, Empty, pages, screen
  <1>2. /\ lcd.pc = "copied"
        /\ UNCHANGED <<Current_page, todo, transit, storing, lcd_rx_sem, wire>>
    BY DEF Empty, screen
  <1>3. lcd'.pc = "process" /\ lcd'.dgus_buf = lcd.dgus_buf
    BY ThreadsLemma DEF Empty, PanelTyped
  <1>4. lcd_rx_buf' \notin Operation
    BY FramesDiffer DEF Empty, Operation, Network
  <1>5. ~Reading
    BY <1>2 DEF Reading
  <1>6. ASSUME OneKey PROVE OneKey'
    <2>1. PICK f \in Operation : InTransit(f) \/ InBuffer(f)
      BY <1>6 DEF OneKey
    <2>2. InBuffer(f)'
      BY <1>2, <1>3, <1>4, <2>1 DEF InTransit, InBuffer
    <2>. QED BY <1>2, <1>6, <2>2 DEF OneKey
  <1>7. ASSUME Undisturbed PROVE Undisturbed'
    BY <1>2, <1>3, <1>4, <1>7 DEF Undisturbed
  <1>. QED BY <1>1, <1>5, <1>6, <1>7 DEF Phase

LEMMA ui_processPhase ==
  ASSUME PanelTyped, Phase, ui_process PROVE Phase'
  <1>1. /\ lcd.pc = "process" /\ todo = <<>> /\ lcd'.pc = "idle"
        /\ UNCHANGED <<Current_page, transit, lcd_rx_buf, lcd_rx_len, storing,
                       lcd_rx_sem, wire, fields>>
    BY ThreadsLemma DEF ui_process, PanelTyped, Working, channel, mailbox,
       screen
  <1>2. PICK f \in Content \cup {NoFrame} : f = lcd.dgus_buf
    BY DEF PanelTyped, Threads
  <1>3. /\ ui \in UI /\ sys_cfg \in Setting /\ Current_page \in Pages
        /\ sys_cfg.net \in Nets
    BY DEF PanelTyped, PagesTyped, Phase, FieldsKept
  <1>4. ~Reading
    BY <1>1 DEF Reading
  <1>5. /\ transit \in Seq(Report) /\ storing \notin Operation /\ lcd_rx_buf \notin Operation
        /\ lcd_rx_sem = 0 \/ f \notin Operation
    <2>1. Ack \in Report /\ Operation \subseteq Content
      BY FramesDiffer DEF Report
    <2>2. CASE OneKey
      <3>1. PICK g \in Operation : InTransit(g) \/ InBuffer(g)
        BY <2>2 DEF OneKey
      <3>2. /\ transit \in Seq({Ack}) /\ storing = NoFrame
            /\ lcd_rx_buf \notin Operation /\ lcd_rx_sem = 0
        BY <1>1, <3>1 DEF InTransit, InBuffer
      <3>3. transit \in Seq(Report)
        BY <2>1, <3>2
      <3>. QED BY <3>2, <3>3, FramesDiffer
    <2>3. CASE Undisturbed
      BY <1>1, <1>2, <2>3 DEF Undisturbed
    <2>. QED BY <1>4, <2>2, <2>3 DEF Phase
  <1>6. f \in Operation /\ Current_page = NET =>
          wire = <<>> /\ transit = <<>> /\ storing = NoFrame
    <2>1. CASE OneKey
      <3>1. PICK g \in Operation : InTransit(g) \/ InBuffer(g)
        BY <2>1 DEF OneKey
      <3>. QED BY <1>1, <2>1, <3>1 DEF OneKey, InTransit, InBuffer
    <2>2. CASE Undisturbed
      BY <1>1, <1>2, <2>2 DEF Undisturbed
    <2>. QED BY <1>4, <2>1, <2>2 DEF Phase
  <1>7. \/ sys_cfg'.net = sys_cfg.net /\ todo' \in Seq(Unread)
        \/ /\ sys_cfg'.net = sys_cfg.net /\ todo' = <<ReadPage>>
           /\ Current_page = NET /\ f \in Operation
    <2>1. CASE ProcessKey(f)
      <3>1. f \in Content /\ f.t = "key" /\ f.page \in Pages /\ f.key \in Nat
        BY <2>1, AnswerForms, FramesDiffer DEF ProcessKey
      <3>2. f \in Operation
        BY <3>1 DEF Operation
      <3>3. CASE Button(f.page, f.key) /\ f.page = Current_page
        BY <1>3, <3>1, <3>2, <3>3, ButtonHandled, DisplayUnread
      <3>4. CASE todo' = <<ReadReg>> /\ UNCHANGED pages
        BY <3>4, CommandsDiffer DEF pages
      <3>. QED BY <2>1, <3>3, <3>4 DEF ProcessKey
    <2>2. CASE ProcessVar(f)
      <3>1. f \in Content /\ f.t = "var" /\ VChange(f.var, f.value)
        BY <2>2, FramesDiffer DEF ProcessVar
      <3>. QED BY <1>3, <3>1, VChangeHandled, DisplayUnread DEF Handled
    <2>3. CASE ProcessAnswer(f)
      BY <1>1, <2>3 DEF ProcessAnswer, pages
    <2>. QED BY <1>2, <2>1, <2>2, <2>3 DEF ui_process
  <1>8. CASE sys_cfg'.net = sys_cfg.net /\ todo' \in Seq(Unread)
    <2>1. todo' \in Seq(Kept)
      BY <1>8, CommandsDiffer
    <2>2. FieldsKept'
      BY <1>1, <1>8, <2>1, FieldsSame DEF Phase, FieldsKept
    <2>3. Undisturbed'
      BY <1>1, <1>5, <1>8 DEF Undisturbed
    <2>. QED BY <2>2, <2>3 DEF Phase
  <1>9. CASE /\ sys_cfg'.net = sys_cfg.net /\ todo' = <<ReadPage>>
             /\ Current_page = NET /\ f \in Operation
    <2>1. todo' \in Seq(Kept)
      BY <1>9, CommandsDiffer
    <2>2. FieldsKept'
      BY <1>1, <1>9, <2>1, FieldsSame DEF Phase, FieldsKept
    <2>3. Reading'
      BY <1>1, <1>5, <1>6, <1>9 DEF Reading, Calm
    <2>. QED BY <2>2, <2>3 DEF Phase
  <1>. QED BY <1>7, <1>8, <1>9

LEMMA update_pagePhase ==
  ASSUME PanelTyped, Phase, update_page PROVE Phase'
  <1>1. /\ lcd.pc = "idle" /\ todo = <<>> /\ lcd_rx_sem = 0
        /\ UNCHANGED <<Current_page, lcd, transit, lcd_rx_buf, lcd_rx_len,
                       storing, lcd_rx_sem, wire, fields>>
    BY DEF update_page, channel, mailbox, screen
  <1>2. /\ todo' \in Seq(Drawing) /\ UNCHANGED sys_cfg /\ Current_page # NET
    <2>1. PICK p \in Pages : p = Current_page
      BY DEF PanelTyped, PagesTyped
    <2>. QED BY <2>1, PollHandled, PageNumbers DEF update_page, PanelTyped, PagesTyped
  <1>3. todo' \in Seq(Unread) /\ todo' \in Seq(Kept)
    BY <1>2, CommandsDiffer
  <1>4. FieldsKept'
    BY <1>1, <1>2, <1>3, FieldsSame DEF Phase, FieldsKept
  <1>5. ~Reading
    BY <1>1 DEF Reading
  <1>6. ASSUME OneKey PROVE OneKey'
    <2>1. PICK f \in Operation : InTransit(f) \/ InBuffer(f)
      BY <1>6 DEF OneKey
    <2>2. InTransit(f)'
      BY <1>1, <2>1 DEF InTransit, InBuffer
    <2>. QED BY <1>1, <1>2, <1>6, <2>2 DEF OneKey
  <1>7. ASSUME Undisturbed PROVE Undisturbed'
    BY <1>1, <1>3, <1>7 DEF Undisturbed
  <1>. QED BY <1>4, <1>5, <1>6, <1>7 DEF Phase

LEMMA RequestPhase ==
  ASSUME PanelTyped, Phase, Request PROVE Phase'
  <1>1. /\ lcd.pc = "idle" /\ todo # <<>> /\ wire' = Append(wire, Head(todo))
        /\ lcd'.pc = IF Head(todo) = ReadPage THEN "answer" ELSE "ack"
        /\ UNCHANGED <<Current_page, todo, sys_cfg, transit, lcd_rx_buf,
                       lcd_rx_len, storing, lcd_rx_sem, fields>>
    <2>1. CASE Head(todo) = ReadPage
      <3>1. lcd' = [lcd EXCEPT !.pc = "answer"]
        BY <2>1 DEF Request
      <3>2. lcd'.pc = "answer"
        BY <3>1, ThreadsLemma DEF PanelTyped
      <3>. QED BY <2>1, <3>2 DEF Request, channel, mailbox, pages
    <2>2. CASE Head(todo) # ReadPage
      <3>1. lcd' = [lcd EXCEPT !.pc = "ack"]
        BY <2>2 DEF Request
      <3>2. lcd'.pc = "ack"
        BY <3>1, ThreadsLemma DEF PanelTyped
      <3>. QED BY <2>2, <3>2 DEF Request, channel, mailbox, pages
    <2>. QED BY <2>1, <2>2
  <1>2. FieldsKept'
    <2>1. todo \in Seq(Kept) /\ wire \in Seq(Kept)
      BY DEF Phase, FieldsKept
    <2>2. Append(wire, Head(todo)) \in Seq(Kept)
      BY <1>1, <2>1
    <2>. QED BY <1>1, <2>1, <2>2, FieldsSame DEF Phase
  <1>3. ASSUME OneKey PROVE OneKey'
    <2>1. PICK f \in Operation : InTransit(f) \/ InBuffer(f)
      BY <1>3 DEF OneKey
    <2>2. todo \in Seq(Drawing) /\ wire \in Seq(Drawing) /\ Current_page # NET
      BY <1>1, <1>3 DEF OneKey
    <2>3. Head(todo) \in Drawing /\ Append(wire, Head(todo)) \in Seq(Drawing)
      BY <1>1, <2>2
    <2>4. lcd'.pc = "ack"
      BY <1>1, <2>3, CommandsDiffer
    <2>5. InTransit(f)' \/ InBuffer(f)'
      BY <1>1, <2>1, <2>2, <2>4 DEF InTransit, InBuffer
    <2>. QED BY <1>1, <2>2, <2>3, <2>5 DEF OneKey
  <1>4. ASSUME Reading PROVE Reading'
    <2>1. todo = <<ReadPage>> /\ wire = <<>> /\ Calm
      BY <1>1, <1>4 DEF Reading
    <2>2. wire' = <<ReadPage>> /\ lcd'.pc = "answer"
      BY <1>1, <2>1
    <2>. QED BY <1>1, <2>1, <2>2 DEF Reading, Calm
  <1>5. ASSUME Undisturbed PROVE Undisturbed'
    BY <1>1, <1>5 DEF Undisturbed
  <1>. QED BY <1>2, <1>3, <1>4, <1>5 DEF Phase

LEMMA AcknowledgedPhase ==
  ASSUME PanelTyped, Phase, Acknowledged PROVE Phase'
  <1>1. /\ lcd.pc = "ack" /\ todo # <<>>
        /\ UNCHANGED <<sys_cfg, transit, lcd_rx_buf, lcd_rx_len, storing,
                       lcd_rx_sem, wire, fields>>
    BY DEF Acknowledged, PanelTyped, Working, mailbox, pages, screen
  <1>2. \/ /\ Head(todo) = ReadReg /\ todo' = todo /\ Current_page' = Current_page
           /\ lcd'.pc = "answer"
        \/ /\ Head(todo) # ReadReg /\ todo' = Tail(todo) /\ lcd'.pc = "idle"
           /\ \/ Current_page' = Current_page
              \/ Head(todo).cmd = "goto" /\ Current_page' = Head(todo).page
    <2>1. CASE Head(todo) = ReadReg
      <3>1. /\ lcd' = [lcd EXCEPT !.pc = "answer"]
            /\ todo' = todo /\ Current_page' = Current_page
        BY <2>1 DEF Acknowledged
      <3>2. lcd'.pc = "answer"
        BY <3>1, ThreadsLemma DEF PanelTyped
      <3>. QED BY <2>1, <3>1, <3>2
    <2>2. CASE Head(todo) # ReadReg
      <3>1. /\ lcd' = Begun /\ todo' = Tail(todo)
            /\ Current_page' = IF Head(todo).cmd = "goto" THEN Head(todo).page
                               ELSE Current_page
        BY <2>2 DEF Acknowledged, Over
      <3>2. lcd'.pc = "idle"
        BY <3>1, ThreadsLemma DEF PanelTyped
      <3>. QED BY <2>2, <3>1, <3>2
    <2>. QED BY <2>1, <2>2
  <1>3. FieldsKept'
    <2>1. todo \in Seq(Kept) /\ wire \in Seq(Kept)
      BY DEF Phase, FieldsKept
    <2>2. Tail(todo) \in Seq(Kept)
      BY <1>1, <2>1
    <2>. QED BY <1>1, <1>2, <2>1, <2>2, FieldsSame DEF Phase
  <1>4. ~Reading
    BY <1>1 DEF Reading
  <1>5. ASSUME OneKey PROVE OneKey'
    <2>1. PICK f \in Operation : InTransit(f) \/ InBuffer(f)
      BY <1>5 DEF OneKey
    <2>2. todo \in Seq(Drawing) /\ wire \in Seq(Drawing) /\ Current_page # NET
      BY <1>1, <1>5 DEF OneKey
    <2>3. Head(todo) \in Drawing /\ Tail(todo) \in Seq(Drawing)
      BY <1>1, <2>2
    <2>4. /\ todo' = Tail(todo) /\ lcd'.pc = "idle"
          /\ Current_page' # NET
      BY <1>2, <2>2, <2>3, CommandsDiffer, PageNumbers
    <2>5. InTransit(f)' \/ InBuffer(f)'
      BY <1>1, <2>1, <2>2, <2>4 DEF InTransit, InBuffer
    <2>. QED BY <1>1, <2>2, <2>3, <2>4, <2>5 DEF OneKey
  <1>6. ASSUME Undisturbed PROVE Undisturbed'
    <2>1. todo \in Seq(Unread) /\ Tail(todo) \in Seq(Unread)
      BY <1>1, <1>6 DEF Undisturbed
    <2>. QED BY <1>1, <1>2, <1>6, <2>1 DEF Undisturbed
  <1>. QED BY <1>3, <1>4, <1>5, <1>6 DEF Phase

LEMMA RegisterReadPhase ==
  ASSUME PanelTyped, Phase, RegisterRead PROVE Phase'
  <1>1. /\ lcd.pc = "answer" /\ Head(todo) = ReadReg /\ todo # <<>>
        /\ UNCHANGED <<sys_cfg, transit, storing, wire, fields>>
        /\ lcd_rx_buf' \in {lcd_rx_buf, NoFrame}
    BY DEF RegisterRead, PanelTyped, Working, mailbox, pages, screen,
       TakeFrame
  <1>2. todo' \in {todo, Tail(todo)} /\ lcd'.pc = "idle"
    BY <1>1, RetryLemma, ThreadsLemma DEF RegisterRead, PanelTyped, LinkTyped, Over
  <1>3. FieldsKept'
    <2>1. todo \in Seq(Kept) /\ wire \in Seq(Kept)
      BY DEF Phase, FieldsKept
    <2>2. Tail(todo) \in Seq(Kept)
      BY <1>1, <2>1
    <2>. QED BY <1>1, <1>2, <2>1, <2>2, FieldsSame DEF Phase
  <1>4. ~Reading /\ ~OneKey
    BY <1>1, CommandsDiffer DEF Reading, OneKey, InTransit, InBuffer
  <1>5. ASSUME Undisturbed PROVE Undisturbed'
    <2>1. todo \in Seq(Unread) /\ Tail(todo) \in Seq(Unread)
      BY <1>1, <1>5 DEF Undisturbed
    <2>. QED BY <1>1, <1>2, <1>5, <2>1, FramesDiffer DEF Undisturbed
  <1>. QED BY <1>3, <1>4, <1>5 DEF Phase

LEMMA PageReadPhase ==
  ASSUME PanelTyped, Phase, PageRead PROVE Phase'
  <1>1. /\ lcd.pc = "answer" /\ Head(todo) = ReadPage /\ todo # <<>> /\ lcd_rx_sem > 0
        /\ UNCHANGED <<transit, wire, fields>>
    BY DEF PageRead, PanelTyped, Working, screen
  <1>2. ~OneKey
    BY <1>1 DEF OneKey, InTransit, InBuffer
  <1>3. ~Undisturbed
    <2>1. todo \in Seq(Unread) => Head(todo) \in Unread
      BY <1>1
    <2>. QED BY <1>1, <2>1 DEF Undisturbed, Unread
  <1>4. PICK n \in Nets : Awaited(Fields(n))
    BY <1>1, <1>2, <1>3 DEF Phase, Reading, Calm
  <1>5. transit = <<>> /\ storing = NoFrame /\ lcd_rx_buf = Fields(n)
    BY <1>1, <1>4 DEF Awaited
  <1>6. n \in Network
    BY DEF Network
  <1>7. /\ lcd_rx_buf # NoFrame /\ lcd_rx_buf.t = "fields" /\ lcd_rx_buf.net = n
        /\ lcd_rx_buf \notin Operation
    BY <1>5, <1>6, FramesDiffer DEF Fields
  <1>8. /\ Confirm(n) /\ lcd' = Begun /\ UNCHANGED storing
        /\ lcd_rx_buf' \in {lcd_rx_buf, NoFrame}
    BY <1>7 DEF PageRead, TakeFrame
  <1>9. sys_cfg'.net = n
    BY <1>8 DEF Confirm, PanelTyped, PagesTyped, Setting
  <1>10. todo' \in Seq(Unread)
    <2>1. dgus_switch_page(OPTIONS) \in Seq(Display(sys_cfg.net))
      BY SwitchPage, PageNumbers
    <2>2. Display(sys_cfg.net) \subseteq Unread
      BY DisplayUnread DEF Phase, FieldsKept
    <2>. QED BY <1>8, <2>1, <2>2 DEF Confirm
  <1>11. todo' \in Seq(Kept)
    BY <1>10, CommandsDiffer
  <1>12. FieldsKept'
    BY <1>1, <1>9, <1>11 DEF Phase, FieldsKept
  <1>13. Undisturbed'
    <2>1. lcd'.pc = "idle"
      BY <1>8, ThreadsLemma DEF PanelTyped
    <2>2. transit' \in Seq(Report)
      BY <1>1, <1>5
    <2>3. storing' \notin Operation /\ lcd_rx_buf' \notin Operation
      BY <1>5, <1>7, <1>8, FramesDiffer
    <2>. QED BY <1>10, <2>1, <2>2, <2>3 DEF Undisturbed
  <1>. QED BY <1>12, <1>13 DEF Phase

LEMMA TimedOutPhase ==
  ASSUME PanelTyped, Phase, Waits', TimedOut PROVE Phase'
  <1>1. /\ \/ lcd.pc = "ack"
           \/ lcd.pc = "answer" /\ lcd_rx_sem = 0
        /\ UNCHANGED <<Current_page, sys_cfg, transit, lcd_rx_buf, lcd_rx_len,
                       storing, lcd_rx_sem, wire, fields>>
    BY DEF TimedOut, screen, channel, mailbox, pages
  <1>2. wire = <<>> /\ transit = <<>> /\ storing = NoFrame
    <2>1. ~Fault("late")
      BY FaultWaits, KindsThere DEF PanelTyped
    <2>. QED BY <2>1 DEF TimedOut, OnItsWay
  <1>3. todo # <<>> /\ todo \in Seq(Command) /\ lcd \in Threads
    BY <1>1 DEF PanelTyped, Working, LinkTyped
  <1>4. todo' \in {todo, Tail(todo)} /\ lcd'.pc = "idle"
    BY <1>3, RetryLemma DEF TimedOut
  <1>5. FieldsKept'
    <2>1. todo \in Seq(Kept) /\ wire \in Seq(Kept)
      BY DEF Phase, FieldsKept
    <2>2. Tail(todo) \in Seq(Kept)
      BY <1>3, <2>1
    <2>. QED BY <1>1, <1>4, <2>1, <2>2, FieldsSame DEF Phase
  <1>6. ASSUME OneKey PROVE OneKey'
    <2>1. PICK f \in Operation : InTransit(f) \/ InBuffer(f)
      BY <1>6 DEF OneKey
    <2>2. todo \in Seq(Drawing) /\ Current_page # NET
      BY <1>3, <1>6 DEF OneKey
    <2>3. Tail(todo) \in Seq(Drawing)
      BY <1>3, <2>2
    <2>4. InBuffer(f)'
      BY <1>1, <1>2, <1>4, <2>1 DEF InTransit, InBuffer
    <2>. QED BY <1>1, <1>4, <1>6, <2>2, <2>3, <2>4 DEF OneKey
  <1>7. ASSUME Reading PROVE Reading' \/ Undisturbed'
    <2>1. todo = <<ReadPage>> /\ lcd_rx_sem = 0 /\ lcd_rx_buf \notin Operation
      BY <1>1, <1>2, <1>7 DEF Reading, Calm, Awaited
    <2>2. CASE todo' = todo
      BY <1>1, <1>2, <1>4, <2>1, <2>2 DEF Reading, Calm
    <2>3. CASE todo' = Tail(todo)
      <3>1. todo' = <<>>
        BY <2>1, <2>3
      <3>. QED BY <1>1, <1>2, <1>4, <2>1, <3>1, FramesDiffer DEF Undisturbed
    <2>. QED BY <1>4, <2>2, <2>3
  <1>8. ASSUME Undisturbed PROVE Undisturbed'
    <2>1. todo \in Seq(Unread) /\ Tail(todo) \in Seq(Unread)
      BY <1>3, <1>8 DEF Undisturbed
    <2>. QED BY <1>1, <1>4, <1>8, <2>1 DEF Undisturbed
  <1>. QED BY <1>5, <1>6, <1>7, <1>8 DEF Phase

(* The receiver.                                                           *)
LEMMA ReceiverKeeps ==
  ASSUME FieldsKept, Receiver
  PROVE  /\ FieldsKept'
         /\ UNCHANGED <<Current_page, lcd, todo, wire>>
  BY DEF FieldsKept, Receiver, thread, pages, screen

LEMMA PassAckPhase ==
  ASSUME PanelTyped, Phase, Receiver, PassAck PROVE Phase'
  <1>1. FieldsKept' /\ UNCHANGED <<Current_page, lcd, todo, wire>>
    BY ReceiverKeeps DEF Phase
  <1>2. /\ storing = NoFrame /\ transit # <<>> /\ Head(transit) = Ack
        /\ transit' = Tail(transit) /\ UNCHANGED <<lcd_rx_buf, lcd_rx_len,
                                                   storing, lcd_rx_sem>>
    BY DEF PassAck, mailbox
  <1>3. ASSUME OneKey PROVE OneKey'
    <2>1. PICK f \in Operation : InTransit(f) \/ InBuffer(f)
      BY <1>3 DEF OneKey
    <2>2. InBuffer(f)
      BY <1>2, <2>1, FramesDiffer DEF InTransit
    <2>3. transit \in Seq({Ack}) /\ Current_page # NET
      BY <1>2, <2>2 DEF InBuffer
    <2>4. Tail(transit) \in Seq({Ack})
      BY <1>2, <2>3
    <2>5. InBuffer(f)'
      BY <1>1, <1>2, <2>2, <2>3, <2>4 DEF InBuffer
    <2>. QED BY <1>1, <1>3, <2>3, <2>5 DEF OneKey
  <1>4. ASSUME Reading PROVE Reading'
    <2>1. PICK n \in Nets : lcd.pc = "answer" /\ Awaited(Fields(n))
      BY <1>2, <1>4 DEF Reading, Calm
    <2>2. n \in Network
      BY DEF Network
    <2>3. Fields(n) # Ack
      BY <2>2, FramesDiffer
    <2>4. transit = <<Ack, Fields(n)>>
      BY <1>2, <2>1, <2>3 DEF Awaited
    <2>5. transit' = <<Fields(n)>>
      BY <1>2, <2>4
    <2>6. Awaited(Fields(n))'
      BY <1>1, <1>2, <2>1, <2>4, <2>5 DEF Awaited, Fields
    <2>. QED BY <1>1, <1>4, <2>1, <2>6 DEF Reading
  <1>5. ASSUME Undisturbed PROVE Undisturbed'
    <2>1. Tail(transit) \in Seq(Report)
      BY <1>2, <1>5 DEF Undisturbed
    <2>. QED BY <1>1, <1>2, <1>5, <2>1 DEF Undisturbed
  <1>. QED BY <1>1, <1>3, <1>4, <1>5 DEF Phase

LEMMA AnnouncePhase ==
  ASSUME PanelTyped, Phase, Receiver, Announce PROVE Phase'
  <1>1. FieldsKept' /\ UNCHANGED <<Current_page, lcd, todo, wire>>
    BY ReceiverKeeps DEF Phase
  <1>2. /\ storing = NoFrame /\ transit # <<>> /\ Head(transit) \in Content
        /\ storing' = Head(transit) /\ lcd_rx_len' = Head(transit)
        /\ UNCHANGED <<transit, lcd_rx_buf, lcd_rx_sem>>
    BY DEF Announce
  <1>3. ASSUME OneKey PROVE OneKey'
    <2>1. PICK f \in Operation : InTransit(f) \/ InBuffer(f)
      BY <1>3 DEF OneKey
    <2>2. transit \in Seq({Ack}) => Head(transit) = Ack
      BY <1>2
    <2>3. InTransit(f)
      BY <1>2, <2>1, <2>2, FramesDiffer DEF InBuffer
    <2>4. InTransit(f)'
      BY <1>1, <1>2, <2>3 DEF InTransit
    <2>. QED BY <1>1, <1>3, <2>4 DEF OneKey
  <1>4. ASSUME Reading PROVE Reading'
    <2>1. PICK n \in Nets : lcd.pc = "answer" /\ Awaited(Fields(n))
      BY <1>2, <1>4 DEF Reading, Calm
    <2>2. transit = <<Fields(n)>>
      BY <1>2, <2>1, FramesDiffer DEF Awaited
    <2>3. storing' = Fields(n) /\ lcd_rx_len' = Fields(n)
      BY <1>2, <2>2
    <2>4. Awaited(Fields(n))'
      BY <1>1, <1>2, <2>1, <2>2, <2>3 DEF Awaited, Fields
    <2>. QED BY <1>1, <1>4, <2>1, <2>4 DEF Reading
  <1>5. ASSUME Undisturbed PROVE Undisturbed'
    <2>1. Head(transit) \in Report
      BY <1>2, <1>5 DEF Undisturbed
    <2>. QED BY <1>1, <1>2, <1>5, <2>1 DEF Undisturbed, Report
  <1>. QED BY <1>1, <1>3, <1>4, <1>5 DEF Phase

LEMMA StorePhase ==
  ASSUME PanelTyped, Phase, Receiver, Store PROVE Phase'
  <1>1. FieldsKept' /\ UNCHANGED <<Current_page, lcd, todo, wire>>
    BY ReceiverKeeps DEF Phase
  <1>2. /\ storing # NoFrame /\ transit # <<>>
        /\ \/ lcd_rx_buf' = storing /\ transit' = Tail(transit)
           \/ lcd_rx_len = NoFrame /\ lcd_rx_buf' = lcd_rx_buf /\ transit' = transit
        /\ storing' = NoFrame /\ lcd_rx_sem' = lcd_rx_sem + 1 /\ lcd_rx_len' = lcd_rx_len
    BY DEF Store, PanelTyped, LinkTyped
  <1>3. ASSUME OneKey PROVE OneKey'
    <2>1. PICK f \in Operation : InTransit(f) \/ InBuffer(f)
      BY <1>3 DEF OneKey
    <2>2. InTransit(f) /\ storing = f /\ lcd_rx_len = f /\ lcd_rx_len # NoFrame
      BY <1>2, <2>1, FramesDiffer DEF InTransit, InBuffer
    <2>3. lcd_rx_buf' = f /\ transit' = Tail(transit)
      BY <1>2, <2>2
    <2>4. InBuffer(f)'
      BY <1>1, <1>2, <2>2, <2>3 DEF InTransit, InBuffer
    <2>. QED BY <1>1, <1>3, <2>4 DEF OneKey
  <1>4. ASSUME Reading PROVE Reading'
    <2>1. PICK n \in Nets : lcd.pc = "answer" /\ Awaited(Fields(n))
      BY <1>2, <1>4 DEF Reading, Calm
    <2>2. n \in Network
      BY DEF Network
    <2>3. Fields(n) # NoFrame
      BY <2>2, FramesDiffer
    <2>4. /\ transit = <<Fields(n)>> /\ lcd_rx_sem = 0
          /\ storing = Fields(n) /\ lcd_rx_len = Fields(n) /\ wire = <<>>
      BY <1>2, <2>1 DEF Awaited
    <2>5. lcd_rx_buf' = Fields(n) /\ transit' = <<>> /\ lcd_rx_sem' = 1
      BY <1>2, <2>3, <2>4
    <2>6. Awaited(Fields(n))'
      BY <1>1, <1>2, <2>4, <2>5 DEF Awaited, Fields
    <2>. QED BY <1>1, <1>4, <2>1, <2>6 DEF Reading
  <1>5. ASSUME Undisturbed PROVE Undisturbed'
    <2>1. transit \in Seq(Report) /\ Tail(transit) \in Seq(Report)
      BY <1>2, <1>5 DEF Undisturbed
    <2>. QED BY <1>1, <1>2, <1>5, <2>1, FramesDiffer DEF Undisturbed
  <1>. QED BY <1>1, <1>3, <1>4, <1>5 DEF Phase

(* The screen.                                                             *)
LEMMA ServePhase ==
  ASSUME PanelTyped, Phase, Serve PROVE Phase'
  <1>1. /\ wire # <<>> /\ wire' = Tail(wire)
        /\ transit' = transit \o Answers(Head(wire))
        /\ fields' = IF Head(wire).cmd = "init_ro" THEN Head(wire).net ELSE fields
        /\ UNCHANGED <<Current_page, lcd, todo, sys_cfg, lcd_rx_buf, lcd_rx_len,
                       storing, lcd_rx_sem>>
    BY DEF Serve, thread, pages, mailbox
  <1>2. FieldsKept'
    <2>1. wire \in Seq(Kept)
      BY DEF Phase, FieldsKept
    <2>2. Head(wire) \in Kept /\ Tail(wire) \in Seq(Kept)
      BY <1>1, <2>1
    <2>3. fields' \in Nets
      BY <1>1, <2>2, CommandsDiffer DEF Phase, FieldsKept
    <2>. QED BY <1>1, <2>2, <2>3 DEF Phase, FieldsKept
  <1>3. ASSUME OneKey PROVE OneKey'
    <2>1. PICK f \in Operation : InTransit(f) \/ InBuffer(f)
      BY <1>3 DEF OneKey
    <2>2. wire \in Seq(Drawing) /\ Current_page # NET
      BY <1>1, <1>3 DEF OneKey
    <2>3. Head(wire) \in Drawing /\ Tail(wire) \in Seq(Drawing)
      BY <1>1, <2>2
    <2>4. transit' = transit \o <<Ack>>
      BY <1>1, <2>3, AnswersForm DEF PanelTyped
    <2>5. CASE InTransit(f)
      <3>1. /\ transit \in Seq(Frame) /\ transit # <<>>
            /\ Head(transit) = f /\ Tail(transit) \in Seq({Ack}) /\ Ack \in Frame
        BY <2>5 DEF InTransit, PanelTyped, LinkTyped, Frame
      <3>2. Head(transit \o <<Ack>>) = Head(transit)
            /\ Tail(transit \o <<Ack>>) = Tail(transit) \o <<Ack>>
        BY <3>1
      <3>3. Tail(transit) \o <<Ack>> \in Seq({Ack}) /\ transit \o <<Ack>> # <<>>
        BY <3>1
      <3>. QED BY <1>1, <1>3, <2>2, <2>3, <2>4, <2>5, <3>1, <3>2, <3>3 DEF InTransit, OneKey
    <2>6. CASE InBuffer(f)
      <3>1. transit \in Seq({Ack})
        BY <2>6 DEF InBuffer
      <3>2. transit \o <<Ack>> \in Seq({Ack})
        BY <3>1
      <3>3. InBuffer(f)'
        BY <1>1, <2>2, <2>4, <2>6, <3>2 DEF InBuffer
      <3>. QED BY <1>1, <1>3, <2>2, <2>3, <3>3 DEF OneKey
    <2>. QED BY <2>1, <2>5, <2>6
  <1>4. ASSUME Reading PROVE Reading'
    <2>1. /\ lcd.pc = "answer" /\ wire = <<ReadPage>> /\ Calm
          /\ todo = <<ReadPage>>
      BY <1>1, <1>4 DEF Reading, Awaited
    <2>2. PICK n \in Nets : n = fields
      BY DEF Phase, FieldsKept
    <2>3. wire' = <<>> /\ transit' = <<Ack, Fields(n)>>
      BY <1>1, <2>1, <2>2, AnswersForm DEF Calm, PanelTyped
    <2>4. Awaited(Fields(n))'
      BY <1>1, <2>1, <2>3 DEF Awaited, Calm, Fields
    <2>. QED BY <1>1, <2>1, <2>4 DEF Reading
  <1>5. ASSUME Undisturbed PROVE Undisturbed'
    <2>1. PICK c \in Command : c = Head(wire)
      BY <1>1 DEF PanelTyped, LinkTyped
    <2>2. Answers(c) \in Seq(Report) /\ transit \in Seq(Report)
      BY <1>5, AnswersForm DEF PanelTyped, Undisturbed
    <2>3. transit \o Answers(c) \in Seq(Report)
      BY <2>2
    <2>. QED BY <1>1, <1>5, <2>1, <2>3 DEF Undisturbed
  <1>. QED BY <1>2, <1>3, <1>4, <1>5 DEF Phase

(* The operator, who waits.                                                *)
LEMMA OperatorPhase ==
  ASSUME PanelTyped, Phase, Waits', Press \/ TypeValue PROVE Phase'
  <1>1. PICK f \in Operation : Send(f)
    BY PressedKey, TypedValue
  <1>2. ~Fault("crowded")
    BY FaultWaits, KindsThere DEF PanelTyped
  <1>3. Quiet /\ UNCHANGED <<thread, pages, screen>>
    BY <1>2 DEF Press, TypeValue, Patiently
  <1>4. /\ lcd.pc = "idle" /\ todo = <<>> /\ wire = <<>> /\ transit = <<>>
        /\ storing = NoFrame /\ lcd_rx_sem = 0
        /\ UNCHANGED <<Current_page, lcd, todo, sys_cfg, wire, fields,
                       lcd_rx_buf, lcd_rx_len, storing, lcd_rx_sem>>
    BY <1>1, <1>3 DEF Quiet, Send, thread, pages, screen,
       mailbox
  <1>5. FieldsKept'
    BY <1>4 DEF Phase, FieldsKept
  <1>6. lcd_rx_buf \notin Operation
    BY <1>4 DEF Phase, OneKey, InTransit, InBuffer, Reading, Undisturbed
  <1>7. transit' = <<f>>
    BY <1>1, <1>4 DEF Send
  <1>8. transit' # <<>> /\ Head(transit') = f /\ Tail(transit') = <<>>
    BY <1>7
  <1>9. Tail(transit') \in Seq({Ack})
    <2>1. <<>> \in Seq({Ack})
      OBVIOUS
    <2>. QED BY <1>8, <2>1, Zenon
  <1>10. storing' # f
    BY <1>4, FramesDiffer
  <1>11. InTransit(f)'
    BY <1>4, <1>6, <1>8, <1>9, <1>10 DEF InTransit
  <1>. QED BY <1>4, <1>5, <1>11 DEF Phase, OneKey

LEMMA EditFieldsPhase ==
  ASSUME PanelTyped, Phase, EditFields PROVE Phase'
  <1>1. /\ fields' \in Nets /\ todo = <<>>
        /\ UNCHANGED <<Current_page, lcd, todo, sys_cfg, wire, transit,
                       lcd_rx_buf, lcd_rx_len, storing,
                       lcd_rx_sem>>
    BY DEF EditFields, Quiet, thread, pages, channel, mailbox
  <1>2. FieldsKept'
    BY <1>1 DEF Phase, FieldsKept
  <1>3. ~Reading
    BY <1>1 DEF Reading
  <1>4. OneKey => OneKey'
    BY <1>1 DEF OneKey, InTransit, InBuffer
  <1>5. Undisturbed => Undisturbed'
    BY <1>1 DEF Undisturbed
  <1>. QED BY <1>2, <1>3, <1>4, <1>5 DEF Phase

(* What is lost.                                                           *)
LEMMA LoseRequestPhase ==
  ASSUME PanelTyped, Phase, LoseRequest PROVE Phase'
  <1>1. /\ wire # <<>> /\ wire' = Tail(wire)
        /\ UNCHANGED <<Current_page, lcd, todo, sys_cfg, fields, transit,
                       lcd_rx_buf, lcd_rx_len, storing,
                       lcd_rx_sem>>
    BY DEF LoseRequest, thread, pages, channel, mailbox
  <1>2. FieldsKept'
    <2>1. wire \in Seq(Kept)
      BY DEF Phase, FieldsKept
    <2>2. Tail(wire) \in Seq(Kept)
      BY <1>1, <2>1
    <2>. QED BY <1>1, <2>2 DEF Phase, FieldsKept
  <1>3. ASSUME OneKey PROVE OneKey'
    <2>1. wire \in Seq(Drawing) /\ Current_page # NET
      BY <1>1, <1>3 DEF OneKey
    <2>2. Tail(wire) \in Seq(Drawing)
      BY <1>1, <2>1
    <2>. QED BY <1>1, <1>3, <2>1, <2>2 DEF OneKey, InTransit, InBuffer
  <1>4. ASSUME Reading PROVE Reading'
    <2>1. /\ lcd.pc = "answer" /\ wire = <<ReadPage>> /\ Calm
          /\ todo = <<ReadPage>>
      BY <1>1, <1>4 DEF Reading, Awaited
    <2>2. wire' = <<>>
      BY <1>1, <2>1
    <2>. QED BY <1>1, <2>1, <2>2 DEF Reading, Calm
  <1>5. Undisturbed => Undisturbed'
    BY <1>1 DEF Undisturbed
  <1>. QED BY <1>2, <1>3, <1>4, <1>5 DEF Phase

LEMMA LoseFramePhase ==
  ASSUME PanelTyped, Phase, LoseFrame PROVE Phase'
  <1>1. /\ storing = NoFrame /\ transit # <<>> /\ transit' = Tail(transit)
        /\ UNCHANGED <<Current_page, lcd, todo, sys_cfg, fields, wire,
                       lcd_rx_buf, lcd_rx_len, storing, lcd_rx_sem>>
    BY DEF LoseFrame, thread, pages, screen, mailbox
  <1>2. FieldsKept'
    BY <1>1 DEF Phase, FieldsKept
  <1>3. ASSUME OneKey PROVE OneKey' \/ Undisturbed'
    <2>1. PICK f \in Operation : InTransit(f) \/ InBuffer(f)
      BY <1>3 DEF OneKey
    <2>2. CASE InTransit(f)
      <3>1. todo \in Seq(Drawing) /\ Tail(transit) \in Seq({Ack}) /\ Ack \in Report
        BY <1>3, <2>2, FramesDiffer DEF OneKey, InTransit, Report
      <3>2. todo \in Seq(Unread)
        BY <3>1, CommandsDiffer
      <3>3. Tail(transit) \in Seq(Report)
        BY <3>1
      <3>. QED BY <1>1, <2>2, <3>2, <3>3, FramesDiffer DEF InTransit, Undisturbed
    <2>3. CASE InBuffer(f)
      <3>1. transit \in Seq({Ack}) /\ Current_page # NET
        BY <1>1, <2>3 DEF InBuffer
      <3>2. Tail(transit) \in Seq({Ack})
        BY <1>1, <3>1
      <3>3. InBuffer(f)'
        BY <1>1, <2>3, <3>1, <3>2 DEF InBuffer
      <3>. QED BY <1>1, <1>3, <3>1, <3>3 DEF OneKey
    <2>. QED BY <2>1, <2>2, <2>3
  <1>4. ASSUME Reading PROVE Reading'
    <2>1. PICK n \in Nets : lcd.pc = "answer" /\ Awaited(Fields(n))
      BY <1>1, <1>4 DEF Reading, Calm
    <2>2. CASE transit = <<Ack, Fields(n)>>
      <3>1. transit' = <<Fields(n)>>
        BY <1>1, <2>2
      <3>2. Awaited(Fields(n))'
        BY <1>1, <2>1, <2>2, <3>1 DEF Awaited, Fields
      <3>. QED BY <1>1, <1>4, <2>1, <3>2 DEF Reading
    <2>3. CASE transit = <<Fields(n)>>
      <3>1. transit' = <<>>
        BY <1>1, <2>3
      <3>. QED BY <1>1, <1>4, <2>1, <2>3, <3>1 DEF Reading, Awaited, Calm
    <2>. QED BY <1>1, <2>1, <2>2, <2>3 DEF Awaited
  <1>5. ASSUME Undisturbed PROVE Undisturbed'
    <2>1. Tail(transit) \in Seq(Report)
      BY <1>1, <1>5 DEF Undisturbed
    <2>. QED BY <1>1, <1>5, <2>1 DEF Undisturbed
  <1>. QED BY <1>2, <1>3, <1>4, <1>5 DEF Phase

LEMMA RestartPhase ==
  ASSUME PanelTyped, Phase, Restart PROVE Phase'
  <1>1. /\ todo' = <<Goto(LOGO)>> /\ transit' = <<>> /\ wire' = <<>>
        /\ lcd_rx_buf' = NoFrame /\ storing' = NoFrame /\ lcd' = Begun
        /\ UNCHANGED <<sys_cfg, fields>>
    BY DEF Restart
  <1>2. Goto(LOGO) \in Unread
    BY PageNumbers DEF Unread, Kept, Goto, ReadPage
  <1>3. todo' \in Seq(Unread) /\ todo' \in Seq(Kept)
    BY <1>1, <1>2, CommandsDiffer
  <1>4. lcd'.pc = "idle"
    BY <1>1, ThreadsLemma DEF PanelTyped
  <1>. QED BY <1>1, <1>3, <1>4, FramesDiffer DEF Phase, FieldsKept, Undisturbed

LEMMA PanelUnchanged ==
  ASSUME Phase, UNCHANGED vars PROVE Phase'
  BY DEF vars, thread, pages, channel, screen, mailbox,
     Phase, FieldsKept, OneKey, InTransit, InBuffer, Reading, Calm, Awaited, Undisturbed
-----------------------------------------------------------------------------
(* An operator who waits now has waited before.                            *)
LEMMA SceneChanges ==
  ASSUME [Next]_vars
  PROVE  UNCHANGED scene \/ \E kind \in Kinds : Fault(kind)
  <1>1. CASE UNCHANGED vars
    BY <1>1 DEF vars
  <1>2. CASE LcdThread
    BY <1>2, KindsThere DEF LcdThread, Wake, Empty, ui_process,
       update_page, Request, Acknowledged, RegisterRead, PageRead,
       TimedOut
  <1>3. CASE Receiver \/ Serve \/ EditFields
    BY <1>3 DEF Receiver, Serve, EditFields
  <1>4. CASE Press \/ TypeValue
    BY <1>4, KindsThere DEF Press, TypeValue, Patiently
  <1>5. CASE LoseRequest \/ LoseFrame \/ Restart
    BY <1>5, KindsThere DEF LoseRequest, LoseFrame, Restart
  <1>. QED BY <1>1, <1>2, <1>3, <1>4, <1>5 DEF Next

LEMMA PhaseStep ==
  ASSUME PanelTyped, Phase, Waits', [Next]_vars PROVE Phase'
  <1>1. CASE LcdThread
    BY <1>1, WakePhase, EmptyPhase, ui_processPhase, update_pagePhase, RequestPhase,
       AcknowledgedPhase, RegisterReadPhase, PageReadPhase, TimedOutPhase DEF LcdThread
  <1>2. CASE Receiver
    BY <1>2, PassAckPhase, AnnouncePhase, StorePhase DEF Receiver
  <1>. QED BY <1>1, <1>2, PanelUnchanged, ServePhase, OperatorPhase, EditFieldsPhase,
          LoseRequestPhase, LoseFramePhase, RestartPhase DEF Next

LEMMA PanelStep ==
  ASSUME PanelInv, [Next]_vars PROVE PanelInv'
  <1>1. PanelTyped'
    BY PanelTypedStep DEF PanelInv
  <1>2. ASSUME Waits' PROVE Phase'
    <2>1. Waits
      <3>1. CASE UNCHANGED scene
        BY <1>2, <3>1 DEF Waits
      <3>2. CASE \E kind \in Kinds : Fault(kind)
        BY <1>2, <3>2, FaultWaits DEF PanelInv, PanelTyped
      <3>. QED BY <3>1, <3>2, SceneChanges
    <2>. QED BY <1>2, <2>1, PhaseStep DEF PanelInv
  <1>. QED BY <1>1, <1>2 DEF PanelInv

LEMMA PanelStart ==
  ASSUME Init PROVE PanelInv
  <1>1. PanelTyped
    BY PanelTypedInit
  <1>2. sys_cfg.net \in Nets /\ fields = sys_cfg.net
    BY DEF Init
  <1>3. /\ todo = dgus_switch_page(LOGO) /\ lcd.pc = "idle"
        /\ wire = <<>> /\ transit = <<>> /\ storing = NoFrame /\ lcd_rx_buf = NoFrame
    BY DEF Init, Begun, ChannelInit
  <1>4. todo \in Seq(Unread)
    <2>1. todo \in Seq(Display(sys_cfg.net))
      BY <1>3, SwitchPage, PageNumbers
    <2>2. Display(sys_cfg.net) \subseteq Unread
      BY <1>2, DisplayUnread
    <2>. QED BY <2>1, <2>2
  <1>5. todo \in Seq(Kept)
    BY <1>4, CommandsDiffer
  <1>6. FieldsKept
    BY <1>2, <1>3, <1>5 DEF FieldsKept
  <1>7. Undisturbed
    BY <1>3, <1>4, FramesDiffer DEF Undisturbed
  <1>. QED BY <1>1, <1>6, <1>7 DEF PanelInv, Phase
-----------------------------------------------------------------------------
(* Every variable of the LCD thread and of the screen has its type: a      *)
(* command is there while its transaction runs, the pages' numbers stay in *)
(* their tables, however often the program starts again.                   *)
THEOREM TypeCorrect == Spec => []TypeOK
  <1>1. Init => PanelInv
    BY PanelStart
  <1>2. PanelInv /\ [Next]_vars => PanelInv'
    BY PanelStep
  <1>3. PanelInv => TypeOK
    BY DEF PanelInv, PanelTyped, LinkTyped, PagesTyped, Threads, SceneTyped, TypeOK
  <1>. QED BY <1>1, <1>2, <1>3, PTL DEF Spec

(* As long as the operator waits for each key and no answer is late, what  *)
(* confirm saves are the fields of the page, whatever is lost and however  *)
(* often the program starts again.                                         *)
THEOREM SavesWhatIsTyped == Spec => []SavedAsTyped
  <1>1. Init => PanelInv
    BY PanelStart
  <1>2. PanelInv /\ [Next]_vars => PanelInv'
    BY PanelStep
  <1>3. PanelInv => SavedAsTyped
    <2>1. Waits <=> scene.gone.crowded = 0 /\ scene.gone.late = 0
      BY KindsThere DEF Waits
    <2>. QED BY <2>1 DEF PanelInv, Phase, FieldsKept, SavedAsTyped
  <1>. QED BY <1>1, <1>2, <1>3, PTL DEF Spec
=============================================================================
