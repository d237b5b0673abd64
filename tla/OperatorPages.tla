--------------------------- MODULE OperatorPages ---------------------------
(***************************************************************************)
(* The pages of the operator's screen: what each handler does with a key,  *)
(* with a value that was typed and with a refresh, which page it goes to,  *)
(* and which commands it leaves for the link (todo).  LcdPanel carries the *)
(* commands out.  The manual charge page's effect on a node is in          *)
(* NodeControl; here it is one page among the others.                      *)
(*                                                                         *)
(* A burst of writes of one handler is one write command: all it can do    *)
(* besides showing values is take acknowledgements.  A handler acts on     *)
(* every poll_cnt % n-th refresh: here on any.  Which node, group or row of *)
(* a page is shown, and how often, is left out; the page numbers are kept. *)
(***************************************************************************)
EXTENDS Integers, Sequences

CONSTANTS
  MAX_NODE,     \* nodes
  Rows,         \* nodes, groups or modules on a page: 16
  ValueRows,    \* nodes on the page of values: 8
  StepRows,     \* steps on a page: 5
  PerModulePage,\* MAX_NODE a page of modules stands for: 64
  StepNums,     \* lengths a program may have by the time it is looked at
  Nets,         \* values of the network settings
  Limits        \* values of the voltage and current limits

ASSUME OperatorPagesAssumption ==
  /\ \A n \in {MAX_NODE, Rows, ValueRows, StepRows, PerModulePage} : n \in Nat \ {0}
  /\ MAX_NODE % Rows = 0 /\ MAX_NODE % ValueRows = 0
  /\ StepNums \subseteq Nat /\ Limits \subseteq Nat /\ Nets # {}

PAGE_SUM == MAX_NODE \div Rows - 1

LOGO     == 0
MAIN     == 1      \* ALL_MONNTORING_PAGE
NODE     == 2      \* SINGLE_MONNTORING_PAGE
OPTIONS  == 4      \* SYS_OPTION_PAGE
NET      == 5      \* NET_CONFIG_PAGE
GROUPS   == 6      \* STEP_CONFIG_PAGE
MODULES  == 7      \* MODULE_INFO_PAGE
LIMITS   == 8      \* SYS_CONFIG_PAGE
STEPS    == 9      \* STEP_INFO_PAGE
VALUES   == 10     \* NODE_REAL_DATA
PASSWORD == 14     \* CHECK_PASSWAD_PAGE
OPERATOR == 15     \* OPEROTOR_PAGE

(* UI_data: the pages with an entry, and those with a field of their own   *)
(* that is written when they are opened (wo).                              *)
Pages   == 0..2 \cup 4..10 \cup {14, 15}
HasWo   == {MAIN, NODE, MODULES, LIMITS, STEPS, VALUES, PASSWORD}
HasPoll == {LOGO, MAIN, NODE, MODULES, STEPS, VALUES}

STAY == 255        \* PAGE_ID_INVALID

VARIABLES
  ui,           \* what lcd_ui.c keeps of the pages
  sys_cfg,      \* the settings: network, limits, lamp mode
  todo          \* commands a handler has left for the link

Network == Nets \cup {"garbage"}

Setting == [net: Network, low: Limits, high: Limits, led: BOOLEAN]

(* The pages of modules there are.                                         *)
Offsets == {o \in Nat : o * PerModulePage < MAX_NODE}

UI == [ switch_page_flag: 0..PAGE_SUM, slip: BOOLEAN,
        page5_ro_var: Network,
        step_group_select: 0..PAGE_SUM,
        page7_offset: Offsets, module_cnt: 0..255,
        temp: [low: Limits, high: Limits, led: BOOLEAN],
        page9_step_check_page: Nat,
        page10_cnt_poll: 0..MAX_NODE \div ValueRows - 1,
        passwad: BOOLEAN ]      \* the typed code is the right one

Temp(c) == [low |-> c.low, high |-> c.high, led |-> c.led]

Unopened(c) ==
  [ switch_page_flag |-> 0, slip |-> FALSE, page5_ro_var |-> c.net,
    step_group_select |-> 0, page7_offset |-> 0, module_cnt |-> 0, temp |-> Temp(c),
    page9_step_check_page |-> 0, page10_cnt_poll |-> 0, passwad |-> FALSE ]

(* The commands of the link.  init_ro writes the network settings into the *)
(* fields the operator edits.                                              *)
Write      == [cmd |-> "write"]
InitRo(n)  == [cmd |-> "init_ro", net |-> n]
Goto(p)    == [cmd |-> "goto", page |-> p]
ReadPage   == [cmd |-> "read_page"]
ReadReg    == [cmd |-> "read_reg"]
Command    == {Write, ReadPage, ReadReg} \cup {InitRo(n) : n \in Network}
                \cup {Goto(p) : p \in Pages}
-----------------------------------------------------------------------------
(* page_init of page p, and what dgus_switch_page sends.                   *)
PageInit(p, u) ==
  CASE p = NET     -> [u EXCEPT !.page5_ro_var = sys_cfg.net]
    [] p = MODULES -> [u EXCEPT !.page7_offset = 0, !.module_cnt = 0]
    [] p = LIMITS  -> [u EXCEPT !.temp = Temp(sys_cfg)]
    [] p = STEPS   -> [u EXCEPT !.page9_step_check_page = 0]
    [] p = VALUES  -> [u EXCEPT !.page10_cnt_poll = 0]
    [] OTHER       -> u

InitCommands(p) ==
  IF p = NET THEN <<InitRo(sys_cfg.net)>>
  ELSE IF p \in {NODE, GROUPS, MODULES, LIMITS, STEPS, VALUES, OPERATOR} THEN <<Write>>
  ELSE <<>>

dgus_switch_page(p) ==
  InitCommands(p) \o (IF p \in HasWo THEN <<Write>> ELSE <<>>) \o <<Goto(p)>>

(* The end of a handler: its own commands, then the page it goes to.       *)
Leave(u, commands, p) ==
  IF p = STAY THEN ui' = u /\ todo' = commands
  ELSE ui' = PageInit(p, u) /\ todo' = commands \o dgus_switch_page(p)
-----------------------------------------------------------------------------
(* Mutant: the number turns past its limit.                                *)
TurnPast(limit, number, by, commands) ==
  Leave([ui EXCEPT ![number] = @ + by], commands, STAY)

(* Keys.  Each handler is given the offset of the key.  Previous and next  *)
(* page: the number changes unless it is at its limit.                     *)
Turn(limit, number, by, commands) ==
  IF ui[number] = limit THEN Leave(ui, <<>>, STAY)
  ELSE Leave([ui EXCEPT ![number] = @ + by], commands, STAY)

Button1(k) ==
  /\ \/ k = 0 /\ Leave(ui, <<>>, OPTIONS)
     \/ k \in 1..Rows /\ Leave(ui, <<>>, NODE)
     \/ /\ k = Rows + 1
        /\ Leave([ui EXCEPT !.switch_page_flag = IF @ # 0 THEN @ - 1 ELSE @],
                 <<Write>>, STAY)
     \/ /\ k = Rows + 2
        /\ Leave([ui EXCEPT !.switch_page_flag = IF @ # PAGE_SUM THEN @ + 1 ELSE @],
                 <<Write>>, STAY)
     \/ k = Rows + 3 /\ Leave(ui, <<>>, VALUES)
  /\ UNCHANGED sys_cfg

(* Back; the keys that charge and discharge show a text if refused.        *)
Button2(k) ==
  /\ \/ k = 0 /\ Leave(ui, <<>>, MAIN)
     \/ k \in {1, 2} /\ \E said \in {<<>>, <<Write>>} : Leave(ui, said, STAY)
  /\ UNCHANGED sys_cfg

Button4(k) ==
  /\ \/ k = 0 /\ Leave(ui, <<>>, MAIN)
     \/ k = 1 /\ Leave(ui, <<>>, NET)
     \/ k = 2 /\ Leave(ui, <<>>, GROUPS)
     \/ k = 3 /\ Leave(ui, <<>>, MODULES)
     \/ k = 4 /\ Leave(ui, <<>>, LIMITS)
  /\ UNCHANGED sys_cfg

(* Confirm reads the fields of the page first.                             *)
Button5(k) ==
  /\ \/ k = 0 /\ Leave(ui, <<>>, OPTIONS)
     \/ k = 1 /\ Leave(ui, <<ReadPage>>, STAY)
  /\ UNCHANGED sys_cfg

(* The rest of confirm once the page is read: the settings are taken over, *)
(* saved, written to the interfaces file and the interface restarted.      *)
Confirm(read) ==
  /\ sys_cfg' = [sys_cfg EXCEPT !.net = read]
  /\ ui' = [ui EXCEPT !.page5_ro_var = read]
  /\ todo' = dgus_switch_page(OPTIONS)

Button6(k) ==
  /\ \/ k = 0 /\ Leave([ui EXCEPT !.step_group_select = 0], <<>>, OPTIONS)
     \/ k \in 1..Rows /\ Leave(ui, <<>>, STEPS)
     \/ k = Rows + 1 /\ Turn(0, "step_group_select", -1, <<Write>>)
     \/ k = Rows + 2 /\ Turn(PAGE_SUM, "step_group_select", 1, <<Write>>)
  /\ UNCHANGED sys_cfg

(* module_cnt is a u8: before the first page it is 256 - Rows.             *)
Button7(k) ==
  /\ \/ k = 0 /\ Leave(ui, <<>>, OPTIONS)
     \/ /\ k \in {1, 2}
        /\ LET o == ui.page7_offset
               next == CASE k = 1 /\ (o + 1) * PerModulePage < MAX_NODE -> o + 1
                         [] k = 2 /\ o > 0 -> o - 1
                         [] OTHER -> o
           IN  Leave([ui EXCEPT !.page7_offset = next,
                                !.module_cnt = (Rows * (next - 1)) % 256],
                     <<Write>>, STAY)
  /\ UNCHANGED sys_cfg

(* Save takes over limits in their order only.                             *)
Button8(k) ==
  \/ k = 0 /\ Leave(ui, <<>>, OPTIONS) /\ UNCHANGED sys_cfg
  \/ /\ k = 1
     /\ IF ui.temp.low <= ui.temp.high
        THEN /\ sys_cfg' = [sys_cfg EXCEPT !.low = ui.temp.low, !.high = ui.temp.high,
                                           !.led = ui.temp.led]
             /\ Leave(ui, <<>>, OPTIONS)
        ELSE Leave(ui, <<>>, STAY) /\ UNCHANGED sys_cfg
  \/ k = 2 /\ Leave([ui EXCEPT !.temp.led = ~@], <<Write>>, STAY) /\ UNCHANGED sys_cfg

(* The host may have sent another program since the page was opened.       *)
Button9(k) ==
  /\ \/ k = 0 /\ Leave(ui, <<>>, GROUPS)
     \/ k = 1 /\ Turn(0, "page9_step_check_page", -1, <<>>)
     \/ /\ k = 2
        /\ \E step_num \in StepNums :
             Leave([ui EXCEPT !.page9_step_check_page =
                      IF (@ + 1) * StepRows < step_num THEN @ + 1 ELSE @], <<>>, STAY)
  /\ UNCHANGED sys_cfg

Button10(k) ==
  /\ \/ k = 0 /\ Leave(ui, <<>>, MAIN)
     \/ k = 1 /\ Turn(0, "page10_cnt_poll", -1, <<Write>>)
     \/ k = 2 /\ Turn(MAX_NODE \div ValueRows - 1, "page10_cnt_poll", 1, <<Write>>)
  /\ UNCHANGED sys_cfg

(* Of the code the copies to be written are cleared, not the one compared. *)
Button14(k) ==
  /\ \/ /\ k = 0
        /\ IF ui.passwad THEN Leave(ui, <<Write>>, OPERATOR) ELSE Leave(ui, <<>>, STAY)
     \/ k = 1 /\ Leave(ui, <<>>, MAIN)
  /\ UNCHANGED sys_cfg

(* Of the operator's commands the ones that end the program are in         *)
(* LcdPanel (Restart); the copy of the database changes nothing here.      *)
Button15(k) == k = 2 /\ Leave(ui, <<>>, MAIN) /\ UNCHANGED sys_cfg

(* The keys of a page.                                                     *)
KeysOf(p) ==
  CASE p = MAIN -> 0..Rows+3    [] p = OPTIONS -> 0..4
    [] p = GROUPS -> 0..Rows+2  [] p = LOGO -> {}
    [] p \in {NET, PASSWORD} -> {0, 1}
    [] p = OPERATOR -> {2}
    [] OTHER -> {0, 1, 2}

Button(p, k) ==
  \/ p = MAIN /\ Button1(k)
  \/ p = NODE /\ Button2(k)
  \/ p = OPTIONS /\ Button4(k)
  \/ p = NET /\ Button5(k)
  \/ p = GROUPS /\ Button6(k)
  \/ p = MODULES /\ Button7(k)
  \/ p = LIMITS /\ Button8(k)
  \/ p = STEPS /\ Button9(k)
  \/ p = VALUES /\ Button10(k)
  \/ p = PASSWORD /\ Button14(k)
  \/ p = OPERATOR /\ Button15(k)
-----------------------------------------------------------------------------
(* Typed values, by the page they are of, whichever page is current.       *)
VChange(var, value) ==
  /\ \/ var = "slip" /\ Leave([ui EXCEPT !.slip = value], <<>>, STAY)
     \/ var = "low"  /\ Leave([ui EXCEPT !.temp.low = value], <<Write>>, STAY)
     \/ var = "high" /\ Leave([ui EXCEPT !.temp.high = value], <<Write>>, STAY)
     \/ var = "code" /\ Leave([ui EXCEPT !.passwad = value], <<>>, STAY)
  /\ UNCHANGED sys_cfg

(* Refreshes.                                                              *)
Poll1 ==
  \/ ui.slip /\ Leave([ui EXCEPT !.slip = FALSE], <<Write>>, PASSWORD)
  \/ Leave(ui, <<Write>>, STAY)

Poll7 ==
  LET cnt == (ui.module_cnt + 1) % 256
      next == IF cnt >= (ui.page7_offset + 1) * Rows
              THEN (ui.page7_offset * Rows) % 256 ELSE cnt
  IN  Leave([ui EXCEPT !.module_cnt = next], <<Write>>, STAY)

(* The bar of the logo; the values and the status of a node; the steps of  *)
(* a program; the values of eight nodes.                                   *)
Poll0  == Leave(ui, <<Write>>, MAIN)
Poll2  == Leave(ui, <<Write>>, STAY)
Poll9  == Leave(ui, <<Write>>, STAY)
Poll10 == Leave(ui, <<Write>>, STAY)

Poll(p) ==
  /\ \/ p = LOGO /\ Poll0
     \/ p = MAIN /\ Poll1
     \/ p = NODE /\ Poll2
     \/ p = MODULES /\ Poll7
     \/ p = STEPS /\ Poll9
     \/ p = VALUES /\ Poll10
  /\ UNCHANGED sys_cfg
=============================================================================
