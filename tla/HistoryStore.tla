---------------------------- MODULE HistoryStore ----------------------------
(***************************************************************************)
(* The history that is kept while the host is away.  The server thread     *)
(* takes the host for gone after NetLimit seconds of silence; once a       *)
(* minute the save thread then writes Copies rows for every running node.  *)
(* When the host is back it asks which nodes have rows and reads them, one *)
(* row of every node of a range per request; a row that is read is deleted *)
(* before the reply goes out.  A stop deletes the rows of all nodes.       *)
(*                                                                         *)
(* Nodes are counted from 0 in bst.node[] and in the commands of the host, *)
(* rows are stored under the number + 1.  A row is an identity here: the   *)
(* node it was taken of and its number among the rows of that node.  The   *)
(* reply buffer is shared by all replies and never cleared.  A row is a    *)
(* transaction of its own.  That both threads use one database handle is   *)
(* left out, and so is the run status in the answer to a query.            *)
(***************************************************************************)
EXTENDS Integers, Sequences, SequencesExt

CONSTANTS
  MaxNode,      \* MAX_NODE
  Runners,      \* the nodes that may run
  Copies,       \* rows per node and minute: 10
  NetLimit,     \* seconds of silence the host is allowed: 30
  MaxSum,       \* most nodes a request asks for: 31
  MaxRows,      \* bound on the rows of each node that may run
  MaxLosses     \* bound on the replies lost

Node == 0..MaxNode-1

ASSUME HistoryStoreAssumption ==
  /\ MaxNode \in Nat \ {0} /\ Runners \subseteq Node
  /\ Copies \in Nat \ {0} /\ NetLimit \in Nat
  /\ MaxSum \in Nat \ {0} /\ MaxRows \in [Runners -> Nat] /\ MaxLosses \in Nat

Slots == 1..MaxSum
NoRow == [of |-> -1, nr |-> 0]
X(row) == row.of + 1

VARIABLES
  running,      \* the nodes that run a step which has not ended
  net,          \* bst.net_running and netCount
  minute,       \* save_history_data_sem has been posted
  delete,       \* delete_data_sem has been posted
  saver,        \* save thread: idle, or the node and the copy it is at
  srv,          \* server thread: idle, deleting, or reading a range
  rows,         \* running_data_table_history, in the order of the ids
  buf,          \* the slots of udp_send_buff
  host,         \* what the host has received, and the numbers it has been
                \* told to have rows
  losses,       \* replies that may still be lost
  nrs,          \* history: rows written of each node
  gone          \* history: rows deleted by a stop or lost with a reply

hist == <<losses, nrs, gone>>
vars == <<running, net, minute, delete, saver, srv, rows, buf, host, hist>>

Idle == [pc |-> "idle"]
Rows == ToSet(rows)

Init ==
  /\ running = {}
  /\ net = [on |-> TRUE, count |-> 0]
  /\ minute = FALSE /\ delete = FALSE
  /\ saver = Idle /\ srv = Idle
  /\ rows = <<>>
  /\ buf = [k \in Slots |-> NoRow]
  /\ host = [got |-> {}, told |-> {}]
  /\ losses = MaxLosses /\ nrs = [n \in Node |-> 0] /\ gone = {}
-----------------------------------------------------------------------------
(* The other threads start, pause, switch and complete nodes.              *)
Change(n) ==
  /\ running' = IF n \in running THEN running \ {n} ELSE running \cup {n}
  /\ UNCHANGED <<net, minute, delete, saver, srv, rows, buf, host, hist>>

(* The host speaks: any frame shows that it is there.                      *)
Frame == srv = Idle /\ net' = [on |-> TRUE, count |-> 0]

(* A second without a frame.                                               *)
Timeout ==
  /\ srv = Idle
  /\ net' = IF net.count > NetLimit THEN [on |-> FALSE, count |-> 1]
            ELSE [net EXCEPT !.count = @ + 1]
  /\ UNCHANGED <<running, minute, delete, saver, srv, rows, buf, host, hist>>

(* A stop of one node that runs, is between two steps or is paused: the    *)
(* server deletes itself.                                                  *)
StopOne(n) ==
  /\ Frame
  /\ running' = running \ {n}
  /\ srv' = [pc |-> "delete"]
  /\ UNCHANGED <<minute, delete, saver, rows, buf, host, hist>>

(* A stop of all nodes leaves the deletion to the save thread.             *)
StopAll ==
  /\ Frame
  /\ running' = {}
  /\ delete' = TRUE
  /\ UNCHANGED <<minute, saver, srv, rows, buf, host, hist>>

(* delete_bat_runningdata, whatever the node.                              *)
DeleteRows ==
  /\ rows' = <<>>
  /\ gone' = gone \cup Rows
  /\ host' = [host EXCEPT !.told = {}]

ServerDeletes ==
  /\ srv.pc = "delete" /\ srv' = Idle
  /\ DeleteRows
  /\ UNCHANGED <<running, net, minute, delete, saver, buf, losses, nrs>>

(* Any other command may fill slots of the reply buffer with its reply.    *)
Overwritten(slots) == [k \in Slots |-> IF k \in slots THEN NoRow ELSE buf[k]]

OtherCommand ==
  /\ Frame
  /\ \E k \in {0, MaxSum} : buf' = Overwritten(1..k)
  /\ UNCHANGED <<running, minute, delete, saver, srv, rows, host, hist>>

(* Mutant: the query forgets the node.                                     *)
search_hisdata_fun_any(mun) == \E row \in Rows : X(row) # 0

search_hisdata_fun(mun) == \E row \in Rows : X(row) = mun

(* The check sum of the short answer lies over the first slot.             *)
QueryHistory(mun) ==
  /\ Frame
  /\ host' = [host EXCEPT !.told = IF search_hisdata_fun(mun) THEN @ \cup {mun}
                                   ELSE @ \ {mun}]
  /\ buf' = Overwritten({1})
  /\ UNCHANGED <<running, minute, delete, saver, srv, rows, hist>>

(* A range is refused if it reaches beyond the last node.                  *)
ReadHistory(mun, sum) ==
  /\ Frame
  /\ srv' = IF mun + sum > MaxNode THEN Idle
            ELSE [pc |-> "read", mun |-> mun, sum |-> sum, i |-> 0, cnt |-> 0]
  /\ UNCHANGED <<running, minute, delete, saver, rows, buf, host, hist>>

(* Mutant: the rows come in the opposite order.                            *)
FirstRowLast(mun) == SelectLastInSeq(rows, LAMBDA row : X(row) = mun)

FirstRow(mun) == SelectInSeq(rows, LAMBDA row : X(row) = mun)

(* One node of the range: the row goes to its slot and is deleted.  The    *)
(* slot of a node without rows stays as it is.                             *)
read_hisdata_fun ==
  /\ srv.pc = "read" /\ srv.i < srv.sum
  /\ LET mun == srv.mun + srv.i
         k   == FirstRow(mun)
     IN  /\ IF k = 0
            THEN /\ srv' = [srv EXCEPT !.i = @ + 1]
                 /\ UNCHANGED <<rows, buf>>
            ELSE /\ srv' = [srv EXCEPT !.i = @ + 1, !.cnt = @ + 1]
                 /\ buf' = [buf EXCEPT ![srv.i + 1] = rows[k]]
                 /\ rows' = RemoveAt(rows, k)
         /\ host' = [host EXCEPT !.told = @ \ {mun}]
  /\ UNCHANGED <<running, net, minute, delete, saver, hist>>

(* The rows that a reply of so many slots shows, whatever put them there.  *)
Reply(sum) ==
  {[to |-> srv.mun + k - 1, row |-> buf[k]] : k \in {k \in 1..sum : buf[k] # NoRow}}

(* Mutant: no rows are sent unless all nodes have one.                     *)
SlotsSentAll == IF srv.cnt = srv.sum THEN srv.sum ELSE 0

SlotsSent == IF srv.cnt > 0 THEN srv.sum ELSE 0

Sent ==
  /\ srv.pc = "read" /\ srv.i = srv.sum /\ srv' = Idle
  /\ buf' = Overwritten({SlotsSent + 1})
  /\ UNCHANGED <<running, net, minute, delete, saver, rows, nrs>>

Answer ==
  /\ Sent
  /\ host' = [host EXCEPT !.got = @ \cup Reply(SlotsSent)]
  /\ UNCHANGED <<losses, gone>>

LoseAnswer ==
  /\ losses > 0 /\ losses' = losses - 1
  /\ Sent
  /\ gone' = gone \cup {r.row : r \in Reply(SlotsSent)}
  /\ UNCHANGED host

Server ==
  \/ \E n \in Runners : StopOne(n)
  \/ StopAll \/ ServerDeletes \/ OtherCommand \/ Timeout
  \/ \E mun \in 0..MaxNode : QueryHistory(mun)
  \/ \E mun \in 0..MaxNode, sum \in Slots : ReadHistory(mun, sum)
  \/ read_hisdata_fun \/ Answer \/ LoseAnswer
-----------------------------------------------------------------------------
(* The alarm, once a minute.                                               *)
Alarm ==
  /\ minute' = TRUE
  /\ UNCHANGED <<running, net, delete, saver, srv, rows, buf, host, hist>>

At(n) == IF n < MaxNode THEN [pc |-> "node", n |-> n, i |-> 0] ELSE Idle

(* Mutant: net_status is compared with the other value.                    *)
BeginHistoryOnline ==
  /\ saver = Idle /\ minute
  /\ minute' = FALSE
  /\ saver' = IF net.on THEN At(0) ELSE Idle
  /\ UNCHANGED <<running, net, delete, srv, rows, buf, host, hist>>

(* The save thread tests whether the host is there once, for all nodes.    *)
BeginHistory ==
  /\ saver = Idle /\ minute
  /\ minute' = FALSE
  /\ saver' = IF net.on THEN Idle ELSE At(0)
  /\ UNCHANGED <<running, net, delete, srv, rows, buf, host, hist>>

(* A node is recorded if it runs when its turn comes.                      *)
TestNode ==
  /\ saver.pc = "node"
  /\ saver' = IF saver.n \in running /\ nrs[saver.n] + Copies <= MaxRows[saver.n]
              THEN [saver EXCEPT !.pc = "row"] ELSE At(saver.n + 1)
  /\ UNCHANGED <<running, net, minute, delete, srv, rows, buf, host, hist>>

InsertRow ==
  /\ saver.pc = "row"
  /\ rows' = Append(rows, [of |-> saver.n, nr |-> nrs[saver.n] + 1])
  /\ nrs' = [nrs EXCEPT ![saver.n] = @ + 1]
  /\ saver' = IF saver.i + 1 < Copies THEN [saver EXCEPT !.i = @ + 1]
              ELSE At(saver.n + 1)
  /\ UNCHANGED <<running, net, minute, delete, srv, buf, host, losses, gone>>

DeleteDue ==
  /\ saver = Idle /\ delete
  /\ delete' = FALSE
  /\ DeleteRows
  /\ UNCHANGED <<running, net, minute, saver, srv, buf, losses, nrs>>

SaveThread == BeginHistory \/ TestNode \/ InsertRow \/ DeleteDue

Next ==
  \/ Server \/ SaveThread \/ Alarm
  \/ \E n \in Runners : Change(n)

(* Time goes on and the threads run.                                       *)
Fairness == WF_vars(Timeout) /\ WF_vars(Alarm) /\ WF_vars(SaveThread)
            /\ WF_vars(ServerDeletes) /\ WF_vars(read_hisdata_fun) /\ WF_vars(Answer)

Spec == Init /\ [][Next]_vars /\ Fairness
-----------------------------------------------------------------------------
(* Every variable has its type.                                            *)
Row == [of: Runners, nr: Nat \ {0}]

TypeOK ==
  /\ running \subseteq Runners
  /\ net \in [on: BOOLEAN, count: 0..NetLimit+1]
  /\ minute \in BOOLEAN /\ delete \in BOOLEAN
  /\ saver \in {Idle} \cup [pc: {"node", "row"}, n: Node, i: 0..Copies-1]
  /\ srv \in {Idle, [pc |-> "delete"]}
       \cup [pc: {"read"}, mun: 0..MaxNode, sum: Slots, i: 0..MaxSum, cnt: 0..MaxSum]
  /\ rows \in Seq(Row)
  /\ buf \in [Slots -> Row \cup {NoRow}]
  /\ host \in [got: SUBSET [to: 0..MaxNode, row: Row], told: SUBSET (0..MaxNode)]
  /\ losses \in 0..MaxLosses /\ nrs \in [Node -> Nat] /\ gone \subseteq Row

(* The rows the host has received under the number they are stored under.  *)
Received == {row \in {r.row : r \in host.got} : [to |-> X(row), row |-> row] \in host.got}

InHand ==
  IF srv.pc = "read" THEN {buf[k] : k \in 1..srv.i} ELSE {}

Accounted == Received \cup gone

(* No row is lost on its way: from the moment it is written it is in the   *)
(* database, in the reply the server is filling, with the host, or it went *)
(* by a stop or with a reply that was lost.                                *)
NothingLost ==
  \A n \in Node : \A k \in 1..nrs[n] :
    [of |-> n, nr |-> k] \in Rows \cup InHand \cup Accounted

(* The host receives the history of a node from its beginning, without     *)
(* gaps, while new rows are written behind it.                             *)
OldestFirst ==
  \A row \in Received : \A k \in 1..row.nr-1 : [row EXCEPT !.nr = k] \in Accounted

(* A host that has been told that a number has rows finds one there, until *)
(* it reads it or a stop deletes it.                                       *)
StatusTrue == \A mun \in host.told : search_hisdata_fun(mun)

(* A node that runs on while the host is silent for good is recorded every *)
(* minute (net_off_save_data, "save the history while the network is       *)
(* down", sqlite_opera.c:1537).                                            *)
SilenceIsRecorded ==
  \A n \in Runners :
    <>[](n \in running) /\ <>[](net.count # 0)
      => <>[](nrs[n] + Copies > MaxRows[n])

(* A row that the host has read it receives once (read_hisdata_fun, "a row *)
(* that is read is deleted", sqlite_opera.c:1869).                         *)
UploadedOnce ==
  [][Answer => \A r \in Reply(SlotsSent) : r \notin host.got]_vars

(* What the host receives for a node is that node's history ("reads the    *)
(* history of a single point", sqlite_opera.c:1828).                       *)
OwnHistory == \A r \in host.got : r.row.of = r.to

(* The stop of a node deletes that node's rows only ("deletes the running  *)
(* data and the running status of the node", sqlite_opera.c:1425).         *)
StopKeepsOthers ==
  [][\A n \in Runners : srv.pc = "delete" /\ n \in running /\ ~delete
       => \A row \in Rows : row.of = n => row \in ToSet(rows')]_vars

(* A row that was recorded is with the host at last, if it goes on asking. *)
LossLosesNothing == losses < MaxLosses => gone = {}
=============================================================================
