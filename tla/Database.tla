------------------------------ MODULE Database ------------------------------
(***************************************************************************)
(* The database file of the program and the one global handle `db' that    *)
(* the server, LCD, save and control threads open, use and close, each in  *)
(* its own time (sqlite_opera.c), and the settings kept in the file:       *)
(* tables made at power-up, the row of the system settings loaded or       *)
(* inserted (main.c).                                                      *)
(*                                                                         *)
(* An item is what one statement stores: the network columns or the limit  *)
(* columns of the settings row, or what belongs to one node: the steps of  *)
(* its program (taken as one, see RunRecords), its configuration with its  *)
(* capacity, the row of its run.  Its value is a number: the port, for the *)
(* network settings, and the command that set it, for the rest.            *)
(*                                                                         *)
(* SQLite is external: one file, a rollback journal, one writer at a time. *)
(* A handle that is opened over another is lost to the program, and a lost *)
(* handle with a transaction that has read or written keeps its lock, so   *)
(* that nothing more can be written.                                       *)
(***************************************************************************)
EXTENDS Integers, Sequences, FiniteSets

CONSTANTS
  MAX_NODE,    \* nodes, numbered from 0
  MaxValue     \* bound: the largest port or command number

ASSUME DatabaseAssumption == MAX_NODE \in Nat \ {0} /\ MaxValue \in Nat

Node == 0..MAX_NODE-1

Net == <<"net", 0>>
Limits == <<"limits", 0>>
Settings == {Net, Limits}
NodeKinds == {"program", "config", "run"}
Item == Settings \cup (NodeKinds \X Node)

Default == 0      \* sys_cfg_default, and what a node begins with
Absent  == -1     \* there is no row
Blank   == -2     \* static memory that nothing has been assigned to
Stored  == Absent..MaxValue
Held    == {Blank} \cup 0..MaxValue

VARIABLES
  mem,                 \* sys_cfg and bst.node[n]: the items in memory
  disk,                \* the items in the file
  tables,              \* whether the file has its tables
  db,                  \* the handle: whether it is open, its transaction,
                       \* the file as it sees it
  locked,              \* a lost handle has locked the file
  create_table_flag    \* creating a table has failed at this power-up

file == <<disk, tables, db, locked>>

Shut(content) == [open |-> FALSE, tx |-> "none", seen |-> content]
-----------------------------------------------------------------------------
(* The steps of the threads on the handle; each says what becomes of db,   *)
(* disk and locked.                                                        *)

open_sqlite_db(ok) ==
  /\ db' = [open |-> ok, tx |-> "none", seen |-> disk]
  /\ locked' = (locked \/ (db.open /\ db.tx = "used"))
  /\ UNCHANGED disk

(* A transaction that is not committed goes with its handle.               *)
close_sqlite_db == db' = Shut(disk) /\ UNCHANGED <<disk, locked>>

start_commit ==
  /\ db' = IF db.open /\ db.tx = "none" THEN [db EXCEPT !.tx = "begun"] ELSE db
  /\ UNCHANGED <<disk, locked>>

stop_commit ==
  /\ db' = IF db.open THEN [db EXCEPT !.tx = "none"] ELSE db
  /\ disk' = IF db.open THEN db.seen ELSE disk
  /\ UNCHANGED locked

(* A statement that changes an item.  The row of the settings is updated   *)
(* only where it exists; the items of the nodes are not written at all     *)
(* when a table could not be made.                                         *)
Writes(i) ==
  /\ db.open /\ tables /\ ~locked
  /\ IF i \in Settings THEN db.seen[i] # Absent ELSE ~create_table_flag

Change(i, v) ==
  IF Writes(i)
  THEN /\ db' = [db EXCEPT !.seen[i] = v,
                           !.tx = IF @ = "none" THEN @ ELSE "used"]
       /\ disk' = IF db.tx = "none" THEN [disk EXCEPT ![i] = v] ELSE disk
       /\ UNCHANGED locked
  ELSE UNCHANGED <<db, disk, locked>>

update_net_config_values == Change(Net, mem[Net])

update_sys_config_values == Change(Limits, mem[Limits])

delete_bat_runningdata(n) == Change(<<"run", n>>, Absent)
save_item(i) == Change(i, mem[i])

(* Rows of the offline history, whose contents are in HistoryStore.        *)
insert_history ==
  /\ db' = IF db.open /\ tables /\ ~locked /\ db.tx # "none"
           THEN [db EXCEPT !.tx = "used"] ELSE db
  /\ UNCHANGED <<disk, locked>>
-----------------------------------------------------------------------------
(* Power-up.  What may go wrong on the way: the file cannot be opened to   *)
(* make the tables ("create") or to load the settings ("load"); a table    *)
(* cannot be made, the first ones, which is given up ("system"), one of    *)
(* the steps and the data, which is noted ("steps"), or the last one,      *)
(* which is returned from with the transaction open ("config").            *)
StartFaults == {"create", "load", "system", "steps", "config"}

NoRows == [i \in Item |-> Absent]

Made(f) == f \cap {"create", "system", "config"} = {}

creat_data_db_and_table(f) ==
  /\ tables' = (tables \/ Made(f))
  /\ locked' = ("config" \in f /\ f \cap {"create", "system"} = {})
  /\ create_table_flag' = /\ "create" \notin f
                          /\ f \cap {"system", "steps"} # {}

(* What init_sysconfig_opera returns: 1 with the row loaded, 0 without a   *)
(* row, -1 without a database.                                             *)
(* Mutant: one failure is enough to give up.                               *)
init_sysconfig_opera_strict(f) ==
  IF create_table_flag' \/ "load" \in f THEN -1
  ELSE IF tables' /\ disk[Net] # Absent THEN 1 ELSE 0

init_sysconfig_opera(f) ==
  IF create_table_flag' /\ "load" \in f THEN -1
  ELSE IF "load" \notin f /\ tables' /\ disk[Net] # Absent THEN 1
  ELSE 0

(* The row of the defaults goes into a table that has none.                *)
set_sys_config_values ==
  IF tables' /\ ~locked' /\ disk[Net] = Absent
  THEN [i \in Item |-> IF i \in Settings THEN Default ELSE disk[i]]
  ELSE disk

(* sys_cfg after the three outcomes, and the nodes as recovered.           *)
LoadedSettings(found) ==
  [i \in Settings |-> CASE found = 1 -> disk[i]
                        [] found = 0 -> Default
                        [] OTHER -> Blank]

(* Mutant: a node without a row takes what there is.                       *)
RecoveredRaw(i) == disk[i]

Recovered(i) ==
  IF disk[i] = Absent \/ (create_table_flag' /\ i[1] # "config")
  THEN Default ELSE disk[i]

(* main, up to the start of the threads.                                   *)
PowerUp(f) ==
  LET found == init_sysconfig_opera(f) IN
  /\ creat_data_db_and_table(f)
  /\ disk' = IF found = 0 THEN set_sys_config_values ELSE disk
  /\ mem' = [i \in Item |-> IF i \in Settings THEN LoadedSettings(found)[i]
                            ELSE Recovered(i)]
  /\ db' = Shut(disk')

DatabaseType ==
  /\ mem \in [Item -> Held]
  /\ disk \in [Item -> Stored]
  /\ db \in [open: BOOLEAN, tx: {"none", "begun", "used"}, seen: [Item -> Stored]]
  /\ {tables, locked, create_table_flag} \subseteq BOOLEAN
=============================================================================
