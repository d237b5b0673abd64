-------------------------- MODULE HostServerProofs --------------------------
(***************************************************************************)
(* What HostServer promises, for any number of nodes, steps and commands   *)
(* and for any set of scenes: the types, that the port the operator        *)
(* confirmed is heard, that what was answered is in the file, and that the *)
(* settings in memory are those of the file.                               *)
(*                                                                         *)
(* work[t] is a sequence of steps, and the properties are about where the  *)
(* threads are in theirs.  So the invariants speak of what is still ahead: *)
(* Shape is what every function of a thread has, whole or in part; it is   *)
(* shown of each handler and of each function of the other threads, and    *)
(* kept by their rest.  The threads share one handle, so what one of them  *)
(* finds in the file rests on HandleOK: as long as nothing has failed and  *)
(* no two have met in the database, at most one is between its open and    *)
(* its close, the handle is open then, and a transaction is open only for  *)
(* the thread that will commit it.  Under that order KeptOK follows an     *)
(* answer from the frame (Ready: it is set, written, then sent) to the     *)
(* file, and RowOK the settings between memory and file.                   *)
(***************************************************************************)
EXTENDS HostServer, SequenceTheorems, FiniteSetTheorems, TLAPS

(* Steps of the database and of the socket.                                *)
Opening == {"open", "try"}
Uses == {"begin", "commit", "write", "delete", "history", "close"}
SocketOps == {"socket", "setsockopt", "bind"}

(* What a command can be answered for, and all that steps are about.       *)
Answerable == {Limits} \cup ({"program", "config"} \X Node)
Things == Item \cup ({"node"} \X Node) \cup {<<"steps", 0>>, <<"delete", 0>>}

GoodStep ==
  { s \in [op: Ops, on: SUBSET Things] :
      /\ s.op = "set"    => s.on \subseteq Item \ {Net}
      /\ s.op = "write"  => \E i \in Item : s.on = {i}
      /\ s.op = "delete" => \E n \in Node : s.on = {<<"run", n>>}
      /\ s.op = "reply"  => s.on \subseteq Answerable
      /\ s.op = "post"   => s.on \subseteq {<<"steps", 0>>, <<"delete", 0>>} }
-----------------------------------------------------------------------------
(* The shape of what a thread has still to do.                             *)

(* Each use of the database is closed, with no open in between.            *)
Closed(w) ==
  \A k \in 1..Len(w) : w[k].op \in Uses =>
    \E c \in k..Len(w) : /\ w[c].op = "close"
                         /\ \A j \in k..c : w[j].op \notin Opening

(* Between two closes there is an open.                                    *)
Reopened(w) ==
  \A j, k \in 1..Len(w) : j < k /\ w[j].op = "close" /\ w[k].op = "close" =>
    \E l \in j..k : w[l].op \in Opening

(* A commit is ahead, in the same visit.                                   *)
InTx(w) ==
  \E c \in 1..Len(w) : /\ w[c].op = "commit"
                       /\ \A j \in 1..c : w[j].op \notin Opening \cup {"begin", "close"}

(* What is begun is committed.                                             *)
Ended(w) ==
  \A k \in 1..Len(w) : w[k].op = "begin" =>
    \E c \in k+1..Len(w) :
       /\ w[c].op = "commit"
       /\ \A j \in k+1..c : w[j].op \notin Opening \cup {"begin", "close"}

(* Settings, and what will be answered, are stored statement by statement. *)
Plain(w) ==
  \A k \in 1..Len(w) :
    \/ w[k].op = "write" /\ w[k].on \cap Settings # {}
    \/ w[k].op = "reply" /\ w[k].on # {}
    => \A j \in 1..Len(w) : w[j].op # "commit"

(* Limits that are set are stored.                                         *)
StoredAfter(w) ==
  \A k \in 1..Len(w) : w[k].op = "set" /\ Limits \in w[k].on =>
    \E l \in k..Len(w) : w[l].op = "write" /\ Limits \in w[l].on

(* What only some threads do: the socket and its settings are the LCD      *)
(* thread's, memory, replies, semaphores and the limits are the server's.  *)
Part(t, w) ==
  \A k \in 1..Len(w) :
    /\ t = "server" => w[k].op \notin SocketOps
    /\ t # "server" => /\ w[k].op \in Opening \cup Uses
                                       \cup (IF t = "lcd" THEN SocketOps ELSE {})
                       /\ w[k].op = "write" => Limits \notin w[k].on
    /\ t # "lcd" /\ w[k].op = "write" => Net \notin w[k].on

(* Confirming the network settings ends with a bound socket.               *)
EndsBound(t, w) ==
  t = "lcd" /\ w # <<>> => w[Len(w)].op = "bind"

Shape(t, w) ==
  /\ Closed(w) /\ Reopened(w) /\ Ended(w) /\ Plain(w) /\ StoredAfter(w)
  /\ Part(t, w) /\ EndsBound(t, w)

WorkOK ==
  /\ work \in [Thread -> Seq(GoodStep)]
  /\ \A t \in Thread : Shape(t, work[t])
  /\ ~alive => work = Idle
  /\ waits.on # "none" => work["server"] = <<>>

Left == [scene: Scenes, confirms: Int, restarts: Int, faults: Int, opens: Int]

Well == left \in Left /\ WorkOK
-----------------------------------------------------------------------------
(* The values of the variables.                                            *)

(* The two parts of the settings row are there together.                   *)
SameRow(c) == (c[Net] = Absent) = (c[Limits] = Absent)

(* The limits are in memory when they are stored, and stored before any    *)
(* close that a failed open could skip to.                                 *)
LimitsReady(m, w) ==
  \A k \in 1..Len(w) : w[k].op = "write" /\ Limits \in w[k].on =>
    /\ m[Limits] # Blank \/ \E l \in 1..k-1 : w[l].op = "set" /\ Limits \in w[l].on
    /\ \A l \in 1..k-1 : w[l].op # "close"

Handle == [open: BOOLEAN, tx: {"none", "begun", "used"}, seen: [Item -> Stored]]

(* A handle that has changed nothing in a transaction sees the file.       *)
StoreOK ==
  /\ disk \in [Item -> Stored] /\ db \in Handle
  /\ tables \in BOOLEAN /\ locked \in BOOLEAN /\ create_table_flag \in BOOLEAN
  /\ SameRow(disk) /\ SameRow(db.seen)
  /\ db.tx # "used" => db.seen = disk

(* Only the settings may be blank, and no blank is ever stored.            *)
MemoryOK ==
  /\ mem \in [Item -> Held]
  /\ \A i \in Item \ Settings : mem[i] # Blank
  /\ work["lcd"] # <<>> => mem[Net] # Blank
  /\ LimitsReady(mem, work["server"])

SocketOK ==
  /\ status \in [Node -> {"rest", "running", "paused", "off"}]
  /\ net_status \in {"online", "left"} /\ netCount \in 0..QUIET+1
  /\ due \subseteq {"steps", "delete"}
  /\ sock \in [port: Stored, timed: BOOLEAN]
  /\ taken \subseteq 0..MaxValue
  /\ waits \in [on: {"none", "now", "old"}, port: Stored, timed: BOOLEAN]
  /\ alive \in BOOLEAN
  /\ ~alive => taken = {} /\ due = {} /\ waits = NotWaiting

AnswerOK ==
  /\ stamp \in 0..MaxValue
  /\ answered \in [Item -> 0..MaxValue]
  /\ \A i \in Item : answered[i] <= stamp
  /\ crossed \in BOOLEAN
  /\ failed \subseteq StartFaults \cup {"open"}

ValuesOK == StoreOK /\ MemoryOK /\ SocketOK /\ AnswerOK
Good == Well /\ ValuesOK
-----------------------------------------------------------------------------
(* The order of the threads in the database.                               *)

Calm == ~crossed /\ failed = {}

(* A close is ahead and no open before it.                                 *)
Inside(w) ==
  \E c \in 1..Len(w) : w[c].op = "close" /\ \A j \in 1..c : w[j].op \notin Opening

Settled ==
  /\ ~locked /\ tables /\ ~create_table_flag
  /\ disk[Net] # Absent
  /\ \A i \in Settings : db.seen[i] = disk[i]

Orderly ==
  /\ \A t, u \in Thread : Inside(work[t]) /\ Inside(work[u]) => t = u
  /\ \A t \in Thread : Inside(work[t]) => db.open
  /\ db.open /\ db.tx # "none" =>
       \E t \in Thread : Inside(work[t]) /\ InTx(work[t])

HandleOK == alive /\ Calm => Settled /\ Orderly
-----------------------------------------------------------------------------
(* Answers and settings.                                                   *)

(* What the command in hand has put into memory, and into the file.        *)
Current == {i \in Item \ {Net} : mem[i] = stamp}
Filed == {i \in Answerable \cap Current : disk[i] >= stamp /\ db.seen[i] >= stamp}

(* What is about to be answered is filed, or will be written before, and   *)
(* is in memory, or will be set before that.                               *)
Ready(w, current, filed) ==
  \A k \in 1..Len(w) : w[k].op = "reply" =>
    \A i \in w[k].on :
       \/ i \in filed
       \/ \E j \in 1..k-1 :
            /\ w[j].op = "write" /\ i \in w[j].on
            /\ i \in current \/ \E l \in 1..j-1 : w[l].op = "set" /\ i \in w[l].on

Backed(i) ==
  answered[i] > 0 =>
    /\ i \in Answerable
    /\ mem[i] >= answered[i] /\ disk[i] >= answered[i] /\ db.seen[i] >= answered[i]

KeptOK == Calm => Ready(work["server"], Current, Filed) /\ \A i \in Item : Backed(i)

FilledOK ==
  alive => \/ \A i \in Settings : mem[i] # Blank
           \/ "load" \in failed /\ failed \cap {"system", "steps"} # {}

RowOK ==
  alive /\ Calm => \A i \in Settings : Writing(i) \/ mem[i] = disk[i]
-----------------------------------------------------------------------------
(* v is the end of w.                                                      *)
Suffix(v, w) ==
  \E d \in Nat : /\ Len(w) = Len(v) + d
               /\ \A k \in 1..Len(v) : v[k] = w[k + d]

(* The rest of what a thread has to do.                                    *)
LEMMA TailSuffix ==
  ASSUME NEW S, NEW w \in Seq(S), w # <<>>
  PROVE  /\ Tail(w) \in Seq(S)
         /\ Len(Tail(w)) = Len(w) - 1 /\ Len(w) \in Nat \ {0}
         /\ \A k \in 1..Len(Tail(w)) : Tail(w)[k] = w[k + 1]
         /\ Head(w) = w[1]
         /\ Suffix(Tail(w), w)
  <1>1. /\ Tail(w) \in Seq(S) /\ Len(Tail(w)) = Len(w) - 1
        /\ \A k \in 1..Len(Tail(w)) : Tail(w)[k] = w[k + 1]
    BY HeadTailProperties
  <1>2. Len(w) \in Nat \ {0}
    BY EmptySeq
  <1>3. Head(w) = w[1]
    OBVIOUS
  <1>4. Len(w) = Len(Tail(w)) + 1
    <2>. PICK n \in Nat : n = Len(w)
      BY <1>2
    <2>. QED BY <1>1, <1>2
  <1>5. Suffix(Tail(w), w)
    BY <1>1, <1>4 DEF Suffix
  <1>. QED BY <1>1, <1>2, <1>3, <1>5

(* v is what is left of w behind a close, or all of it.                    *)
CutBehind(v, w) ==
  \E d \in 0..Len(w) : /\ Len(w) = Len(v) + d
                       /\ \A k \in 1..Len(v) : v[k] = w[k + d]
                       /\ d # 0 => w[d].op = "close"

(* What is left when a thread gives up behind the close.                   *)
LEMMA AfterCloseSuffix ==
  ASSUME NEW S, NEW w \in Seq(S), w # <<>>
  PROVE  /\ AfterClose(w) \in Seq(S)
         /\ Suffix(AfterClose(w), w)
         /\ AfterClose(w) = <<>> => w[Len(w)].op = "close"
         /\ CutBehind(AfterClose(w), w)
  <1>. DEFINE I == {k \in 1..Len(w) : w[k].op = "close"}
              d == IF I # {} THEN Min(I) ELSE 0
  <1>1. PICK n \in Nat : n = Len(w) /\ n # 0
    BY EmptySeq
  <1>2. d \in 0..n /\ (d # 0 => d \in I)
    <2>1. CASE I # {}
      <3>1. I \subseteq Nat
        BY <1>1
      <3>2. \E x \in I : \A y \in I : x <= y
        <4>1. PICK k \in I : TRUE
          BY <2>1
        <4>. HIDE DEF I
        <4>2. PICK x \in I : \A y \in I : <<y, x>> \notin OpToRel(<, Nat)
          BY <3>1, <4>1, WFMin, NatLessThanWellFounded
        <4>3. \A y \in I : ~(y < x)
          BY <3>1, <4>2 DEF OpToRel
        <4>. QED BY <3>1, <4>3
      <3>3. Min(I) \in I
        BY <3>2 DEF Min
      <3>. QED BY <1>1, <2>1, <3>3
    <2>. QED BY <2>1, <1>1
  <1>3. AfterClose(w) = SubSeq(w, 1 + d, n)
    BY <1>1 DEF AfterClose, SelectInSeq
  <1>. DEFINE v == SubSeq(w, 1 + d, n)
  <1>4. \A i \in 1+d..n : w[i] \in S
    BY <1>1, <1>2, ElementOfSeq
  <1>. HIDE DEF d
  <1>5. PICK e \in Nat : e = d
    BY <1>1, <1>2
  <1>. HIDE DEF I
  <1>6. /\ v \in Seq(S) /\ Len(v) = IF 1 + e <= n THEN n - (1 + e) + 1 ELSE 0
        /\ \A i \in 1..n-(1 + e)+1 : v[i] = w[1 + e + i - 1]
    BY <1>4, <1>5, SubSeqProperties
  <1>7. Len(v) = n - e
    BY <1>6, <1>2, <1>5
  <1>8. \A i \in 1..Len(v) : v[i] = w[i + e]
    <2>. TAKE i \in 1..Len(v)
    <2>1. i \in 1..n-e /\ 1 + e + i - 1 = i + e /\ n - (1 + e) + 1 = n - e
      <3>. HIDE DEF v
      <3>. QED BY <1>7
    <2>. QED BY <2>1, <1>6
  <1>9. Suffix(v, w)
    <2>. HIDE DEF v
    <2>1. Len(w) = Len(v) + e
      BY <1>7, <1>1, <1>2, <1>5
    <2>. QED BY <2>1, <1>8 DEF Suffix
  <1>10. v = <<>> => w[Len(w)].op = "close"
    <2>. HAVE v = <<>>
    <2>1. Len(v) = 0
      BY EmptySeq
    <2>2. e = n
      <3>. HIDE DEF v
      <3>. QED BY <2>1, <1>7
    <2>. QED BY <2>2, <1>1, <1>2, <1>5 DEF I
  <1>11. CutBehind(v, w)
    <2>1. e # 0 => w[e].op = "close"
      BY <1>2, <1>5 DEF I
    <2>. HIDE DEF v
    <2>2. Len(w) = Len(v) + e /\ e \in 0..Len(w)
      BY <1>7, <1>1, <1>2, <1>5
    <2>. QED BY <2>1, <2>2, <1>8 DEF CutBehind
  <1>. QED BY <1>3, <1>6, <1>9, <1>10, <1>11

(* The shape of what a thread has to do is kept by its rest.               *)
LastPart(v, w, d, m, n) ==
  /\ m = Len(v) /\ n = Len(w) /\ n = m + d
  /\ \A k \in 1..m : v[k] = w[k + d]
  /\ \A k \in 1..m : k + d \in 1..n
  /\ \A c \in 1..n : c > d => c - d \in 1..m /\ v[c - d] = w[c]

(* A suffix with its lengths as numbers of their own.                      *)
LEMMA SuffixIndex ==
  ASSUME NEW v, NEW w, Len(v) \in Nat, Suffix(v, w)
  PROVE  \E d, m, n \in Nat : LastPart(v, w, d, m, n)
  <1>1. PICK d \in Nat : Len(w) = Len(v) + d /\ \A k \in 1..Len(v) : v[k] = w[k + d]
    BY DEF Suffix
  <1>2. PICK m \in Nat : m = Len(v)
    OBVIOUS
  <1>3. PICK n \in Nat : n = m + d
    OBVIOUS
  <1>4. n = Len(w)
    BY <1>1, <1>2, <1>3
  <1>5. \A k \in 1..m : v[k] = w[k + d] /\ k + d \in 1..n
    BY <1>1, <1>2, <1>3
  <1>6. ASSUME NEW c \in 1..n, c > d
        PROVE  c - d \in 1..m /\ v[c - d] = w[c]
    <2>1. c - d \in 1..m /\ (c - d) + d = c
      BY <1>3, <1>6
    <2>. QED BY <2>1, <1>5
  <1>. QED BY <1>2, <1>3, <1>4, <1>5, <1>6 DEF LastPart

(* Each part of the shape is kept by a suffix that lost its beginning.     *)
(* First: every use is followed by its close.                              *)
LEMMA ClosedLater ==
  ASSUME NEW v, NEW w, Len(v) \in Nat, Suffix(v, w), Closed(w)
  PROVE  Closed(v)
  <1>1. PICK d, m, n \in Nat : LastPart(v, w, d, m, n)
    BY SuffixIndex
  <1>. USE DEF LastPart
  <1>2. ASSUME NEW k \in 1..m, v[k].op \in Uses
        PROVE  \E c \in k..m : /\ v[c].op = "close"
                               /\ \A j \in k..c : v[j].op \notin Opening
    <2>1. PICK c \in k+d..n : /\ w[c].op = "close"
                              /\ \A j \in k+d..c : w[j].op \notin Opening
      BY <1>1, <1>2 DEF Closed
    <2>2. c \in 1..n /\ c > d /\ c - d \in k..m
      BY <1>1
    <2>3. v[c - d].op = "close"
      BY <1>1, <2>1, <2>2
    <2>4. ASSUME NEW j \in k..c-d PROVE v[j].op \notin Opening
      <3>1. j \in 1..m /\ j + d \in k+d..c
        BY <2>2
      <3>. QED BY <1>1, <2>1, <3>1
    <2>. QED BY <2>2, <2>3, <2>4
  <1>. QED BY <1>1, <1>2 DEF Closed

(* Between two closes there is an open.                                    *)
LEMMA ReopenedLater ==
  ASSUME NEW v, NEW w, Len(v) \in Nat, Suffix(v, w), Reopened(w)
  PROVE  Reopened(v)
  <1>1. PICK d, m, n \in Nat : LastPart(v, w, d, m, n)
    BY SuffixIndex
  <1>. USE DEF LastPart
  <1>2. ASSUME NEW j \in 1..m, NEW k \in 1..m, j < k, v[j].op = "close", v[k].op = "close"
        PROVE  \E l \in j..k : v[l].op \in Opening
    <2>1. PICK l \in j+d..k+d : w[l].op \in Opening
      <3>1. j + d \in 1..n /\ k + d \in 1..n /\ j + d < k + d
        BY <1>1, <1>2
      <3>2. w[j + d].op = "close" /\ w[k + d].op = "close"
        BY <1>1, <1>2
      <3>. QED BY <1>1, <3>1, <3>2 DEF Reopened
    <2>2. l \in 1..n /\ l > d /\ l - d \in j..k
      BY <1>1
    <2>. QED BY <1>1, <2>1, <2>2
  <1>. QED BY <1>1, <1>2 DEF Reopened

(* A transaction that is begun is committed.                               *)
LEMMA EndedLater ==
  ASSUME NEW v, NEW w, Len(v) \in Nat, Suffix(v, w), Ended(w)
  PROVE  Ended(v)
  <1>1. PICK d, m, n \in Nat : LastPart(v, w, d, m, n)
    BY SuffixIndex
  <1>. USE DEF LastPart
  <1>2. ASSUME NEW k \in 1..m, v[k].op = "begin"
        PROVE  \E c \in k+1..m :
                 /\ v[c].op = "commit"
                 /\ \A j \in k+1..c : v[j].op \notin Opening \cup {"begin", "close"}
    <2>1. PICK c \in k+d+1..n :
            /\ w[c].op = "commit"
            /\ \A j \in k+d+1..c : w[j].op \notin Opening \cup {"begin", "close"}
      <3>1. k + d \in 1..n /\ w[k + d].op = "begin"
        BY <1>1, <1>2
      <3>. QED BY <1>1, <3>1 DEF Ended
    <2>2. c \in 1..n /\ c > d /\ c - d \in k+1..m
      BY <1>1
    <2>3. v[c - d].op = "commit"
      BY <1>1, <2>1, <2>2
    <2>4. ASSUME NEW j \in k+1..c-d
          PROVE  v[j].op \notin Opening \cup {"begin", "close"}
      <3>1. j \in 1..m /\ j + d \in k+d+1..c
        BY <2>2
      <3>. QED BY <1>1, <2>1, <3>1
    <2>. QED BY <2>2, <2>3, <2>4
  <1>. QED BY <1>1, <1>2 DEF Ended

(* Settings and what is answered are written outside of transactions.      *)
LEMMA PlainLater ==
  ASSUME NEW v, NEW w, Len(v) \in Nat, Suffix(v, w), Plain(w)
  PROVE  Plain(v)
  <1>1. PICK d, m, n \in Nat : LastPart(v, w, d, m, n)
    BY SuffixIndex
  <1>. USE DEF LastPart
  <1>. QED BY <1>1, SMTT(40) DEF Plain

(* Limits that are set are written afterwards.                             *)
LEMMA StoredAfterLater ==
  ASSUME NEW v, NEW w, Len(v) \in Nat, Suffix(v, w), StoredAfter(w)
  PROVE  StoredAfter(v)
  <1>1. PICK d, m, n \in Nat : LastPart(v, w, d, m, n)
    BY SuffixIndex
  <1>. USE DEF LastPart
  <1>2. ASSUME NEW k \in 1..m, v[k].op = "set", Limits \in v[k].on
        PROVE  \E l \in k..m : v[l].op = "write" /\ Limits \in v[l].on
    <2>1. PICK l \in k+d..n : w[l].op = "write" /\ Limits \in w[l].on
      BY <1>1, <1>2 DEF StoredAfter
    <2>2. l \in 1..n /\ l > d /\ l - d \in k..m
      BY <1>1
    <2>. QED BY <1>1, <2>1, <2>2
  <1>. QED BY <1>1, <1>2 DEF StoredAfter

(* So the whole shape is kept by what is left of a function.               *)
LEMMA ShapeLater ==
  ASSUME NEW t, NEW S, NEW v \in Seq(S), NEW w, Suffix(v, w), Shape(t, w)
  PROVE  Shape(t, v)
  <1>0. Len(v) \in Nat
    BY LenProperties
  <1>1. PICK d, m, n \in Nat : LastPart(v, w, d, m, n)
    BY <1>0, SuffixIndex
  <1>. USE DEF LastPart
  <1>2. Part(t, v)
    BY <1>1 DEF Part, Shape
  <1>3. EndsBound(t, v)
    <2>. SUFFICES ASSUME t = "lcd", v # <<>>
                  PROVE  v[Len(v)].op = "bind"
      BY DEF EndsBound
    <2>1. m # 0
      BY <1>1, EmptySeq
    <2>2. m \in 1..m /\ m + d = n /\ n # 0
      BY <1>1, <2>1
    <2>3. v[m] = w[n]
      BY <1>1, <2>2
    <2>4. w # <<>>
      <3>1. Len(<<>>) = 0
        BY EmptySeq
      <3>. QED BY <1>1, <2>2, <3>1
    <2>. QED BY <2>3, <2>4, <1>1 DEF EndsBound, Shape
  <1>. QED
    BY <1>0, <1>2, <1>3, ClosedLater, ReopenedLater, EndedLater, PlainLater, StoredAfterLater
       DEF Shape

(* A function that goes to the database once, opens it at o and closes it  *)
(* at c.                                                                   *)
VisitAt(w, o, c) ==
  /\ o < c /\ w[o].op \in Opening /\ w[c].op = "close"
  /\ \A k \in 1..Len(w) :
       /\ k # o => w[k].op \notin Opening
       /\ k # c => w[k].op # "close"
       /\ w[k].op \in Uses => o < k /\ k <= c
       /\ w[k].op = "begin" => k = o + 1 /\ k + 1 < c /\ w[c - 1].op = "commit"

OneVisit(w) == \E o, c \in 1..Len(w) : VisitAt(w, o, c)

Bracketed(w) == Closed(w) /\ Reopened(w) /\ Ended(w) /\ ~Inside(w)

(* One visit to the database is opened, closed and committed as it should  *)
(* be.                                                                     *)
LEMMA OneVisitBracketed ==
  ASSUME NEW w, Len(w) \in Nat, OneVisit(w)
  PROVE  Bracketed(w)
  <1>0. PICK n \in Nat : n = Len(w)
    OBVIOUS
  <1>1. PICK o \in 1..n, c \in 1..n : VisitAt(w, o, c)
    BY <1>0 DEF OneVisit
  <1>2. /\ o < c /\ w[o].op \in Opening /\ w[c].op = "close"
        /\ \A k \in 1..n : /\ k # o => w[k].op \notin Opening
                           /\ k # c => w[k].op # "close"
                           /\ w[k].op \in Uses => o < k /\ k <= c
                           /\ w[k].op = "begin" => k = o + 1 /\ k + 1 < c /\ w[c - 1].op = "commit"
    BY <1>0, <1>1 DEF VisitAt
  <1>3. Closed(w)
    <2>1. ASSUME NEW k \in 1..n, w[k].op \in Uses
          PROVE  c \in k..n /\ \A j \in k..c : w[j].op \notin Opening
      <3>1. o < k /\ k <= c
        BY <1>2, <2>1
      <3>2. ASSUME NEW j \in k..c PROVE w[j].op \notin Opening
        <4>1. j \in 1..n /\ j # o
          BY <3>1
        <4>. QED BY <4>1, <1>2
      <3>. QED BY <3>1, <3>2
    <2>. QED BY <1>0, <1>2, <2>1 DEF Closed
  <1>4. Reopened(w)
    BY <1>0, <1>2 DEF Reopened
  <1>5. Ended(w)
    <2>1. ASSUME NEW k \in 1..n, w[k].op = "begin"
          PROVE  \E e \in k+1..n :
                   /\ w[e].op = "commit"
                   /\ \A j \in k+1..e : w[j].op \notin Opening \cup {"begin", "close"}
      <3>1. k = o + 1 /\ k + 1 < c /\ w[c - 1].op = "commit"
        BY <1>2, <2>1
      <3>2. c - 1 \in k+1..n
        BY <3>1
      <3>3. ASSUME NEW j \in k+1..c-1
            PROVE  w[j].op \notin Opening \cup {"begin", "close"}
        <4>1. j \in 1..n /\ j # o /\ j # c /\ j # o + 1
          BY <3>1
        <4>. QED BY <4>1, <1>2
      <3>. QED BY <3>1, <3>2, <3>3
    <2>. QED BY <1>0, <2>1 DEF Ended
  <1>6. ~Inside(w)
    <2>1. ASSUME NEW e \in 1..n, w[e].op = "close" PROVE o \in 1..e
      BY <1>2, <2>1
    <2>. QED BY <1>0, <1>2, <2>1 DEF Inside
  <1>. QED BY <1>3, <1>4, <1>5, <1>6 DEF Bracketed

(* So is a function that does not go there.                                *)
LEMMA NoVisitBracketed ==
  ASSUME NEW w, \A k \in 1..Len(w) : w[k].op \notin Uses
  PROVE  Bracketed(w)
  BY DEF Bracketed, Closed, Reopened, Ended, Inside, Uses

(* What comes before the visit does not matter.                            *)
LEMMA VisitBehind ==
  ASSUME NEW S, NEW a \in Seq(S), NEW b \in Seq(S), OneVisit(b),
         \A k \in 1..Len(a) : a[k].op \notin Opening \cup Uses
  PROVE  OneVisit(a \o b)
  <1>0. PICK m \in Nat, n \in Nat : m = Len(a) /\ n = Len(b)
    BY LenProperties
  <1>1. PICK o \in 1..n, c \in 1..n : VisitAt(b, o, c)
    BY <1>0 DEF OneVisit
  <1>2. /\ o < c /\ b[o].op \in Opening /\ b[c].op = "close"
        /\ \A k \in 1..n : /\ k # o => b[k].op \notin Opening
                           /\ k # c => b[k].op # "close"
                           /\ b[k].op \in Uses => o < k /\ k <= c
                           /\ b[k].op = "begin" => k = o + 1 /\ k + 1 < c /\ b[c - 1].op = "commit"
    BY <1>0, <1>1 DEF VisitAt
  <1>. DEFINE w == a \o b
  <1>3. /\ Len(w) = m + n
        /\ \A k \in 1..m + n : w[k] = IF k <= m THEN a[k] ELSE b[k - m]
    BY <1>0, ConcatProperties
  <1>4. \A k \in 1..m : w[k].op \notin Opening \cup Uses
    BY <1>0, <1>3
  <1>5. \A k \in 1..n : w[k + m] = b[k] /\ k + m \in 1..m+n
    <2>. TAKE k \in 1..n
    <2>1. k + m \in 1..m+n /\ ~(k + m <= m) /\ (k + m) - m = k
      OBVIOUS
    <2>. QED BY <2>1, <1>3
  <1>. HIDE DEF w
  <1>6. ASSUME NEW k \in 1..m+n
        PROVE  /\ k # o + m => w[k].op \notin Opening
               /\ k # c + m => w[k].op # "close"
               /\ w[k].op \in Uses => o + m < k /\ k <= c + m
               /\ w[k].op = "begin" =>
                    k = (o + m) + 1 /\ k + 1 < c + m /\ w[c + m - 1].op = "commit"
    <2>1. CASE k <= m
      BY <2>1, <1>4 DEF Opening, Uses
    <2>2. CASE k > m
      <3>1. PICK j \in 1..n : k = j + m
        <4>1. k - m \in 1..n /\ k = (k - m) + m
          BY <2>2
        <4>. QED BY <4>1
      <3>2. w[k] = b[j]
        BY <1>5, <3>1
      <3>3. w[c + m - 1] = b[c - 1]
        <4>1. c - 1 \in 1..n /\ (c - 1) + m = c + m - 1
          BY <1>2
        <4>. QED BY <4>1, <1>5
      <3>4. /\ j # o => b[j].op \notin Opening
            /\ j # c => b[j].op # "close"
            /\ b[j].op \in Uses => o < j /\ j <= c
            /\ b[j].op = "begin" => j = o + 1 /\ j + 1 < c /\ b[c - 1].op = "commit"
        BY <1>2
      <3>5. (k # o + m => j # o) /\ (k # c + m => j # c)
        BY <3>1
      <3>6. o < j /\ j <= c => o + m < k /\ k <= c + m
        BY <3>1
      <3>7. j = o + 1 /\ j + 1 < c => k = (o + m) + 1 /\ k + 1 < c + m
        BY <3>1
      <3>. QED BY <3>2, <3>3, <3>4, <3>5, <3>6, <3>7
    <2>. QED BY <2>1, <2>2
  <1>7. o + m < c + m /\ o + m \in 1..m+n /\ c + m \in 1..m+n
    BY <1>2
  <1>8. w[o + m] = b[o] /\ w[c + m] = b[c]
    BY <1>5
  <1>9. VisitAt(w, o + m, c + m)
    BY <1>2, <1>3, <1>6, <1>7, <1>8 DEF VisitAt
  <1>10. OneVisit(w)
    BY <1>3, <1>7, <1>9 DEF OneVisit
  <1>. QED BY <1>10 DEF w

(* A transaction of writes and deletions.                                  *)
LEMMA TransactionLemma ==
  ASSUME NEW steps \in Seq(GoodStep),
         \A k \in 1..Len(steps) : steps[k].op \in {"write", "delete"}
  PROVE  /\ InOne(steps) \in Seq(GoodStep)
         /\ OneVisit(InOne(steps))
         /\ \A k \in 1..Len(InOne(steps)) :
              \/ InOne(steps)[k] \in {Open, Begin, Commit, Close}
              \/ \E j \in 1..Len(steps) : InOne(steps)[k] = steps[j]
  <1>0. PICK m \in Nat : m = Len(steps)
    BY LenProperties
  <1>1. {Open, Begin, Commit, Close} \subseteq GoodStep
    BY DEF GoodStep, Open, Begin, Commit, Close, Step, Ops, Things
  <1>2. <<Open, Begin>> \in Seq(GoodStep) /\ <<Commit, Close>> \in Seq(GoodStep)
    BY <1>1
  <1>. DEFINE a == <<Open, Begin>> \o steps
              w == a \o <<Commit, Close>>
  <1>3. /\ a \in Seq(GoodStep) /\ Len(a) = m + 2
        /\ \A k \in 1..m+2 : a[k] = IF k <= 2 THEN <<Open, Begin>>[k] ELSE steps[k - 2]
    <2>1. Len(<<Open, Begin>>) = 2
      OBVIOUS
    <2>2. 2 + m = m + 2
      OBVIOUS
    <2>3. /\ a \in Seq(GoodStep) /\ Len(a) = 2 + m
          /\ \A k \in 1..2+m : a[k] = IF k <= 2 THEN <<Open, Begin>>[k] ELSE steps[k - 2]
      BY <2>1, <1>0, <1>2, ConcatProperties
    <2>. QED BY <2>2, <2>3
  <1>4. /\ w \in Seq(GoodStep) /\ Len(w) = m + 4
        /\ \A k \in 1..m+4 : w[k] = IF k <= m + 2 THEN a[k] ELSE <<Commit, Close>>[k - (m + 2)]
    <2>1. Len(<<Commit, Close>>) = 2
      OBVIOUS
    <2>2. m + 2 + 2 = m + 4
      OBVIOUS
    <2>. HIDE DEF a
    <2>3. /\ w \in Seq(GoodStep) /\ Len(w) = m + 2 + 2
          /\ \A k \in 1..m+2+2 : w[k] = IF k <= m + 2 THEN a[k] ELSE <<Commit, Close>>[k - (m + 2)]
      BY <2>1, <1>3, <1>2, ConcatProperties
    <2>. QED BY <2>2, <2>3
  <1>5. w = InOne(steps)
    BY DEF InOne
  <1>. HIDE DEF w, a
  <1>6. w[1] = Open /\ w[2] = Begin
    <2>1. 1 \in 1..m+2 /\ 2 \in 1..m+2 /\ 1 \in 1..m+4 /\ 2 \in 1..m+4
      OBVIOUS
    <2>2. w[1] = a[1] /\ w[2] = a[2]
      BY <1>4, <2>1
    <2>3. a[1] = Open /\ a[2] = Begin
      BY <1>3, <2>1
    <2>. QED BY <2>2, <2>3
  <1>7. w[m + 3] = Commit /\ w[m + 4] = Close
    <2>1. /\ m + 3 \in 1..m+4 /\ m + 4 \in 1..m+4
          /\ ~(m + 3 <= m + 2) /\ ~(m + 4 <= m + 2)
          /\ m + 3 - (m + 2) = 1 /\ m + 4 - (m + 2) = 2
      OBVIOUS
    <2>. QED BY <1>4, <2>1
  <1>8. ASSUME NEW k \in 1..m+4, k \notin {1, 2, m + 3, m + 4}
        PROVE  k - 2 \in 1..m /\ w[k] = steps[k - 2]
    <2>1. k \in 1..m+2 /\ k <= m + 2 /\ ~(k <= 2) /\ k - 2 \in 1..m
      BY <1>8
    <2>2. w[k] = a[k]
      BY <1>4, <2>1
    <2>3. a[k] = steps[k - 2]
      BY <1>3, <2>1
    <2>. QED BY <2>1, <2>2, <2>3
  <1>9. VisitAt(w, 1, m + 4)
    <2>1. /\ Open.op = "open" /\ Begin.op = "begin" /\ Commit.op = "commit"
          /\ Close.op = "close"
      BY DEF Open, Begin, Commit, Close, Step
    <2>2. ASSUME NEW k \in 1..m+4
          PROVE  /\ k # 1 => w[k].op \notin Opening
                 /\ k # m + 4 => w[k].op # "close"
                 /\ w[k].op \in Uses => 1 < k /\ k <= m + 4
                 /\ w[k].op = "begin" => k = 1 + 1 /\ k + 1 < m + 4 /\ w[m + 4 - 1].op = "commit"
      <3>0. m + 4 - 1 = m + 3
        OBVIOUS
      <3>1. CASE k = 1
        BY <3>1, <2>1, <1>6 DEF Opening, Uses
      <3>2. CASE k = 2
        BY <3>0, <3>2, <2>1, <1>6, <1>7 DEF Opening, Uses
      <3>3. CASE k = m + 3
        BY <3>3, <2>1, <1>7 DEF Opening, Uses
      <3>4. CASE k = m + 4
        BY <3>4, <2>1, <1>7 DEF Opening, Uses
      <3>5. CASE k \notin {1, 2, m + 3, m + 4}
        <4>1. w[k].op \in {"write", "delete"}
          BY <1>0, <1>8, <3>5
        <4>2. 1 < k /\ k <= m + 4
          BY <3>5
        <4>. QED BY <4>1, <4>2 DEF Opening, Uses
      <3>. QED BY <3>1, <3>2, <3>3, <3>4, <3>5
    <2>3. w[1].op \in Opening /\ w[m + 4].op = "close" /\ 1 < m + 4
      BY <2>1, <1>6, <1>7 DEF Opening
    <2>. QED BY <2>2, <2>3, <1>4 DEF VisitAt
  <1>10. OneVisit(w)
    BY <1>4, <1>9 DEF OneVisit
  <1>11. \A k \in 1..m+4 :
              \/ w[k] \in {Open, Begin, Commit, Close}
              \/ \E j \in 1..m : w[k] = steps[j]
    BY <1>6, <1>7, <1>8
  <1>. QED BY <1>0, <1>4, <1>5, <1>10, <1>11

(* SetToSeq lists a set of nodes.                                          *)
LEMMA NodesListed ==
  ASSUME NEW nodes \in SUBSET Node
  PROVE  /\ Cardinality(nodes) \in Nat
         /\ SetToSeq(nodes) \in [1..Cardinality(nodes) -> nodes]
         /\ \A n \in nodes : \E k \in 1..Cardinality(nodes) : SetToSeq(nodes)[k] = n
  <1>1. IsFiniteSet(Node)
    <2>1. MAX_NODE - 1 \in Int
      BY DatabaseAssumption
    <2>. QED BY <2>1, FS_Interval DEF Node
  <1>2. IsFiniteSet(nodes)
    BY <1>1, FS_Subset
  <1>3. Cardinality(nodes) \in Nat /\ ExistsBijection(1..Cardinality(nodes), nodes)
    BY <1>2, FS_CardinalityType
  <1>4. PICK g \in [1..Cardinality(nodes) -> nodes] : IsInjective(g)
    BY <1>3 DEF ExistsBijection, Bijection, Injection
  <1>5. SetToSeq(nodes) \in [1..Cardinality(nodes) -> nodes] /\ IsInjective(SetToSeq(nodes))
    BY <1>4 DEF SetToSeq
  <1>6. SetToSeq(nodes) \in Injection(1..Cardinality(nodes), nodes)
    BY <1>5 DEF Injection
  <1>7. /\ IsFiniteSet(1..Cardinality(nodes))
        /\ Cardinality(1..Cardinality(nodes)) = Cardinality(nodes)
    <2>1. PICK c \in Nat : c = Cardinality(nodes)
      BY <1>3
    <2>2. IsFiniteSet(1..c) /\ Cardinality(1..c) = IF 1 > c THEN 0 ELSE c - 1 + 1
      BY FS_Interval
    <2>3. Cardinality(1..c) = c
      BY <2>2
    <2>. QED BY <2>1, <2>2, <2>3
  <1>8. SetToSeq(nodes) \in Surjection(1..Cardinality(nodes), nodes)
    BY <1>2, <1>6, <1>7, FS_Injection
  <1>9. \A n \in nodes : \E k \in 1..Cardinality(nodes) : SetToSeq(nodes)[k] = n
    BY <1>8 DEF Surjection
  <1>. QED BY <1>3, <1>5, <1>9

(* Each lists one write for every node.                                    *)
LEMMA EachLemma ==
  ASSUME NEW kind \in NodeKinds, NEW nodes \in SUBSET Node
  PROVE  /\ Each(kind, nodes) \in Seq(GoodStep)
         /\ Len(Each(kind, nodes)) = Cardinality(nodes)
         /\ \A k \in 1..Len(Each(kind, nodes)) :
              \E n \in nodes : Each(kind, nodes)[k] = Write(<<kind, n>>)
         /\ \A n \in nodes : \E k \in 1..Len(Each(kind, nodes)) :
              Each(kind, nodes)[k] = Write(<<kind, n>>)
  <1>1. PICK c \in Nat : c = Cardinality(nodes)
    BY NodesListed
  <1>. DEFINE s == SetToSeq(nodes)
  <1>2. /\ s \in [1..c -> nodes]
        /\ \A n \in nodes : \E k \in 1..c : s[k] = n
    BY <1>1, NodesListed
  <1>. DEFINE w == [k \in 1..c |-> Write(<<kind, s[k]>>)]
  <1>3. Each(kind, nodes) = w
    BY <1>1 DEF Each
  <1>. HIDE DEF s
  <1>4. \A n \in nodes : Write(<<kind, n>>) \in GoodStep
    <2>. TAKE n \in nodes
    <2>1. <<kind, n>> \in Item
      BY DEF Item
    <2>. QED BY <2>1 DEF GoodStep, Write, Step, Ops, Things
  <1>5. \A k \in 1..c : w[k] = Write(<<kind, s[k]>>) /\ s[k] \in nodes
    BY <1>2
  <1>6. w \in [1..c -> GoodStep]
    BY <1>4, <1>5
  <1>7. w \in Seq(GoodStep) /\ Len(w) = c
    BY <1>6, SeqDef
  <1>. HIDE DEF w
  <1>8. \A n \in nodes : \E k \in 1..c : w[k] = Write(<<kind, n>>)
    BY <1>2, <1>5
  <1>. QED BY <1>1, <1>3, <1>5, <1>7, <1>8

(* Functions that store no settings, and answer nothing that is kept.      *)
Mute(w) ==
  \A k \in 1..Len(w) :
    /\ w[k].op = "write" => w[k].on \cap Settings = {}
    /\ w[k].op = "set"   => Limits \notin w[k].on
    /\ w[k].op = "reply" => w[k].on = {}
    /\ w[k].op \notin SocketOps

(* Before the first step: what is answered has been set and written, the   *)
(* limits are set before they are written.                                 *)
FreshReplies(w) ==
  \A k \in 1..Len(w) : w[k].op = "reply" =>
    \A i \in w[k].on :
      \E j \in 1..k-1 : /\ w[j].op = "write" /\ i \in w[j].on
                        /\ \E l \in 1..j-1 : w[l].op = "set" /\ i \in w[l].on
FreshLimits(w) ==
  \A k \in 1..Len(w) : w[k].op = "write" /\ Limits \in w[k].on =>
    /\ \E l \in 1..k-1 : w[l].op = "set" /\ Limits \in w[l].on
    /\ \A l \in 1..k-1 : w[l].op # "close"

Handler(w) ==
  /\ w \in Seq(GoodStep) /\ Shape("server", w) /\ ~Inside(w)
  /\ FreshReplies(w) /\ FreshLimits(w)

(* A handler that stores no settings and answers nothing that is kept.     *)
LEMMA MuteHandler ==
  ASSUME NEW w \in Seq(GoodStep), Mute(w), Bracketed(w)
  PROVE  Handler(w)
  <1>1. Plain(w)
    BY DEF Mute, Plain
  <1>2. StoredAfter(w)
    BY DEF Mute, StoredAfter
  <1>3. Part("server", w)
    BY DEF Mute, Part, Settings
  <1>4. EndsBound("server", w)
    BY DEF EndsBound
  <1>5. FreshReplies(w) /\ FreshLimits(w)
    BY DEF Mute, FreshReplies, FreshLimits, Settings
  <1>. QED BY <1>1, <1>2, <1>3, <1>4, <1>5 DEF Handler, Shape, Bracketed

(* Steps without the database.                                             *)
Easy == {s \in GoodStep : /\ s.op \notin Opening \cup Uses \cup SocketOps
                          /\ s.op = "set" => Limits \notin s.on
                          /\ s.op = "reply" => s.on = {}}

(* Replies, posts, orders and what is set for a node are such steps.       *)
LEMMA EasySteps ==
  /\ Hang \in Easy /\ Reply \in Easy
  /\ \A sem \in {"steps", "delete"} : Post(sem) \in Easy
  /\ \A nodes \in SUBSET Node, kind \in NodeKinds : Set(Of(kind, nodes)) \in Easy
  /\ \A nodes \in SUBSET Node, o \in Orders \cup {"enable", "disable"} :
       Step(o, Of("node", nodes)) \in Easy
  <1>1. Hang \in Easy /\ Reply \in Easy
    BY DEF Hang, Reply, Step, Easy, GoodStep, Ops, Opening, Uses, SocketOps
  <1>2. ASSUME NEW sem \in {"steps", "delete"} PROVE Post(sem) \in Easy
    BY DEF Post, Step, Easy, GoodStep, Ops, Opening, Uses, SocketOps, Things
  <1>3. ASSUME NEW nodes \in SUBSET Node, NEW kind \in NodeKinds
        PROVE  Set(Of(kind, nodes)) \in Easy
    <2>1. /\ Of(kind, nodes) \subseteq Item
          /\ Net \notin Of(kind, nodes) /\ Limits \notin Of(kind, nodes)
      BY DEF Of, Item, NodeKinds, Net, Limits
    <2>2. Of(kind, nodes) \subseteq Things /\ Of(kind, nodes) \subseteq Item \ {Net}
      BY <2>1 DEF Things
    <2>. QED BY <2>1, <2>2 DEF Set, Step, Easy, GoodStep, Ops, Opening, Uses, SocketOps
  <1>4. ASSUME NEW nodes \in SUBSET Node, NEW o \in Orders \cup {"enable", "disable"}
        PROVE  Step(o, Of("node", nodes)) \in Easy
    <2>1. Of("node", nodes) \subseteq Things
      BY DEF Of, Things
    <2>. QED BY <2>1 DEF Step, Easy, GoodStep, Ops, Opening, Uses, SocketOps, Orders
  <1>. QED BY <1>1, <1>2, <1>3, <1>4

(* A handler that does not go to the database.                             *)
LEMMA EasyHandler ==
  ASSUME NEW w \in Seq(Easy)
  PROVE  Handler(w)
  <1>1. \A k \in 1..Len(w) : w[k] \in Easy
    BY ElementOfSeq
  <1>2. w \in Seq(GoodStep)
    <2>1. Easy \subseteq GoodStep
      BY DEF Easy
    <2>. QED BY <2>1, SeqMonotonic
  <1>3. Mute(w)
    BY <1>1 DEF Mute, Easy, Uses
  <1>4. Bracketed(w)
    BY <1>1, NoVisitBracketed DEF Easy
  <1>. QED BY <1>2, <1>3, <1>4, MuteHandler

(* A transaction of writes and deletions of what belongs to nodes, behind  *)
(* easy steps.                                                             *)
LEMMA TransactionHandler ==
  ASSUME NEW a \in Seq(Easy), NEW steps \in Seq(GoodStep),
         \A k \in 1..Len(steps) :
           /\ steps[k].op \in {"write", "delete"}
           /\ steps[k].on \cap Settings = {}
  PROVE  Handler(a \o InOne(steps))
  <1>. DEFINE b == InOne(steps)
  <1>0. PICK m \in Nat, n \in Nat : m = Len(a) /\ n = Len(b)
    BY TransactionLemma, LenProperties
  <1>1. /\ b \in Seq(GoodStep) /\ OneVisit(b)
        /\ \A k \in 1..n : \/ b[k] \in {Open, Begin, Commit, Close}
                           \/ \E j \in 1..Len(steps) : b[k] = steps[j]
    BY <1>0, TransactionLemma
  <1>2. a \in Seq(GoodStep)
    <2>1. Easy \subseteq GoodStep
      BY DEF Easy
    <2>. QED BY <2>1, SeqMonotonic
  <1>3. \A k \in 1..m : a[k] \in Easy
    BY <1>0, ElementOfSeq
  <1>4. /\ a \o b \in Seq(GoodStep) /\ Len(a \o b) = m + n
        /\ \A k \in 1..m+n : (a \o b)[k] = IF k <= m THEN a[k] ELSE b[k - m]
    <2>. HIDE DEF b
    <2>. QED BY <1>0, <1>1, <1>2, ConcatProperties
  <1>5. \A k \in 1..n : /\ b[k].op = "write" => b[k].on \cap Settings = {}
                        /\ b[k].op \in Opening \cup Uses
    <2>1. \A s \in {Open, Begin, Commit, Close} : s.op \in (Opening \cup Uses) \ {"write"}
      BY DEF Open, Begin, Commit, Close, Step, Opening, Uses
    <2>. QED BY <1>1, <2>1 DEF Uses
  <1>6. OneVisit(a \o b)
    <2>. HIDE DEF b
    <2>1. \A k \in 1..Len(a) : a[k].op \notin Opening \cup Uses
      BY <1>0, <1>3 DEF Easy
    <2>. QED BY <1>1, <1>2, <2>1, VisitBehind
  <1>. DEFINE w == a \o b
  <1>. HIDE DEF b
  <1>7. Mute(w)
    <2>1. ASSUME NEW k \in 1..m+n
          PROVE  /\ w[k].op = "write" => w[k].on \cap Settings = {}
                 /\ w[k].op = "set"   => Limits \notin w[k].on
                 /\ w[k].op = "reply" => w[k].on = {}
                 /\ w[k].op \notin SocketOps
      <3>1. CASE k <= m
        <4>1. w[k] \in Easy
          BY <1>3, <1>4, <3>1
        <4>. QED BY <4>1 DEF Easy, Uses
      <3>2. CASE k > m
        <4>1. k - m \in 1..n /\ ~(k <= m)
          BY <3>2
        <4>2. w[k] = b[k - m]
          BY <1>4, <4>1
        <4>3. w[k].op = "write" => w[k].on \cap Settings = {}
          BY <1>5, <4>1, <4>2
        <4>4. w[k].op \in Opening \cup Uses
          BY <1>5, <4>1, <4>2
        <4>. QED BY <4>3, <4>4 DEF Opening, Uses, SocketOps
      <3>3. k <= m \/ k > m
        OBVIOUS
      <3>. HIDE DEF w
      <3>. QED BY <3>1, <3>2, <3>3
    <2>. HIDE DEF w
    <2>2. Len(w) = m + n
      BY <1>4 DEF w
    <2>. QED BY <2>1, <2>2 DEF Mute
  <1>8. Bracketed(w)
    <2>. HIDE DEF w
    <2>1. Len(w) \in Nat
      BY <1>4 DEF w
    <2>. QED BY <1>6, <2>1, OneVisitBracketed DEF w
  <1>. QED BY <1>4, <1>7, <1>8, MuteHandler DEF b

(* A setting or what belongs to a node: set, stored, answered.             *)
LEMMA AnswerHandler ==
  ASSUME NEW i \in Answerable, NEW o \in {Open, TryOpen}
  PROVE  Handler(<<Set({i}), o, Write(i), Close, ReplyFor({i})>>)
  <1>. DEFINE w == <<Set({i}), o, Write(i), Close, ReplyFor({i})>>
  <1>0. i \in Item \ {Net} /\ i \in Item /\ i \in Things
    BY DEF Answerable, Item, Things, Settings, NodeKinds, Net, Limits
  <1>1. {Set({i}), o, Write(i), Close, ReplyFor({i})} \subseteq GoodStep
    <2>1. Set({i}) \in GoodStep /\ Write(i) \in GoodStep /\ ReplyFor({i}) \in GoodStep
      BY <1>0 DEF GoodStep, Set, Write, ReplyFor, Step, Ops
    <2>2. o \in GoodStep /\ Close \in GoodStep
      BY DEF GoodStep, Open, TryOpen, Close, Step, Ops
    <2>. QED BY <2>1, <2>2
  <1>2. w \in Seq(GoodStep)
    BY <1>1
  <1>3. /\ Len(w) = 5
        /\ w[1] = Set({i}) /\ w[2] = o /\ w[3] = Write(i) /\ w[4] = Close
        /\ w[5] = ReplyFor({i})
    OBVIOUS
  <1>4. /\ w[1].op = "set" /\ w[1].on = {i} /\ w[2].op \in {"open", "try"}
        /\ w[3].op = "write" /\ w[3].on = {i} /\ w[4].op = "close"
        /\ w[5].op = "reply" /\ w[5].on = {i}
    <2>. HIDE DEF w
    <2>. QED BY <1>3 DEF Set, Open, TryOpen, Write, Close, ReplyFor, Step
  <1>. HIDE DEF w
  <1>5. \A k \in 1..Len(w) : k = 1 \/ k = 2 \/ k = 3 \/ k = 4 \/ k = 5
    BY <1>3
  <1>6. Bracketed(w)
    <2>1. VisitAt(w, 2, 4)
      BY <1>4, <1>5 DEF VisitAt, Opening, Uses
    <2>. QED BY <1>3, <2>1, OneVisitBracketed, SMTT(40) DEF OneVisit
  <1>7. Plain(w)
    BY <1>4, <1>5 DEF Plain
  <1>8. StoredAfter(w)
    <2>1. /\ 3 \in 1..Len(w)
          /\ \A k \in 1..Len(w) : w[k].op = "set" => 3 \in k..Len(w) /\ w[3].on = w[k].on
      BY <1>3, <1>4, <1>5
    <2>. QED BY <1>4, <2>1 DEF StoredAfter
  <1>9. Part("server", w)
    <2>1. ASSUME NEW k \in 1..Len(w)
          PROVE  w[k].op \notin SocketOps /\ (w[k].op = "write" => Net \notin w[k].on)
      BY <1>0, <1>4, <1>5 DEF SocketOps
    <2>. QED BY <2>1 DEF Part
  <1>10. EndsBound("server", w)
    BY DEF EndsBound
  <1>11. FreshReplies(w)
    <2>1. \A k \in 1..Len(w) : w[k].op = "reply" => k = 5
      BY <1>4, <1>5
    <2>2. 3 \in 1..5-1 /\ 1 \in 1..3-1
      OBVIOUS
    <2>. QED BY <1>4, <2>1, <2>2 DEF FreshReplies
  <1>12. FreshLimits(w)
    <2>1. \A k \in 1..Len(w) : w[k].op = "write" => k = 3
      BY <1>4, <1>5
    <2>2. 1 \in 1..3-1 /\ \A l \in 1..3-1 : l = 1 \/ l = 2
      OBVIOUS
    <2>. QED BY <1>4, <2>1, <2>2 DEF FreshLimits
  <1>. QED
    BY <1>2, <1>6, <1>7, <1>8, <1>9, <1>10, <1>11, <1>12
       DEF Handler, Shape, Bracketed, w

Alternates(w, a, b) ==
  /\ Len(w) = 2 * Len(a)
  /\ \A p \in 1..Len(a) : w[2 * p - 1] = a[p] /\ w[2 * p] = b[p]

(* What Alternately returns, position by position.                         *)
LEMMA AlternatelyLemma ==
  ASSUME NEW S, NEW a \in Seq(S), NEW b \in Seq(S), Len(a) = Len(b)
  PROVE  Alternately(a, b) \in Seq(S) /\ Alternates(Alternately(a, b), a, b)
  <1>1. PICK m \in Nat : m = Len(a) /\ m = Len(b)
    BY LenProperties
  <1>. DEFINE w == [k \in 1..2*m |-> IF k % 2 = 1 THEN a[(k + 1) \div 2] ELSE b[k \div 2]]
  <1>2. Alternately(a, b) = w
    BY <1>1 DEF Alternately
  <1>3. \A k \in 1..m : a[k] \in S /\ b[k] \in S
    BY <1>1, ElementOfSeq
  <1>4. ASSUME NEW k \in 1..2*m PROVE w[k] \in S
    <2>1. CASE k % 2 = 1
      <3>1. (k + 1) \div 2 \in 1..m
        BY <2>1
      <3>. QED BY <2>1, <3>1, <1>3
    <2>2. CASE k % 2 # 1
      <3>1. k \div 2 \in 1..m
        BY <2>2
      <3>. QED BY <2>2, <3>1, <1>3
    <2>. QED BY <2>1, <2>2
  <1>5. w \in [1..2*m -> S]
    BY <1>4
  <1>6. w \in Seq(S) /\ Len(w) = 2 * m
    BY <1>5, SeqDef
  <1>7. ASSUME NEW p \in 1..m PROVE w[2 * p - 1] = a[p] /\ w[2 * p] = b[p]
    <2>1. 2 * p - 1 \in 1..2*m /\ 2 * p \in 1..2*m
      OBVIOUS
    <2>2. (2 * p - 1) % 2 = 1 /\ (2 * p - 1 + 1) \div 2 = p
      OBVIOUS
    <2>3. (2 * p) % 2 = 0 /\ (2 * p) \div 2 = p
      OBVIOUS
    <2>. QED BY <2>1, <2>2, <2>3
  <1>. HIDE DEF w
  <1>8. Alternates(w, a, b)
    BY <1>1, <1>6, <1>7 DEF Alternates
  <1>. QED BY <1>2, <1>6, <1>8

(* Each position holds a step of the one sequence or of the other.         *)
LEMMA OddOrEven ==
  ASSUME NEW m \in Nat, NEW k \in 1..2*m
  PROVE  \E p \in 1..m : k = 2 * p - 1 \/ k = 2 * p
  <1>1. CASE k % 2 = 1
    <2>1. (k + 1) \div 2 \in 1..m /\ k = 2 * ((k + 1) \div 2) - 1
      BY <1>1
    <2>. QED BY <2>1
  <1>2. CASE k % 2 # 1
    <2>1. k \div 2 \in 1..m /\ k = 2 * (k \div 2)
      BY <1>2
    <2>. QED BY <2>1
  <1>. QED BY <1>1, <1>2

(* read_history_data_decode.                                               *)
LEMMA HistoryHandler ==
  ASSUME NEW m \in Nat,
         NEW a \in Seq(GoodStep), Len(a) = m, \A k \in 1..m : a[k] = TryOpen,
         NEW b \in Seq(GoodStep), Len(b) = m, \A k \in 1..m : b[k] = Close
  PROVE  Handler(Alternately(a, b) \o <<Reply>>)
  <1>. DEFINE v == Alternately(a, b)
              w == v \o <<Reply>>
  <1>1. /\ v \in Seq(GoodStep) /\ Len(v) = 2 * m
        /\ \A p \in 1..m : v[2 * p - 1] = TryOpen /\ v[2 * p] = Close
    <2>1. /\ v \in Seq(GoodStep) /\ Len(v) = 2 * m
          /\ \A p \in 1..m : v[2 * p - 1] = a[p] /\ v[2 * p] = b[p]
      <3>1. Len(a) = Len(b)
        OBVIOUS
      <3>2. v \in Seq(GoodStep) /\ Alternates(v, a, b)
        BY <3>1, AlternatelyLemma
      <3>. HIDE DEF v
      <3>. QED BY <3>2 DEF Alternates
    <2>. HIDE DEF v
    <2>. QED BY <2>1
  <1>. HIDE DEF v
  <1>2. /\ w \in Seq(GoodStep) /\ Len(w) = 2 * m + 1
        /\ \A k \in 1..2*m+1 : w[k] = IF k <= 2 * m THEN v[k] ELSE <<Reply>>[k - 2 * m]
    <2>1. <<Reply>> \in Seq(GoodStep) /\ Len(<<Reply>>) = 1
      BY EasySteps DEF Easy
    <2>2. v \in Seq(GoodStep)
      BY <1>1
    <2>3. /\ w \in Seq(GoodStep) /\ Len(w) = Len(v) + Len(<<Reply>>)
          /\ \A k \in 1..Len(v) + Len(<<Reply>>) :
               w[k] = IF k <= Len(v) THEN v[k] ELSE <<Reply>>[k - Len(v)]
      BY <2>1, <2>2, ConcatProperties, ZenonT(30)
    <2>4. Len(v) = 2 * m
      BY <1>1
    <2>. HIDE DEF w
    <2>. QED BY <2>1, <2>3, <2>4
  <1>. HIDE DEF w
  <1>3. \A p \in 1..m : w[2 * p - 1] = TryOpen /\ w[2 * p] = Close
    <2>. TAKE p \in 1..m
    <2>1. /\ 2 * p - 1 \in 1..2*m+1 /\ 2 * p - 1 <= 2 * m
          /\ 2 * p \in 1..2*m+1 /\ 2 * p <= 2 * m
      OBVIOUS
    <2>. QED BY <1>1, <1>2, <2>1
  <1>4. w[2 * m + 1] = Reply
    <2>1. 2 * m + 1 \in 1..2*m+1 /\ ~(2 * m + 1 <= 2 * m) /\ 2 * m + 1 - 2 * m = 1
      OBVIOUS
    <2>. QED BY <1>2, <2>1
  <1>5. \A k \in 1..2*m+1 : k = 2 * m + 1 \/ \E p \in 1..m : k = 2 * p - 1 \/ k = 2 * p
    <2>. TAKE k \in 1..2*m+1
    <2>1. k = 2 * m + 1 \/ k \in 1..2*m
      OBVIOUS
    <2>. QED BY <2>1, OddOrEven
  <1>6. /\ TryOpen.op = "try" /\ Close.op = "close" /\ Reply.op = "reply" /\ Reply.on = {}
    BY DEF TryOpen, Close, Reply, Step
  <1>7. Mute(w)
    <2>1. \A k \in 1..2*m+1 : w[k] \in {TryOpen, Close, Reply}
      BY <1>3, <1>4, <1>5
    <2>. QED BY <1>2, <2>1, <1>6 DEF Mute, SocketOps
  <1>8. \A k \in 1..2*m+1 : w[k].op \in Uses => w[k].op = "close" /\ \E p \in 1..m : k = 2 * p
    BY <1>3, <1>4, <1>5, <1>6 DEF Uses
  <1>9. Closed(w)
    <2>1. ASSUME NEW k \in 1..2*m+1, w[k].op \in Uses
          PROVE  k \in k..2*m+1 /\ w[k].op = "close" /\ \A j \in k..k : w[j].op \notin Opening
      BY <2>1, <1>8 DEF Opening
    <2>. QED BY <1>2, <2>1 DEF Closed
  <1>10. Reopened(w)
    <2>1. ASSUME NEW j \in 1..2*m+1, NEW k \in 1..2*m+1, j < k,
                 w[j].op = "close", w[k].op = "close"
          PROVE  \E l \in j..k : w[l].op \in Opening
      <3>1. PICK p \in 1..m : k = 2 * p
        BY <1>8, <2>1 DEF Uses
      <3>2. w[2 * p - 1].op \in Opening
        BY <1>3, <1>6 DEF Opening
      <3>3. 2 * p - 1 \in j..k
        BY <2>1, <3>1
      <3>. QED BY <3>2, <3>3
    <2>. QED BY <1>2, <2>1 DEF Reopened
  <1>11. Ended(w)
    BY <1>2, <1>8 DEF Ended, Uses
  <1>12. Inside(w) => FALSE
    <2>. SUFFICES ASSUME NEW c \in 1..2*m+1, w[c].op = "close",
                         \A j \in 1..c : w[j].op \notin Opening
                  PROVE  FALSE
      BY <1>2 DEF Inside
    <2>1. PICK p \in 1..m : c = 2 * p
      BY <1>8 DEF Uses
    <2>2. 2 * p - 1 \in 1..c
      BY <2>1
    <2>. QED BY <1>3, <1>6, <2>2 DEF Opening
  <1>. QED BY <1>2, <1>7, <1>9, <1>10, <1>11, <1>12, MuteHandler DEF Bracketed, w, v

(* send_signal_bat_cap, the part of a frame that is in range.              *)
LEMMA SignalHandler ==
  ASSUME NEW nodes \in SUBSET Node, NEW writes, writes = Each("config", nodes),
         NEW sets, sets = [k \in 1..Len(writes) |-> Set(writes[k].on)]
  PROVE  Handler(<<Open>> \o Alternately(sets, writes)
                   \o <<ReplyFor(Of("config", nodes)), Close>>)
  <1>. DEFINE last == <<ReplyFor(Of("config", nodes)), Close>>
              v == Alternately(sets, writes)
              u == <<Open>> \o v
              w == u \o last
  <1>1. PICK m \in Nat : m = Len(writes)
    BY EachLemma, LenProperties DEF NodeKinds
  <1>2. /\ writes \in Seq(GoodStep)
        /\ \A p \in 1..m : \E n \in nodes : writes[p] = Write(<<"config", n>>)
        /\ \A n \in nodes : \E p \in 1..m : writes[p] = Write(<<"config", n>>)
    BY <1>1, EachLemma DEF NodeKinds
  <1>3. \A n \in nodes : Set({<<"config", n>>}) \in GoodStep
    <2>. TAKE n \in nodes
    <2>1. <<"config", n>> \in Item \ {Net} /\ <<"config", n>> \in Things
      BY DEF Item, NodeKinds, Net, Things
    <2>. QED BY <2>1 DEF GoodStep, Set, Step, Ops
  <1>4. \A n : Write(<<"config", n>>).op = "write" /\ Write(<<"config", n>>).on = {<<"config", n>>}
    BY DEF Write, Step
  <1>5. \A p \in 1..m : \E n \in nodes :
           writes[p] = Write(<<"config", n>>) /\ sets[p] = Set({<<"config", n>>})
    <2>. TAKE p \in 1..m
    <2>1. PICK n \in nodes : writes[p] = Write(<<"config", n>>)
      BY <1>2
    <2>2. sets[p] = Set(writes[p].on)
      BY <1>1
    <2>. QED BY <2>1, <2>2, <1>4
  <1>6. sets \in Seq(GoodStep) /\ Len(sets) = m
    <2>1. sets \in [1..m -> GoodStep]
      BY <1>1, <1>3, <1>5
    <2>. QED BY <2>1, SeqDef
  <1>7. v \in Seq(GoodStep) /\ Alternates(v, sets, writes)
    BY <1>1, <1>2, <1>6, AlternatelyLemma
  <1>. HIDE DEF v
  <1>8. Len(v) = 2 * m /\ \A p \in 1..m : v[2 * p - 1] = sets[p] /\ v[2 * p] = writes[p]
    BY <1>6, <1>7 DEF Alternates
  <1>9. Open \in GoodStep /\ Close \in GoodStep /\ ReplyFor(Of("config", nodes)) \in GoodStep
    <2>1. Of("config", nodes) \subseteq Answerable
      BY DEF Of, Answerable
    <2>2. Answerable \subseteq Things
      BY DEF Answerable, Things, Item, Settings, NodeKinds
    <2>3. Of("config", nodes) \subseteq Things
      BY <2>1, <2>2
    <2>. QED BY <2>1, <2>3 DEF GoodStep, Open, Close, ReplyFor, Step, Ops
  <1>10. <<Open>> \in Seq(GoodStep) /\ Len(<<Open>>) = 1 /\ last \in Seq(GoodStep) /\ Len(last) = 2
         /\ last[1] = ReplyFor(Of("config", nodes)) /\ last[2] = Close
    BY <1>9
  <1>. HIDE DEF last
  <1>11. /\ u \in Seq(GoodStep) /\ Len(u) = Len(<<Open>>) + Len(v)
         /\ \A k \in 1..Len(<<Open>>) + Len(v) :
              u[k] = IF k <= Len(<<Open>>) THEN <<Open>>[k] ELSE v[k - Len(<<Open>>)]
    BY <1>7, <1>10, ConcatProperties, ZenonT(30)
  <1>. HIDE DEF u
  <1>12. Len(u) = 2 * m + 1 /\ \A k \in 1..2*m+1 : u[k] = IF k <= 1 THEN Open ELSE v[k - 1]
    BY <1>8, <1>10, <1>11
  <1>13. /\ w \in Seq(GoodStep) /\ Len(w) = Len(u) + Len(last)
         /\ \A k \in 1..Len(u) + Len(last) : w[k] = IF k <= Len(u) THEN u[k] ELSE last[k - Len(u)]
    <2>1. u \in Seq(GoodStep) /\ last \in Seq(GoodStep)
      BY <1>10, <1>11
    <2>. QED BY <2>1, ConcatProperties, ZenonT(30)
  <1>. HIDE DEF w
  <1>14. /\ Len(w) = 2 * m + 3
         /\ \A k \in 1..2*m+3 : w[k] = IF k <= 2 * m + 1 THEN u[k] ELSE last[k - (2 * m + 1)]
    <2>1. 2 * m + 1 + 2 = 2 * m + 3
      OBVIOUS
    <2>. QED BY <2>1, <1>10, <1>12, <1>13
  <1>15. w[1] = Open
    <2>1. 1 \in 1..2*m+1 /\ 1 \in 1..2*m+3 /\ 1 <= 2 * m + 1
      OBVIOUS
    <2>. QED BY <2>1, <1>12, <1>14
  <1>16. \A p \in 1..m : w[2 * p] = sets[p] /\ w[2 * p + 1] = writes[p]
    <2>. TAKE p \in 1..m
    <2>1. /\ 2 * p \in 1..2*m+3 /\ 2 * p <= 2 * m + 1 /\ 2 * p \in 1..2*m+1 /\ ~(2 * p <= 1)
          /\ 2 * p + 1 \in 1..2*m+3 /\ 2 * p + 1 <= 2 * m + 1 /\ 2 * p + 1 \in 1..2*m+1
          /\ ~(2 * p + 1 <= 1) /\ (2 * p + 1) - 1 = 2 * p
      OBVIOUS
    <2>2. w[2 * p] = u[2 * p] /\ w[2 * p + 1] = u[2 * p + 1]
      BY <2>1, <1>14
    <2>3. u[2 * p] = v[2 * p - 1] /\ u[2 * p + 1] = v[2 * p]
      BY <2>1, <1>12
    <2>. QED BY <2>2, <2>3, <1>8
  <1>17. w[2 * m + 2] = ReplyFor(Of("config", nodes)) /\ w[2 * m + 3] = Close
    <2>1. /\ 2 * m + 2 \in 1..2*m+3 /\ ~(2 * m + 2 <= 2 * m + 1) /\ 2 * m + 2 - (2 * m + 1) = 1
          /\ 2 * m + 3 \in 1..2*m+3 /\ ~(2 * m + 3 <= 2 * m + 1) /\ 2 * m + 3 - (2 * m + 1) = 2
      OBVIOUS
    <2>. QED BY <2>1, <1>10, <1>14
  <1>18. \A k \in 1..2*m+3 : \/ k = 1 \/ k = 2 * m + 2 \/ k = 2 * m + 3
                             \/ \E p \in 1..m : k = 2 * p \/ k = 2 * p + 1
    <2>. TAKE k \in 1..2*m+3
    <2>1. k = 1 \/ k = 2 * m + 2 \/ k = 2 * m + 3 \/ k - 1 \in 1..2*m
      OBVIOUS
    <2>2. ASSUME k - 1 \in 1..2*m
          PROVE  \E p \in 1..m : k = 2 * p \/ k = 2 * p + 1
      <3>1. PICK p \in 1..m : k - 1 = 2 * p - 1 \/ k - 1 = 2 * p
        BY <2>2, OddOrEven
      <3>2. k = 2 * p \/ k = 2 * p + 1
        BY <3>1
      <3>. QED BY <3>2
    <2>. QED BY <2>1, <2>2
  <1>. HIDE DEF u, v, last
  <1>19. \A k \in 1..2*m+3 :
           \/ k = 1 /\ w[k] = Open
           \/ k = 2 * m + 2 /\ w[k] = ReplyFor(Of("config", nodes))
           \/ k = 2 * m + 3 /\ w[k] = Close
           \/ \E n \in nodes : w[k] = Set({<<"config", n>>}) \/ w[k] = Write(<<"config", n>>)
    <2>. TAKE k \in 1..2*m+3
    <2>1. CASE \E p \in 1..m : k = 2 * p \/ k = 2 * p + 1
      <3>1. PICK p \in 1..m : k = 2 * p \/ k = 2 * p + 1
        BY <2>1
      <3>2. w[k] = sets[p] \/ w[k] = writes[p]
        BY <3>1, <1>16
      <3>. QED BY <3>2, <1>5
    <2>. QED BY <2>1, <1>15, <1>17, <1>18
  <1>20. /\ Open.op = "open" /\ Close.op = "close"
         /\ ReplyFor(Of("config", nodes)).op = "reply"
         /\ \A n : /\ Set({<<"config", n>>}).op = "set" /\ Set({<<"config", n>>}).on = {<<"config", n>>}
    BY DEF Open, Close, ReplyFor, Set, Step
  <1>21. \A k \in 1..2*m+3 : /\ k # 1 => w[k].op \notin Opening
                             /\ k # 2 * m + 3 => w[k].op # "close"
                             /\ w[k].op \in {"open", "close", "reply", "set", "write"}
    BY <1>19, <1>20, <1>4 DEF Opening
  <1>22. OneVisit(w)
    <2>1. ASSUME NEW k \in 1..2*m+3
          PROVE  /\ k # 1 => w[k].op \notin Opening
                 /\ k # 2 * m + 3 => w[k].op # "close"
                 /\ w[k].op \in Uses => 1 < k /\ k <= 2 * m + 3
                 /\ w[k].op # "begin"
      <3>1. k = 1 \/ 1 < k
        OBVIOUS
      <3>2. k = 1 => w[k].op \notin Uses
        BY <1>15, <1>20 DEF Uses
      <3>. QED BY <3>1, <3>2, <1>21
    <2>2. 1 < 2 * m + 3 /\ w[1].op \in Opening /\ w[2 * m + 3].op = "close"
      BY <1>15, <1>17, <1>20 DEF Opening
    <2>3. VisitAt(w, 1, 2 * m + 3)
      BY <2>1, <2>2, <1>14 DEF VisitAt
    <2>4. 1 \in 1..2*m+3 /\ 2 * m + 3 \in 1..2*m+3
      OBVIOUS
    <2>. QED BY <2>3, <2>4, <1>14 DEF OneVisit
  <1>23. Bracketed(w)
    <2>1. Len(w) \in Nat
      BY <1>14
    <2>. QED BY <1>22, <2>1, OneVisitBracketed
  <1>24. Plain(w)
    BY <1>14, <1>21 DEF Plain
  <1>25. \A k \in 1..2*m+3 : w[k].op \in {"set", "write"} => w[k].on \cap Settings = {}
    <2>. SUFFICES ASSUME NEW k \in 1..2*m+3, w[k].op \in {"set", "write"}
                  PROVE  w[k].on \cap Settings = {}
      OBVIOUS
    <2>1. PICK n \in nodes : w[k] = Set({<<"config", n>>}) \/ w[k] = Write(<<"config", n>>)
      BY <1>19, <1>20
    <2>2. w[k].on = {<<"config", n>>}
      BY <2>1, <1>4, <1>20
    <2>. QED BY <2>2 DEF Settings, Net, Limits
  <1>26. StoredAfter(w) /\ FreshLimits(w)
    BY <1>14, <1>25 DEF StoredAfter, FreshLimits, Settings
  <1>27. Part("server", w)
    BY <1>14, <1>21, <1>25 DEF Part, SocketOps, Settings
  <1>28. EndsBound("server", w)
    BY DEF EndsBound
  <1>29. FreshReplies(w)
    <2>1. ASSUME NEW k \in 1..2*m+3, w[k].op = "reply", NEW i \in w[k].on
          PROVE  \E j \in 1..k-1 : /\ w[j].op = "write" /\ i \in w[j].on
                                   /\ \E l \in 1..j-1 : w[l].op = "set" /\ i \in w[l].on
      <3>1. k = 2 * m + 2 /\ i \in Of("config", nodes)
        <4>1. k = 2 * m + 2 /\ w[k] = ReplyFor(Of("config", nodes))
          BY <2>1, <1>19, <1>20, <1>4
        <4>2. ReplyFor(Of("config", nodes)).on = Of("config", nodes)
          BY DEF ReplyFor, Step
        <4>. QED BY <4>1, <4>2, <2>1
      <3>2. PICK n \in nodes : i = <<"config", n>>
        BY <3>1 DEF Of
      <3>3. PICK p \in 1..m : writes[p] = Write(<<"config", n>>)
        BY <1>2
      <3>4. sets[p] = Set({<<"config", n>>})
        <4>1. sets[p] = Set(writes[p].on)
          BY <1>1
        <4>. QED BY <4>1, <3>3, <1>4
      <3>5. w[2 * p] = Set({i}) /\ w[2 * p + 1] = Write(i)
        BY <3>2, <3>3, <3>4, <1>16
      <3>6. 2 * p + 1 \in 1..k-1 /\ 2 * p \in 1..(2 * p + 1)-1
        BY <3>1
      <3>7. w[2 * p + 1].op = "write" /\ i \in w[2 * p + 1].on
        BY <3>5 DEF Write, Step
      <3>8. w[2 * p].op = "set" /\ i \in w[2 * p].on
        BY <3>5 DEF Set, Step
      <3>. QED BY <3>6, <3>7, <3>8
    <2>. QED BY <2>1, <1>14 DEF FreshReplies
  <1>30. w \in Seq(GoodStep)
    BY <1>13
  <1>31. Handler(w)
    BY <1>23, <1>24, <1>26, <1>27, <1>28, <1>29, <1>30 DEF Handler, Shape, Bracketed
  <1>. QED BY <1>31 DEF w, u, v, last

(* Tuples that are put together.                                           *)
LEMMA Joined ==
  ASSUME NEW S, NEW s \in Seq(S), NEW t \in Seq(S), NEW u \in Seq(S),
         Len(u) = Len(s) + Len(t),
         \A k \in 1..Len(u) : u[k] = IF k <= Len(s) THEN s[k] ELSE t[k - Len(s)]
  PROVE  s \o t = u
  <1>1. /\ s \o t \in Seq(S) /\ Len(s \o t) = Len(s) + Len(t)
        /\ \A k \in 1..Len(s) + Len(t) : (s \o t)[k] = IF k <= Len(s) THEN s[k] ELSE t[k - Len(s)]
    BY ConcatProperties
  <1>. DEFINE v == s \o t
  <1>2. v \in Seq(S) /\ Len(v) = Len(u) /\ \A k \in 1..Len(v) : v[k] = u[k]
    BY <1>1
  <1>. HIDE DEF v
  <1>3. v = u
    BY <1>2, SeqEqual
  <1>. QED BY <1>3 DEF v

(* Tuples of the lengths that the handlers put together.                   *)
LEMMA OneAndOne ==
  \A a, b : <<a>> \o <<b>> = <<a, b>>
  <1>. TAKE a, b
  <1>. DEFINE S == {a, b}
              s == <<a>>
              t == <<b>>
              u == <<a, b>>
  <1>1. /\ s \in Seq(S) /\ t \in Seq(S) /\ u \in Seq(S)
        /\ Len(s) = 1 /\ Len(t) = 1 /\ Len(u) = 2
    OBVIOUS
  <1>2. /\ s[1] = a
        /\ t[1] = b
        /\ u[1] = a /\ u[2] = b
    OBVIOUS
  <1>. HIDE DEF S, s, t, u
  <1>3. Len(u) = Len(s) + Len(t)
    BY <1>1
  <1>4. \A k \in 1..Len(u) : u[k] = IF k <= Len(s) THEN s[k] ELSE t[k - Len(s)]
    BY <1>1, <1>2
  <1>5. s \o t = u
    BY <1>1, <1>3, <1>4, Joined
  <1>. QED BY <1>5 DEF s, t, u

(* One and two.                                                            *)
LEMMA OneAndTwo ==
  \A a, b, c : <<a>> \o <<b, c>> = <<a, b, c>>
  <1>. TAKE a, b, c
  <1>. DEFINE S == {a, b, c}
              s == <<a>>
              t == <<b, c>>
              u == <<a, b, c>>
  <1>1. /\ s \in Seq(S) /\ t \in Seq(S) /\ u \in Seq(S)
        /\ Len(s) = 1 /\ Len(t) = 2 /\ Len(u) = 3
    OBVIOUS
  <1>2. /\ s[1] = a
        /\ t[1] = b /\ t[2] = c
        /\ u[1] = a /\ u[2] = b /\ u[3] = c
    OBVIOUS
  <1>. HIDE DEF S, s, t, u
  <1>3. Len(u) = Len(s) + Len(t)
    BY <1>1
  <1>4. \A k \in 1..Len(u) : u[k] = IF k <= Len(s) THEN s[k] ELSE t[k - Len(s)]
    BY <1>1, <1>2
  <1>5. s \o t = u
    BY <1>1, <1>3, <1>4, Joined
  <1>. QED BY <1>5 DEF s, t, u

(* One and three.                                                          *)
LEMMA OneAndThree ==
  \A a, b, c, d : <<a>> \o <<b, c, d>> = <<a, b, c, d>>
  <1>. TAKE a, b, c, d
  <1>. DEFINE S == {a, b, c, d}
              s == <<a>>
              t == <<b, c, d>>
              u == <<a, b, c, d>>
  <1>1. /\ s \in Seq(S) /\ t \in Seq(S) /\ u \in Seq(S)
        /\ Len(s) = 1 /\ Len(t) = 3 /\ Len(u) = 4
    OBVIOUS
  <1>2. /\ s[1] = a
        /\ t[1] = b /\ t[2] = c /\ t[3] = d
        /\ u[1] = a /\ u[2] = b /\ u[3] = c /\ u[4] = d
    OBVIOUS
  <1>. HIDE DEF S, s, t, u
  <1>3. Len(u) = Len(s) + Len(t)
    BY <1>1
  <1>4. \A k \in 1..Len(u) : u[k] = IF k <= Len(s) THEN s[k] ELSE t[k - Len(s)]
    BY <1>1, <1>2
  <1>5. s \o t = u
    BY <1>1, <1>3, <1>4, Joined
  <1>. QED BY <1>5 DEF s, t, u

(* Four and one.                                                           *)
LEMMA FourAndOne ==
  \A a, b, c, d, e : <<a, b, c, d>> \o <<e>> = <<a, b, c, d, e>>
  <1>. TAKE a, b, c, d, e
  <1>. DEFINE S == {a, b, c, d, e}
              s == <<a, b, c, d>>
              t == <<e>>
              u == <<a, b, c, d, e>>
  <1>1. /\ s \in Seq(S) /\ t \in Seq(S) /\ u \in Seq(S)
        /\ Len(s) = 4 /\ Len(t) = 1 /\ Len(u) = 5
    OBVIOUS
  <1>2. /\ s[1] = a /\ s[2] = b /\ s[3] = c /\ s[4] = d
        /\ t[1] = e
        /\ u[1] = a /\ u[2] = b /\ u[3] = c /\ u[4] = d /\ u[5] = e
    OBVIOUS
  <1>. HIDE DEF S, s, t, u
  <1>3. Len(u) = Len(s) + Len(t)
    BY <1>1
  <1>4. \A k \in 1..Len(u) : u[k] = IF k <= Len(s) THEN s[k] ELSE t[k - Len(s)]
    BY <1>1, <1>2
  <1>5. s \o t = u
    BY <1>1, <1>3, <1>4, Joined
  <1>. QED BY <1>5 DEF s, t, u

(* Three and three.                                                        *)
LEMMA ThreeAndThree ==
  \A a, b, c, d, e, f : <<a, b, c>> \o <<d, e, f>> = <<a, b, c, d, e, f>>
  <1>. TAKE a, b, c, d, e, f
  <1>. DEFINE S == {a, b, c, d, e, f}
              s == <<a, b, c>>
              t == <<d, e, f>>
              u == <<a, b, c, d, e, f>>
  <1>1. /\ s \in Seq(S) /\ t \in Seq(S) /\ u \in Seq(S)
        /\ Len(s) = 3 /\ Len(t) = 3 /\ Len(u) = 6
    OBVIOUS
  <1>2. /\ s[1] = a /\ s[2] = b /\ s[3] = c
        /\ t[1] = d /\ t[2] = e /\ t[3] = f
        /\ u[1] = a /\ u[2] = b /\ u[3] = c /\ u[4] = d /\ u[5] = e /\ u[6] = f
    OBVIOUS
  <1>. HIDE DEF S, s, t, u
  <1>3. Len(u) = Len(s) + Len(t)
    BY <1>1
  <1>4. \A k \in 1..Len(u) : u[k] = IF k <= Len(s) THEN s[k] ELSE t[k - Len(s)]
    BY <1>1, <1>2
  <1>5. s \o t = u
    BY <1>1, <1>3, <1>4, Joined
  <1>. QED BY <1>5 DEF s, t, u

(* Nothing is appended.                                                    *)
LEMMA NothingMore ==
  \A a : <<a>> \o <<>> = <<a>>
  <1>. TAKE a
  <1>1. <<a>> \in Seq({a})
    OBVIOUS
  <1>. QED BY <1>1, ConcatEmptySeq

(* Set, stored, answered: the steps one by one.                            *)
LEMMA StoredAndAnswered ==
  \A i : <<Set({i})>> \o Stored1(i) \o <<ReplyFor({i})>>
          = <<Set({i}), Open, Write(i), Close, ReplyFor({i})>>
  <1>. TAKE i
  <1>1. <<Set({i})>> \o Stored1(i) = <<Set({i}), Open, Write(i), Close>>
    BY OneAndThree, Zenon DEF Stored1
  <1>. QED BY <1>1, FourAndOne, Zenon

(* Tuples of easy steps.                                                   *)
LEMMA EasyTuples ==
  /\ <<>> \in Seq(Easy)
  /\ \A a \in Easy : <<a>> \in Seq(Easy)
  /\ \A a, b \in Easy : <<a, b>> \in Seq(Easy)
  /\ \A a, b, c \in Easy : <<a, b, c>> \in Seq(Easy)
  OBVIOUS

(* A frame for one node that is not refused is for a node.                 *)
LEMMA OneNode ==
  ASSUME NEW f \in Frame, f.at # MAX_NODE, ~(f.at > MAX_NODE)
  PROVE  f.at \in Node
  BY DatabaseAssumption DEF Frame, Node

(* cfg_step_decode: a program, or the same one for all nodes.              *)
LEMMA StepsHandler ==
  ASSUME NEW f \in Frame, f.at # MAX_NODE
  PROVE  Handler(cfg_step_decode(f))
  <1>1. CASE f.count \notin 1..MAX_STEP /\ f.at # All
    <2>1. cfg_step_decode(f) = <<>>
      BY <1>1 DEF cfg_step_decode
    <2>. QED BY <2>1, EasyTuples, EasyHandler
  <1>2. CASE ~(f.count \notin 1..MAX_STEP /\ f.at # All) /\ f.at = All
    <2>1. Set(Of("program", Node \ running)) \in Easy /\ Reply \in Easy /\ Post("steps") \in Easy
      BY EasySteps DEF NodeKinds
    <2>2. \/ cfg_step_decode(f) = <<Set(Of("program", Node \ running)), Reply, Post("steps")>>
          \/ cfg_step_decode(f) = <<Reply, Post("steps")>>
      <3>1. <<Set(Of("program", Node \ running))>> \o <<Reply, Post("steps")>>
              = <<Set(Of("program", Node \ running)), Reply, Post("steps")>>
        BY OneAndTwo, Zenon
      <3>2. <<>> \o <<Reply, Post("steps")>> = <<Reply, Post("steps")>>
        BY <2>1, EasyTuples, ConcatEmptySeq
      <3>3. cfg_step_decode(f) =
              (IF f.count \in 1..MAX_STEP THEN <<Set(Of("program", Node \ running))>> ELSE <<>>)
                \o <<Reply, Post("steps")>>
        BY <1>2, ZenonT(30) DEF cfg_step_decode
      <3>. QED BY <3>1, <3>2, <3>3
    <2>. QED BY <2>1, <2>2, EasyTuples, EasyHandler
  <1>3. CASE ~(f.count \notin 1..MAX_STEP /\ f.at # All) /\ f.at # All
    <2>1. CASE f.at > MAX_NODE \/ f.at \in running
      <3>1. cfg_step_decode(f) = <<>>
        BY <1>3, <2>1 DEF cfg_step_decode
      <3>. QED BY <3>1, EasyTuples, EasyHandler
    <2>2. CASE ~(f.at > MAX_NODE \/ f.at \in running)
      <3>. DEFINE i == <<"program", f.at>>
      <3>1. i \in Answerable
        BY <2>2, OneNode DEF Answerable
      <3>2. cfg_step_decode(f) = <<Set({i})>> \o Stored1(i) \o <<ReplyFor({i})>>
        BY <1>3, <2>2 DEF cfg_step_decode
      <3>. HIDE DEF i
      <3>3. cfg_step_decode(f) = <<Set({i}), Open, Write(i), Close, ReplyFor({i})>>
        BY <3>2, StoredAndAnswered, Zenon
      <3>. QED BY <3>1, <3>3, AnswerHandler
    <2>. QED BY <2>1, <2>2
  <1>. QED BY <1>1, <1>2, <1>3

(* cfg_sys_parm: the limits of the system.                                 *)
LEMMA LimitsHandler ==
  ASSUME NEW f
  PROVE  Handler(cfg_sys_parm(f))
  <1>1. PICK o \in {Open, TryOpen} : o = IF create_table_flag THEN TryOpen ELSE Open
    BY Zenon
  <1>2. cfg_sys_parm(f) = <<Set({Limits}), o, Write(Limits), Close, ReplyFor({Limits})>>
    BY <1>1, Zenon DEF cfg_sys_parm
  <1>3. Limits \in Answerable
    BY DEF Answerable
  <1>. QED BY <1>2, <1>3, AnswerHandler

(* set_step_global_decode: the configuration of a node, or of all of them  *)
(* in one transaction.                                                     *)
LEMMA GlobalHandler ==
  ASSUME NEW f \in Frame, f.at # MAX_NODE
  PROVE  Handler(set_step_global_decode(f))
  <1>1. CASE f.at = All
    <2>. DEFINE replies == [k \in 1..Cardinality(Node \ running) |-> Reply]
                a == <<Set(Of("config", Node \ running))>> \o replies
    <2>1. PICK c \in Nat : c = Cardinality(Node \ running)
      BY NodesListed
    <2>2. replies \in Seq(Easy)
      <3>1. [k \in 1..c |-> Reply] \in [1..c -> Easy]
        BY EasySteps
      <3>2. [k \in 1..c |-> Reply] \in Seq(Easy)
        BY <3>1, SeqDef
      <3>. QED BY <2>1, <3>2
    <2>3. <<Set(Of("config", Node \ running))>> \in Seq(Easy)
      BY EasySteps, EasyTuples DEF NodeKinds
    <2>. HIDE DEF replies
    <2>4. a \in Seq(Easy)
      BY <2>2, <2>3, ConcatProperties
    <2>. HIDE DEF a
    <2>. DEFINE steps == Each("config", Node)
    <2>5. /\ steps \in Seq(GoodStep)
          /\ \A k \in 1..Len(steps) : \E n \in Node : steps[k] = Write(<<"config", n>>)
      <3>1. "config" \in NodeKinds /\ Node \in SUBSET Node
        BY DEF NodeKinds
      <3>. QED BY <3>1, EachLemma
    <2>6. ASSUME NEW k \in 1..Len(steps)
          PROVE  steps[k].op \in {"write", "delete"} /\ steps[k].on \cap Settings = {}
      <3>1. PICK n \in Node : steps[k] = Write(<<"config", n>>)
        BY <2>5, <2>6
      <3>. HIDE DEF steps
      <3>. QED BY <3>1 DEF Write, Step, Settings, Net, Limits
    <2>7. set_step_global_decode(f) = a \o InOne(steps)
      BY <1>1 DEF set_step_global_decode, a, replies
    <2>. HIDE DEF steps
    <2>. QED BY <2>4, <2>5, <2>6, <2>7, TransactionHandler
  <1>2. CASE f.at # All /\ (f.at > MAX_NODE \/ f.at \in running)
    <2>1. set_step_global_decode(f) = <<>>
      BY <1>2 DEF set_step_global_decode
    <2>. QED BY <2>1, EasyTuples, EasyHandler
  <1>3. CASE f.at # All /\ ~(f.at > MAX_NODE \/ f.at \in running)
    <2>. DEFINE i == <<"config", f.at>>
    <2>1. i \in Answerable
      BY <1>3, OneNode DEF Answerable
    <2>2. set_step_global_decode(f) = <<Set({i})>> \o Stored1(i) \o <<ReplyFor({i})>>
      BY <1>3 DEF set_step_global_decode
    <2>. HIDE DEF i
    <2>3. set_step_global_decode(f) = <<Set({i}), Open, Write(i), Close, ReplyFor({i})>>
      BY <2>2, StoredAndAnswered, Zenon
    <2>. QED BY <2>1, <2>3, AnswerHandler
  <1>. QED BY <1>1, <1>2, <1>3

(* send_signal_bat_cap: capacities of a range of nodes.                    *)
LEMMA CapacityHandler ==
  ASSUME NEW f \in Frame
  PROVE  Handler(send_signal_bat_cap(f))
  <1>1. CASE f.at + f.count > MAX_NODE + 1
    <2>. DEFINE w == <<Open>>
    <2>1. send_signal_bat_cap(f) = w
      BY <1>1 DEF send_signal_bat_cap
    <2>2. Open \in GoodStep
      BY DEF Open, Step, GoodStep, Ops
    <2>3. w \in Seq(GoodStep) /\ \A k \in 1..Len(w) : w[k] = Open
      BY <2>2
    <2>4. Open.op = "open"
      BY DEF Open, Step
    <2>. HIDE DEF w
    <2>5. Mute(w)
      BY <2>3, <2>4 DEF Mute, SocketOps
    <2>6. Bracketed(w)
      BY <2>3, <2>4, NoVisitBracketed DEF Uses
    <2>. QED BY <2>1, <2>3, <2>5, <2>6, MuteHandler
  <1>2. CASE ~(f.at + f.count > MAX_NODE + 1)
    <2>. DEFINE writes == Each("config", Named(f))
                sets == [k \in 1..Len(writes) |-> Set(writes[k].on)]
    <2>1. send_signal_bat_cap(f) =
            <<Open>> \o Alternately(sets, writes) \o <<ReplyFor(Of("config", Named(f))), Close>>
      BY <1>2 DEF send_signal_bat_cap
    <2>2. Named(f) \in SUBSET Node
      BY DEF Named
    <2>. HIDE DEF writes
    <2>3. writes = Each("config", Named(f)) /\ sets = [k \in 1..Len(writes) |-> Set(writes[k].on)]
      BY DEF writes
    <2>. HIDE DEF sets
    <2>. QED BY <2>1, <2>2, <2>3, SignalHandler
  <1>. QED BY <1>1, <1>2

(* read_history_status_decode opens and closes, or gives up.               *)
LEMMA StatusHandler ==
  ASSUME NEW f
  PROVE  Handler(read_history_status_decode(f))
  <1>1. CASE f.at > MAX_NODE
    <2>1. read_history_status_decode(f) = <<>>
      BY <1>1 DEF read_history_status_decode
    <2>. QED BY <2>1, EasyTuples, EasyHandler
  <1>2. CASE ~(f.at > MAX_NODE)
    <2>. DEFINE w == <<TryOpen, Close, Reply>>
    <2>1. read_history_status_decode(f) = w
      BY <1>2 DEF read_history_status_decode
    <2>2. {TryOpen, Close, Reply} \subseteq GoodStep
      <3>1. TryOpen \in GoodStep /\ Close \in GoodStep
        BY DEF TryOpen, Close, Step, GoodStep, Ops
      <3>. QED BY <3>1, EasySteps DEF Easy
    <2>3. w \in Seq(GoodStep) /\ Len(w) = 3 /\ w[1] = TryOpen /\ w[2] = Close /\ w[3] = Reply
      BY <2>2
    <2>4. TryOpen.op = "try" /\ Close.op = "close" /\ Reply.op = "reply" /\ Reply.on = {}
      BY DEF TryOpen, Close, Reply, Step
    <2>. HIDE DEF w
    <2>5. \A k \in 1..Len(w) : k = 1 \/ k = 2 \/ k = 3
      BY <2>3
    <2>6. Mute(w)
      BY <2>3, <2>4, <2>5 DEF Mute, SocketOps
    <2>7. VisitAt(w, 1, 2)
      BY <2>3, <2>4, <2>5 DEF VisitAt, Opening, Uses
    <2>8. OneVisit(w) /\ Len(w) \in Nat
      <3>1. 1 \in 1..3 /\ 2 \in 1..3
        OBVIOUS
      <3>. QED BY <2>3, <2>7, <3>1 DEF OneVisit
    <2>9. Bracketed(w)
      BY <2>8, OneVisitBracketed
    <2>. QED BY <2>1, <2>3, <2>6, <2>9, MuteHandler
  <1>. QED BY <1>1, <1>2

(* read_history_data_decode opens and closes for every node of the range.  *)
LEMMA HistoryDataHandler ==
  ASSUME NEW f \in Frame
  PROVE  Handler(read_history_data_decode(f))
  <1>1. CASE f.at + f.count > MAX_NODE
    <2>1. read_history_data_decode(f) = <<Reply>>
      BY <1>1 DEF read_history_data_decode
    <2>. QED BY <2>1, EasySteps, EasyTuples, EasyHandler
  <1>2. CASE ~(f.at + f.count > MAX_NODE)
    <2>1. PICK m \in Nat : m = f.count
      BY DEF Frame
    <2>. DEFINE a == [k \in 1..m |-> TryOpen]
                b == [k \in 1..m |-> Close]
    <2>2. read_history_data_decode(f) = Alternately(a, b) \o <<Reply>>
      BY <1>2, <2>1 DEF read_history_data_decode
    <2>3. TryOpen \in GoodStep /\ Close \in GoodStep
      BY DEF TryOpen, Close, Step, GoodStep, Ops
    <2>4. a \in [1..m -> GoodStep] /\ b \in [1..m -> GoodStep]
      BY <2>3
    <2>5. a \in Seq(GoodStep) /\ Len(a) = m /\ b \in Seq(GoodStep) /\ Len(b) = m
      BY <2>4, SeqDef
    <2>6. (\A k \in 1..m : a[k] = TryOpen) /\ \A k \in 1..m : b[k] = Close
      OBVIOUS
    <2>. HIDE DEF a, b
    <2>. QED BY <2>2, <2>5, <2>6, HistoryHandler
  <1>. QED BY <1>1, <1>2

(* start_or_stop_decode: a stopped node has its row deleted in a           *)
(* transaction.                                                            *)
LEMMA OrderHandler ==
  ASSUME NEW f \in Frame, f.at # MAX_NODE
  PROVE  Handler(start_or_stop_decode(f))
  <1>0. f.order \in Orders
    BY DEF Frame
  <1>1. Reply \in Easy /\ <<Reply>> \in Seq(Easy)
    BY EasySteps, EasyTuples
  <1>2. CASE f.at = All
    <2>1. Step(f.order, Of("node", Node)) \in Easy /\ Post("delete") \in Easy
      BY <1>0, EasySteps
    <2>2. \/ start_or_stop_decode(f) = <<Reply, Step(f.order, Of("node", Node)), Post("delete")>>
          \/ start_or_stop_decode(f) = <<Reply, Step(f.order, Of("node", Node))>>
      <3>. DEFINE s == Step(f.order, Of("node", Node))
      <3>1. start_or_stop_decode(f) =
              <<Reply>> \o (<<s>> \o (IF f.order = "stop" THEN <<Post("delete")>> ELSE <<>>))
        BY <1>2, ZenonT(30) DEF start_or_stop_decode
      <3>. HIDE DEF s
      <3>2. <<Reply>> \o (<<s>> \o <<Post("delete")>>) = <<Reply, s, Post("delete")>>
        BY OneAndOne, OneAndTwo, Zenon
      <3>3. <<Reply>> \o (<<s>> \o <<>>) = <<Reply, s>>
        BY NothingMore, OneAndOne, Zenon
      <3>. QED BY <3>1, <3>2, <3>3 DEF s
    <2>. QED BY <1>1, <2>1, <2>2, EasyTuples, EasyHandler
  <1>3. CASE f.at # All /\ f.at > MAX_NODE
    <2>1. start_or_stop_decode(f) = <<Reply>> \o <<>>
      BY <1>3, ZenonT(30) DEF start_or_stop_decode
    <2>2. <<Reply>> \o <<>> = <<Reply>>
      BY NothingMore, Zenon
    <2>. QED BY <2>1, <2>2, <1>1, EasyHandler
  <1>4. CASE f.at # All /\ ~(f.at > MAX_NODE)
    <2>. DEFINE n == f.at
                s == Step(f.order, Of("node", {n}))
    <2>1. n \in Node
      BY <1>4, OneNode
    <2>2. start_or_stop_decode(f) = <<Reply>> \o ctrol_node_status(f.order, n)
      BY <1>4, ZenonT(30) DEF start_or_stop_decode
    <2>3. s \in Easy
      BY <1>0, <2>1, EasySteps
    <2>4. CASE f.order # "stop"
      <3>1. ctrol_node_status(f.order, n) = <<s>>
        BY <2>4 DEF ctrol_node_status
      <3>. HIDE DEF s
      <3>2. <<Reply>> \o <<s>> = <<Reply, s>>
        BY OneAndOne, Zenon
      <3>. QED BY <2>2, <2>3, <3>1, <3>2, <1>1, EasyTuples, EasyHandler
    <2>5. CASE f.order = "stop" /\ status[n] \notin {"running", "paused"}
      <3>1. ctrol_node_status(f.order, n) = <<>>
        BY <2>5 DEF ctrol_node_status
      <3>2. <<Reply>> \o <<>> = <<Reply>>
        BY NothingMore, Zenon
      <3>. QED BY <2>2, <3>1, <3>2, <1>1, EasyHandler
    <2>6. CASE f.order = "stop" /\ ~(status[n] \notin {"running", "paused"})
      <3>. DEFINE d == Step("delete", Of("run", {n}))
      <3>1. ctrol_node_status(f.order, n) = <<s>> \o InOne(<<d>>)
        BY <2>6 DEF ctrol_node_status
      <3>2. d \in GoodStep /\ d.op = "delete" /\ d.on \cap Settings = {}
        <4>1. Of("run", {n}) = {<<"run", n>>}
          BY DEF Of
        <4>2. <<"run", n>> \in Things
          BY <2>1 DEF Things, Item, NodeKinds
        <4>. QED BY <4>1, <4>2, <2>1 DEF GoodStep, Step, Ops, Settings, Net, Limits
      <3>. HIDE DEF d, s
      <3>3. /\ <<d>> \in Seq(GoodStep)
            /\ \A k \in 1..Len(<<d>>) : /\ <<d>>[k].op \in {"write", "delete"}
                                        /\ <<d>>[k].on \cap Settings = {}
        BY <3>2
      <3>4. <<Reply>> \o <<s>> \in Seq(Easy)
        <4>1. <<Reply>> \o <<s>> = <<Reply, s>>
          BY OneAndOne, Zenon
        <4>. QED BY <4>1, <1>1, <2>3, EasyTuples
      <3>5. InOne(<<d>>) \in Seq(GoodStep)
        <4>1. \A k \in 1..Len(<<d>>) : <<d>>[k].op \in {"write", "delete"}
          BY <3>3
        <4>. QED BY <3>3, <4>1, TransactionLemma
      <3>6. start_or_stop_decode(f) = (<<Reply>> \o <<s>>) \o InOne(<<d>>)
        <4>1. <<Reply>> \in Seq(GoodStep) /\ <<s>> \in Seq(GoodStep)
          BY <1>1, <2>3 DEF Easy
        <4>. QED BY <2>2, <3>1, <3>5, <4>1, ConcatAssociative
      <3>. QED BY <3>3, <3>4, <3>6, TransactionHandler
    <2>. QED BY <2>4, <2>5, <2>6
  <1>. QED BY <1>2, <1>3, <1>4

(* The handlers that do not go to the database.                            *)
LEMMA EasyHandlers ==
  ASSUME NEW f \in Frame
  PROVE  /\ clr_or_read_step_decode(f) \in Seq(Easy)
         /\ read_group_run_data_decode(f) \in Seq(Easy)
         /\ read_bat_cap(f) \in Seq(Easy)
         /\ node_enable_decode(f) \in Seq(Easy)
         /\ read_step_global_decode(f) \in Seq(Easy)
         /\ ctr_pump_decode(f) \in Seq(Easy) /\ ctr_len_decode(f) \in Seq(Easy)
         /\ read_battery_em(f) \in Seq(Easy)
         /\ read_step_status_decode(f) \in Seq(Easy)
         /\ read_bat_enabling_decode(f) \in Seq(Easy)
         /\ cmp_divide_capacity_decode(f) \in Seq(Easy)
         /\ clr_battery_err(f) \in Seq(Easy)
  <1>1. <<>> \in Seq(Easy) /\ <<Reply>> \in Seq(Easy)
    BY EasySteps, EasyTuples
  <1>2. clr_or_read_step_decode(f) \in {<<>>, <<Reply>>}
    BY DEF clr_or_read_step_decode
  <1>3. read_bat_cap(f) \in {<<>>, <<Reply>>}
    BY DEF read_bat_cap
  <1>4. read_step_global_decode(f) \in {<<>>, <<Reply>>}
    BY DEF read_step_global_decode
  <1>5. read_group_run_data_decode(f) = <<Reply>> /\ ctr_pump_decode(f) = <<Reply>>
        /\ read_battery_em(f) = <<Reply>>
    BY DEF read_group_run_data_decode, ctr_pump_decode, read_battery_em
  <1>6. /\ read_step_status_decode(f) = <<>> /\ read_bat_enabling_decode(f) = <<>>
        /\ cmp_divide_capacity_decode(f) = <<>> /\ clr_battery_err(f) = <<>>
    BY DEF read_step_status_decode, read_bat_enabling_decode, cmp_divide_capacity_decode,
           clr_battery_err
  <1>7. ctr_len_decode(f) \in Seq(Easy)
    <2>1. Step("enable", Of("node", Node)) \in Easy /\ Reply \in Easy
      BY EasySteps
    <2>. QED BY <2>1, EasyTuples DEF ctr_len_decode
  <1>8. node_enable_decode(f) \in Seq(Easy)
    <2>1. Named(f) \in SUBSET Node
      BY DEF Named
    <2>2. PICK o \in {"enable", "disable"} : o = IF f.order = "stop" THEN "disable" ELSE "enable"
      BY Zenon
    <2>3. Step(o, Of("node", Named(f))) \in Easy /\ Reply \in Easy
      BY <2>1, EasySteps
    <2>4. <<Step(o, Of("node", Named(f))), Reply>> \in Seq(Easy)
      BY <2>3, EasyTuples
    <2>5. CASE f.at + f.count > MAX_NODE + 1
      BY <1>1, <2>5 DEF node_enable_decode
    <2>6. CASE ~(f.at + f.count > MAX_NODE + 1)
      BY <2>2, <2>4, <2>6, Zenon DEF node_enable_decode
    <2>. QED BY <2>5, <2>6
  <1>. QED BY <1>1, <1>2, <1>3, <1>4, <1>5, <1>6, <1>7, <1>8

(* Whatever a readable frame makes the server thread do is well formed.    *)
LEMMA FrameHandler ==
  ASSUME NEW f \in Frame, f.at # MAX_NODE
  PROVE  Handler(recvice_server_decode(f))

  <1>1. CASE f.cmd = "CLR_OR_READ_STEP"
    <2>1. recvice_server_decode(f) = clr_or_read_step_decode(f)
      BY <1>1 DEF recvice_server_decode
    <2>. QED BY <2>1, EasyHandlers, EasyHandler

  <1>2. CASE f.cmd = "READ_GROUP_RUN_DATA"
    <2>1. recvice_server_decode(f) = read_group_run_data_decode(f)
      BY <1>2 DEF recvice_server_decode
    <2>. QED BY <2>1, EasyHandlers, EasyHandler

  <1>3. CASE f.cmd = "READ_SINGAL_BAT_CAP"
    <2>1. recvice_server_decode(f) = read_bat_cap(f)
      BY <1>3 DEF recvice_server_decode
    <2>. QED BY <2>1, EasyHandlers, EasyHandler

  <1>4. CASE f.cmd = "NODE_ENABLE"
    <2>1. recvice_server_decode(f) = node_enable_decode(f)
      BY <1>4 DEF recvice_server_decode
    <2>. QED BY <2>1, EasyHandlers, EasyHandler

  <1>5. CASE f.cmd = "READ_STEP_GLOBAL"
    <2>1. recvice_server_decode(f) = read_step_global_decode(f)
      BY <1>5 DEF recvice_server_decode
    <2>. QED BY <2>1, EasyHandlers, EasyHandler

  <1>6. CASE f.cmd = "READ_STEP_STATUS"
    <2>1. recvice_server_decode(f) = read_step_status_decode(f)
      BY <1>6 DEF recvice_server_decode
    <2>. QED BY <2>1, EasyHandlers, EasyHandler

  <1>7. CASE f.cmd = "CTR_PUMP"
    <2>1. recvice_server_decode(f) = ctr_pump_decode(f)
      BY <1>7 DEF recvice_server_decode
    <2>. QED BY <2>1, EasyHandlers, EasyHandler

  <1>8. CASE f.cmd = "READ_BAT_EN"
    <2>1. recvice_server_decode(f) = read_bat_enabling_decode(f)
      BY <1>8 DEF recvice_server_decode
    <2>. QED BY <2>1, EasyHandlers, EasyHandler

  <1>9. CASE f.cmd = "CONTROL_LED"
    <2>1. recvice_server_decode(f) = ctr_len_decode(f)
      BY <1>9 DEF recvice_server_decode
    <2>. QED BY <2>1, EasyHandlers, EasyHandler

  <1>10. CASE f.cmd = "CMP_DIVIDE_CAP"
    <2>1. recvice_server_decode(f) = cmp_divide_capacity_decode(f)
      BY <1>10 DEF recvice_server_decode
    <2>. QED BY <2>1, EasyHandlers, EasyHandler

  <1>11. CASE f.cmd = "READ_BAT_EM"
    <2>1. recvice_server_decode(f) = read_battery_em(f)
      BY <1>11 DEF recvice_server_decode
    <2>. QED BY <2>1, EasyHandlers, EasyHandler

  <1>12. CASE f.cmd = "CLR_BAT_ERR"
    <2>1. recvice_server_decode(f) = clr_battery_err(f)
      BY <1>12 DEF recvice_server_decode
    <2>. QED BY <2>1, EasyHandlers, EasyHandler

  <1>13. CASE f.cmd = "CFG_STEP"
    <2>1. recvice_server_decode(f) = cfg_step_decode(f)
      BY <1>13 DEF recvice_server_decode
    <2>. QED BY <2>1, StepsHandler

  <1>14. CASE f.cmd = "SYS_PARM"
    <2>1. recvice_server_decode(f) = cfg_sys_parm(f)
      BY <1>14 DEF recvice_server_decode
    <2>. QED BY <2>1, LimitsHandler

  <1>15. CASE f.cmd = "SIGNAL_BAT_CAP"
    <2>1. recvice_server_decode(f) = send_signal_bat_cap(f)
      BY <1>15 DEF recvice_server_decode
    <2>. QED BY <2>1, CapacityHandler

  <1>16. CASE f.cmd = "SET_STEP_GLOBAL"
    <2>1. recvice_server_decode(f) = set_step_global_decode(f)
      BY <1>16 DEF recvice_server_decode
    <2>. QED BY <2>1, GlobalHandler

  <1>17. CASE f.cmd = "SEARCH_HISTORY_DATA"
    <2>1. recvice_server_decode(f) = read_history_status_decode(f)
      BY <1>17 DEF recvice_server_decode
    <2>. QED BY <2>1, StatusHandler

  <1>18. CASE f.cmd = "READ_NODE_HIS_DATA"
    <2>1. recvice_server_decode(f) = read_history_data_decode(f)
      BY <1>18 DEF recvice_server_decode
    <2>. QED BY <2>1, HistoryDataHandler

  <1>19. CASE f.cmd = "START_STOP_CMD"
    <2>1. recvice_server_decode(f) = start_or_stop_decode(f)
      BY <1>19 DEF recvice_server_decode
    <2>. QED BY <2>1, OrderHandler

  <1>20. CASE f.cmd = "unknown"
    <2>1. recvice_server_decode(f) = <<>>
      BY <1>20 DEF recvice_server_decode
    <2>. QED BY <2>1, EasyTuples, EasyHandler
  <1>21. f.cmd \in Commands
    BY DEF Frame
  <1>. QED
    BY <1>1, <1>2, <1>3, <1>4, <1>5, <1>6, <1>7, <1>8, <1>9, <1>10, <1>11, <1>12, <1>13,
       <1>14, <1>15, <1>16, <1>17, <1>18, <1>19, <1>20, <1>21, Zenon
       DEF Commands

(* Whatever the frame, what the server thread does with it has the shape,  *)
(* prepares its answers and sets limits before it stores them.             *)
LEMMA ReadableHandler ==
  ASSUME NEW f \in Frame, f.at # MAX_NODE
  PROVE  Handler(Readable(f))
  <1>1. Readable(f) = <<Hang>> \/ Readable(f) = <<>> \/ Readable(f) = recvice_server_decode(f)
    BY DEF Readable
  <1>2. <<Hang>> \in Seq(Easy)
    BY EasySteps, EasyTuples
  <1>. QED BY <1>1, <1>2, FrameHandler, EasyTuples, EasyHandler

(* What the other threads set out to do.                                   *)
Others(t, w) == w \in Seq(GoodStep) /\ Shape(t, w) /\ ~Inside(w)

(* Functions of the save and the control thread.                           *)
LEMMA SavingShape ==
  ASSUME NEW t \in {"save", "control"}, NEW w \in Seq(GoodStep), OneVisit(w),
         \A k \in 1..Len(w) : /\ w[k].op \in Opening \cup Uses
                              /\ w[k].op = "write" => w[k].on \cap Settings = {}
  PROVE  Others(t, w)
  <1>1. Bracketed(w)
    <2>1. Len(w) \in Nat
      BY LenProperties
    <2>. QED BY <2>1, OneVisitBracketed
  <1>2. Plain(w) /\ StoredAfter(w)
    BY DEF Plain, StoredAfter, Opening, Uses
  <1>3. Part(t, w)
    BY DEF Part, Settings
  <1>4. EndsBound(t, w)
    BY DEF EndsBound
  <1>. QED BY <1>1, <1>2, <1>3, <1>4 DEF Others, Shape, Bracketed

(* One transaction of the save or the control thread.                      *)
LEMMA TransactionShape ==
  ASSUME NEW t \in {"save", "control"}, NEW steps \in Seq(GoodStep),
         \A k \in 1..Len(steps) : /\ steps[k].op \in {"write", "delete"}
                                  /\ steps[k].on \cap Settings = {}
  PROVE  Others(t, InOne(steps))
  <1>. DEFINE w == InOne(steps)
  <1>1. /\ w \in Seq(GoodStep) /\ OneVisit(w)
        /\ \A k \in 1..Len(w) : \/ w[k] \in {Open, Begin, Commit, Close}
                               \/ \E j \in 1..Len(steps) : w[k] = steps[j]
    BY TransactionLemma
  <1>2. \A s \in {Open, Begin, Commit, Close} : s.op \in (Opening \cup Uses) \ {"write"}
    BY DEF Open, Begin, Commit, Close, Step, Opening, Uses
  <1>. HIDE DEF w
  <1>3. ASSUME NEW k \in 1..Len(w)
        PROVE  /\ w[k].op \in Opening \cup Uses
               /\ w[k].op = "write" => w[k].on \cap Settings = {}
    <2>1. CASE w[k] \in {Open, Begin, Commit, Close}
      BY <2>1, <1>2
    <2>2. CASE \E j \in 1..Len(steps) : w[k] = steps[j]
      BY <2>2 DEF Uses
    <2>. QED BY <2>1, <2>2, <1>1
  <1>4. Others(t, w)
    BY <1>1, <1>3, SavingShape
  <1>. QED BY <1>4 DEF w

(* One transaction with a write for every node of a set.                   *)
LEMMA EachShape ==
  ASSUME NEW t \in {"save", "control"}, NEW kind \in NodeKinds, NEW nodes \in SUBSET Node
  PROVE  Others(t, InOne(Each(kind, nodes)))
  <1>. DEFINE steps == Each(kind, nodes)
  <1>1. /\ steps \in Seq(GoodStep)
        /\ \A k \in 1..Len(steps) : \E n \in nodes : steps[k] = Write(<<kind, n>>)
    BY EachLemma
  <1>2. \A n : /\ Write(<<kind, n>>).op = "write"
               /\ Write(<<kind, n>>).on \cap Settings = {}
    BY DEF Write, Step, Settings, Net, Limits, NodeKinds
  <1>. HIDE DEF steps
  <1>3. \A k \in 1..Len(steps) : /\ steps[k].op \in {"write", "delete"}
                                 /\ steps[k].on \cap Settings = {}
    BY <1>1, <1>2
  <1>4. Others(t, InOne(steps))
    BY <1>1, <1>3, TransactionShape
  <1>. QED BY <1>4 DEF steps

(* The steps of the programs and the running data, as the save thread      *)
(* stores them.                                                            *)
LEMMA SaveShapes ==
  Others("save", SavesSteps) /\ Others("save", SavesRuns)
  BY EachShape DEF SavesSteps, SavesRuns, NodeKinds, running

(* The history, which is inserted without a BEGIN.                         *)
LEMMA HistoryShape ==
  Others("save", SavesHistory)
  <1>. DEFINE w == <<Open, Step("history", {}), Commit, Close>>
  <1>1. {Open, Step("history", {}), Commit, Close} \subseteq GoodStep
    BY DEF GoodStep, Open, Commit, Close, Step, Ops
  <1>2. /\ w \in Seq(GoodStep) /\ Len(w) = 4
        /\ w[1] = Open /\ w[2] = Step("history", {}) /\ w[3] = Commit /\ w[4] = Close
    BY <1>1
  <1>3. w = SavesHistory
    BY DEF SavesHistory
  <1>. HIDE DEF w
  <1>4. w[1].op = "open" /\ w[2].op = "history" /\ w[3].op = "commit" /\ w[4].op = "close"
    BY <1>2 DEF Open, Commit, Close, Step
  <1>5. \A k \in 1..Len(w) : k = 1 \/ k = 2 \/ k = 3 \/ k = 4
    BY <1>2
  <1>6. OneVisit(w)
    <2>1. VisitAt(w, 1, 4)
      BY <1>4, <1>5 DEF VisitAt, Opening, Uses
    <2>2. 1 \in 1..4 /\ 4 \in 1..4
      OBVIOUS
    <2>. QED BY <2>1, <2>2, <1>2 DEF OneVisit
  <1>7. \A k \in 1..Len(w) : /\ w[k].op \in Opening \cup Uses
                             /\ w[k].op # "write"
    BY <1>4, <1>5 DEF Opening, Uses
  <1>. QED BY <1>2, <1>3, <1>6, <1>7, SavingShape

(* The rows of all runs, deleted in one transaction.                       *)
LEMMA DeletesShape ==
  Others("save", DeletesRuns)
  <1>1. PICK m \in Nat : m = MAX_NODE
    BY DatabaseAssumption
  <1>. DEFINE w == [k \in 1..m |-> Step("delete", Of("run", {k - 1}))]
  <1>2. ASSUME NEW k \in 1..m
        PROVE  /\ w[k] \in GoodStep /\ w[k].op = "delete"
               /\ w[k].on \cap Settings = {}
    <2>1. PICK n \in Node : n = k - 1
      BY <1>1 DEF Node
    <2>2. Of("run", {n}) = {<<"run", n>>} /\ <<"run", n>> \in Item
      BY DEF Of, Item, NodeKinds
    <2>3. {<<"run", n>>} \subseteq Things
      BY <2>2 DEF Things
    <2>4. w[k] = Step("delete", {<<"run", n>>})
      BY <2>1, <2>2
    <2>. HIDE DEF w
    <2>. QED BY <2>3, <2>4 DEF GoodStep, Step, Ops, Settings, Net, Limits
  <1>3. w \in [1..m -> GoodStep]
    BY <1>2
  <1>4. w \in Seq(GoodStep) /\ Len(w) = m
    BY <1>3, SeqDef
  <1>5. DeletesRuns = InOne(w)
    BY <1>1 DEF DeletesRuns
  <1>. HIDE DEF w
  <1>6. \A k \in 1..Len(w) : /\ w[k].op \in {"write", "delete"}
                             /\ w[k].on \cap Settings = {}
    BY <1>2, <1>4
  <1>. QED BY <1>4, <1>5, <1>6, TransactionShape

(* The end of a run, which the control thread stores.                      *)
LEMMA CompleteShape ==
  ASSUME NEW n \in Node
  PROVE  Others("control", InOne(<<Write(<<"run", n>>)>>))
  <1>. DEFINE w == <<Write(<<"run", n>>)>>
  <1>1. Write(<<"run", n>>) \in GoodStep
    <2>1. <<"run", n>> \in Item
      BY DEF Item, NodeKinds
    <2>. QED BY <2>1 DEF GoodStep, Write, Step, Ops, Things
  <1>2. w \in Seq(GoodStep) /\ \A k \in 1..Len(w) : w[k] = Write(<<"run", n>>)
    BY <1>1
  <1>3. Write(<<"run", n>>).op = "write" /\ Write(<<"run", n>>).on \cap Settings = {}
    BY DEF Write, Step, Settings, Net, Limits
  <1>. HIDE DEF w
  <1>4. Others("control", InOne(w))
    BY <1>2, <1>3, TransactionShape
  <1>. QED BY <1>4 DEF w

ConfirmSteps == <<TryOpen, Write(Net), Close>> \o NewSocket

(* What the LCD thread does when the network settings are confirmed.       *)
LEMMA ConfirmShape ==
  /\ Others("lcd", ConfirmSteps) /\ ConfirmSteps # <<>>
  /\ \A k \in 1..Len(ConfirmSteps) :
       ConfirmSteps[k].op = "write" => ConfirmSteps[k].on = {Net}
  <1>. DEFINE S1 == Step("socket", {})
              S2 == Step("setsockopt", {})
              S3 == Step("bind", {})
              w == <<TryOpen, Write(Net), Close, S1, S2, S3>>
  <1>1. w = ConfirmSteps
    <2>1. ConfirmSteps = <<TryOpen, Write(Net), Close>> \o <<S1, S2, S3>>
      BY DEF ConfirmSteps, NewSocket
    <2>. HIDE DEF S1, S2, S3
    <2>2. <<TryOpen, Write(Net), Close>> \o <<S1, S2, S3>> = w
      BY ThreeAndThree
    <2>. QED BY <2>1, <2>2
  <1>2. {TryOpen, Write(Net), Close, S1, S2, S3} \subseteq GoodStep
    <2>1. Net \in Item /\ Net \in Things
      BY DEF Item, Things, Settings
    <2>. QED BY <2>1 DEF GoodStep, TryOpen, Write, Close, Step, Ops
  <1>3. /\ w \in Seq(GoodStep) /\ Len(w) = 6
        /\ w[1] = TryOpen /\ w[2] = Write(Net) /\ w[3] = Close
        /\ w[4] = S1 /\ w[5] = S2 /\ w[6] = S3
    BY <1>2
  <1>. HIDE DEF w
  <1>4. /\ w[1].op = "try" /\ w[2].op = "write" /\ w[2].on = {Net} /\ w[3].op = "close"
        /\ w[4].op = "socket" /\ w[5].op = "setsockopt" /\ w[6].op = "bind"
    BY <1>3 DEF TryOpen, Write, Close, Step
  <1>5. \A k \in 1..Len(w) : k = 1 \/ k = 2 \/ k = 3 \/ k = 4 \/ k = 5 \/ k = 6
    BY <1>3
  <1>6. OneVisit(w)
    <2>1. VisitAt(w, 1, 3)
      BY <1>4, <1>5 DEF VisitAt, Opening, Uses
    <2>2. 1 \in 1..6 /\ 3 \in 1..6
      OBVIOUS
    <2>. QED BY <2>1, <2>2, <1>3 DEF OneVisit
  <1>7. Bracketed(w)
    <2>1. Len(w) \in Nat
      BY <1>3
    <2>. QED BY <1>6, <2>1, OneVisitBracketed
  <1>8. Plain(w) /\ StoredAfter(w)
    BY <1>4, <1>5 DEF Plain, StoredAfter
  <1>9. Part("lcd", w)
    <2>1. Net # Limits
      BY DEF Net, Limits
    <2>. QED BY <2>1, <1>4, <1>5 DEF Part, Opening, Uses, SocketOps
  <1>10. EndsBound("lcd", w)
    BY <1>3, <1>4 DEF EndsBound
  <1>11. w # <<>>
    <2>1. w \in Seq(GoodStep) /\ Len(w) # 0
      BY <1>3
    <2>. QED BY <2>1, EmptySeq
  <1>12. \A k \in 1..Len(w) : w[k].op = "write" => w[k].on = {Net}
    BY <1>4, <1>5
  <1>. QED BY <1>1, <1>3, <1>7, <1>8, <1>9, <1>10, <1>11, <1>12 DEF Others, Shape, Bracketed

(* What is spent of a scene.                                               *)
LEMMA SpendKeeps ==
  ASSUME left \in Left, NEW what \in {"confirms", "restarts", "opens"}, Spend(what)
  PROVE  left' \in Left /\ left'.scene = left.scene
  BY DEF Spend, Left

(* One step of a thread of its function.                                   *)
LEMMA ThreadsMove ==
  ASSUME NEW t \in Thread, Threads(t)
  PROVE  /\ alive /\ alive' = alive /\ work[t] # <<>>
         /\ \/ work' = [work EXCEPT ![t] = Tail(work[t])]
            \/ work' = [work EXCEPT ![t] = AfterClose(work[t])]
         /\ waits' = waits \/ waits.on = "now"
         /\ left' = left \/ Spend("opens")
  <1>. USE DEF At, Rest
  <1>1. CASE Opens(t)
    BY <1>1 DEF Opens, net
  <1>2. CASE UseDatabase(t)
    BY <1>2 DEF UseDatabase, Statement, net
  <1>3. CASE SetMemory(t)
    BY <1>3 DEF SetMemory, net
  <1>4. CASE udp_send(t)
    BY <1>4 DEF udp_send, net
  <1>5. CASE PostSem(t)
    BY <1>5 DEF PostSem, net
  <1>6. CASE SetStatus(t)
    BY <1>6 DEF SetStatus, net
  <1>7. CASE socket(t)
    BY <1>7 DEF socket
  <1>8. CASE setsockopt(t)
    BY <1>8 DEF setsockopt
  <1>9. CASE bind(t)
    BY <1>9 DEF bind
  <1>. QED
    BY <1>1, <1>2, <1>3, <1>4, <1>5, <1>6, <1>7, <1>8, <1>9 DEF Threads

Works(w) == w \in [Thread -> Seq(GoodStep)] /\ \A t \in Thread : Shape(t, w[t])

(* One thread gets something else to do.                                   *)
LEMMA Replaced ==
  ASSUME NEW f, Works(f), NEW t \in Thread, NEW v \in Seq(GoodStep), Shape(t, v)
  PROVE  Works([f EXCEPT ![t] = v]) /\ [f EXCEPT ![t] = v][t] = v
         /\ \A u \in Thread \ {t} : [f EXCEPT ![t] = v][u] = f[u]
  BY DEF Works

(* What is left after a step, or behind the next close, has the shape      *)
(* still.                                                                  *)
LEMMA RestWorks ==
  ASSUME WorkOK, NEW t \in Thread, work[t] # <<>>,
         NEW v \in {Tail(work[t]), AfterClose(work[t])}
  PROVE  v \in Seq(GoodStep) /\ Shape(t, v) /\ Suffix(v, work[t])
  <1>1. work[t] \in Seq(GoodStep) /\ Shape(t, work[t])
    BY DEF WorkOK
  <1>2. v \in Seq(GoodStep) /\ Suffix(v, work[t])
    BY <1>1, TailSuffix, AfterCloseSuffix
  <1>. QED BY <1>1, <1>2, ShapeLater

(* Nobody has anything to do.                                              *)
LEMMA IdleWorks ==
  /\ Works(Idle)
  /\ \A t \in Thread : Idle[t] = <<>>
  <1>1. <<>> \in Seq(GoodStep) /\ Len(<<>>) = 0
    BY EmptySeq
  <1>2. Mute(<<>>) /\ Bracketed(<<>>)
    BY <1>1, NoVisitBracketed DEF Mute
  <1>3. Plain(<<>>) /\ StoredAfter(<<>>) /\ \A t \in Thread : Part(t, <<>>)
    BY <1>1 DEF Plain, StoredAfter, Part
  <1>4. \A t \in Thread : EndsBound(t, <<>>)
    BY DEF EndsBound
  <1>5. \A t \in Thread : Shape(t, <<>>)
    BY <1>2, <1>3, <1>4 DEF Shape, Bracketed
  <1>. QED BY <1>1, <1>5 DEF Idle, Works

(* A thread other than the server begins a function.                       *)
LEMMA StartsWell ==
  ASSUME Well, NEW t \in Thread, NEW v, Others(t, v), work' = [work EXCEPT ![t] = v],
         t # "server", alive, alive' = alive, waits' = waits, left' \in Left
  PROVE  Well'
  <1>1. Works(work)
    BY DEF Well, WorkOK, Works
  <1>2. Works(work') /\ \A u \in Thread \ {t} : work'[u] = work[u]
    <2>1. v \in Seq(GoodStep) /\ Shape(t, v)
      BY DEF Others
    <2>. QED BY <1>1, <2>1 DEF Works
  <1>3. work'["server"] = work["server"]
    BY <1>2 DEF Thread
  <1>4. waits'.on # "none" => work'["server"] = <<>>
    BY <1>3 DEF Well, WorkOK
  <1>. QED BY <1>2, <1>4 DEF Well, WorkOK, Works

(* The process ends.                                                       *)
LEMMA DeadWell ==
  ASSUME Well, Dead, left' \in Left
  PROVE  Well'
  <1>1. work' = Idle /\ waits' = NotWaiting
    BY DEF Dead
  <1>2. Works(work')
    BY <1>1, IdleWorks
  <1>3. waits'.on = "none"
    BY <1>1 DEF NotWaiting
  <1>. QED BY <1>1, <1>2, <1>3 DEF Well, WorkOK, Works

(* Nothing is done before the power comes.                                 *)
LEMMA WellInit ==
  ASSUME Init
  PROVE  Well
  <1>1. work = Idle /\ waits.on = "none"
    BY DEF Init, NotWaiting
  <1>2. left \in Left
    BY HostServerAssumption DEF Init, Left
  <1>. QED BY <1>1, <1>2, IdleWorks DEF Well, WorkOK, Works

(* A step of a thread leaves what every thread has to do in its shape.     *)
LEMMA WellThread ==
  ASSUME Well, NEW t \in Thread, Threads(t)
  PROVE  Well'
  <1>1. /\ alive /\ alive' = alive /\ work[t] # <<>>
        /\ \/ work' = [work EXCEPT ![t] = Tail(work[t])]
           \/ work' = [work EXCEPT ![t] = AfterClose(work[t])]
        /\ waits' = waits \/ waits.on = "now"
        /\ left' = left \/ Spend("opens")
    BY ThreadsMove
  <1>2. PICK v \in {Tail(work[t]), AfterClose(work[t])} : work' = [work EXCEPT ![t] = v]
    BY <1>1
  <1>3. v \in Seq(GoodStep) /\ Shape(t, v)
    BY <1>1, RestWorks DEF Well
  <1>4. Works(work)
    BY DEF Well, WorkOK, Works
  <1>5. Works(work') /\ \A u \in Thread \ {t} : work'[u] = work[u]
    <2>1. /\ Works([work EXCEPT ![t] = v])
          /\ \A u \in Thread \ {t} : [work EXCEPT ![t] = v][u] = work[u]
      BY <1>3, <1>4, Replaced
    <2>. QED BY <1>2, <2>1
  <1>6. waits'.on # "none" => work'["server"] = <<>>
    <2>1. CASE t = "server"
      BY <1>1, <2>1 DEF Well, WorkOK
    <2>2. CASE t # "server"
      <3>1. work'["server"] = work["server"]
        BY <1>5, <2>2 DEF Thread
      <3>. QED BY <1>1, <3>1 DEF Well, WorkOK
    <2>. QED BY <2>1, <2>2
  <1>7. left' \in Left
    BY <1>1, SpendKeeps DEF Well
  <1>. QED BY <1>1, <1>5, <1>6, <1>7 DEF Well, WorkOK, Works

(* A number of faults is a number.                                         *)
LEMMA FaultsSpent ==
  ASSUME NEW f \in SUBSET StartFaults
  PROVE  Cardinality(f) \in Nat
  <1>1. IsFiniteSet(StartFaults)
    <2>1. \A a : IsFiniteSet({a})
      BY FS_Singleton
    <2>2. IsFiniteSet({"create"} \cup {"load"}) /\ IsFiniteSet({"system"} \cup {"steps"})
      BY <2>1, FS_Union
    <2>3. IsFiniteSet(({"create"} \cup {"load"}) \cup ({"system"} \cup {"steps"}))
      BY <2>2, FS_Union
    <2>4. IsFiniteSet((({"create"} \cup {"load"}) \cup ({"system"} \cup {"steps"})) \cup {"config"})
      BY <2>1, <2>3, FS_Union
    <2>5. StartFaults = (({"create"} \cup {"load"}) \cup ({"system"} \cup {"steps"})) \cup {"config"}
      BY DEF StartFaults
    <2>. QED BY <2>4, <2>5
  <1>. QED BY <1>1, FS_Subset, FS_CardinalityType

(* So does every other step.                                               *)
LEMMA WellStep ==
  ASSUME Well, [Next]_vars
  PROVE  Well'
  <1>1. CASE UNCHANGED vars
    BY <1>1 DEF vars, threads, net, Well, WorkOK
  <1>2. ASSUME NEW t \in Thread, Threads(t) PROVE Well'
    BY <1>2, WellThread
  <1>3. CASE recvfrom
    BY <1>3 DEF recvfrom, threads, Well, WorkOK
  <1>4. CASE TimedOut
    BY <1>4 DEF TimedOut, threads, Well, WorkOK, NotWaiting
  <1>5. CASE Receive
    <2>1. PICK f \in scene.frames : work' = [work EXCEPT !["server"] = Readable(f)]
      BY <1>5 DEF Receive
    <2>2. f \in Frame /\ f.at # MAX_NODE
      BY <2>1, HostServerAssumption DEF Well, Left, scene
    <2>3. Handler(Readable(f))
      BY <2>2, ReadableHandler
    <2>4. Works(work) /\ "server" \in Thread
      BY DEF Well, WorkOK, Works, Thread
    <2>. DEFINE v == Readable(f)
    <2>5. v \in Seq(GoodStep) /\ Shape("server", v)
      BY <2>3 DEF Handler
    <2>. HIDE DEF v
    <2>6. Works(work')
      BY <2>1, <2>4, <2>5, Replaced DEF v
    <2>. QED BY <1>5, <2>6 DEF Receive, Well, WorkOK, Works, NotWaiting
  <1>6. CASE SaveThread
    <2>1. PICK v \in {SavesSteps, SavesRuns, SavesHistory, DeletesRuns} :
            work' = [work EXCEPT !["save"] = v]
      BY <1>6 DEF SaveThread
    <2>2. Others("save", v)
      BY SaveShapes, HistoryShape, DeletesShape
    <2>3. alive /\ alive' = alive /\ waits' = waits /\ left' = left
      BY <1>6 DEF SaveThread, net
    <2>4. "save" \in Thread /\ left' \in Left
      BY <2>3 DEF Well, Thread
    <2>. QED BY <2>1, <2>2, <2>3, <2>4, StartsWell
  <1>7. CASE Complete
    <2>1. PICK n \in Node : work' = [work EXCEPT !["control"] = InOne(<<Write(<<"run", n>>)>>)]
      BY <1>7 DEF Complete, running
    <2>2. Others("control", InOne(<<Write(<<"run", n>>)>>))
      BY CompleteShape
    <2>3. alive /\ alive' = alive /\ waits' = waits /\ left' = left
      BY <1>7 DEF Complete, net
    <2>4. "control" \in Thread /\ left' \in Left
      BY <2>3 DEF Well, Thread
    <2>. QED BY <2>1, <2>2, <2>3, <2>4, StartsWell
  <1>8. CASE Confirm
    <2>1. work' = [work EXCEPT !["lcd"] = ConfirmSteps]
      BY <1>8 DEF Confirm, ConfirmSteps
    <2>2. alive /\ alive' = alive /\ waits' = waits /\ Spend("confirms")
      BY <1>8 DEF Confirm, net
    <2>3. "lcd" \in Thread /\ left' \in Left
      BY <2>2, SpendKeeps DEF Well, Thread
    <2>. QED BY <2>1, <2>2, <2>3, ConfirmShape, StartsWell
  <1>9. CASE PowerOff
    <2>1. left' \in Left
      BY <1>9, SpendKeeps DEF PowerOff, Well
    <2>. QED BY <1>9, <2>1, DeadWell DEF PowerOff
  <1>10. CASE Misuse
    BY <1>10, DeadWell DEF Misuse, Well
  <1>11. CASE PowerOn
    <2>1. PICK f \in SUBSET StartFaults : left' = [left EXCEPT !.faults = @ - Cardinality(f)]
      BY <1>11 DEF PowerOn
    <2>2. PICK c \in Nat : c = Cardinality(f)
      BY FaultsSpent
    <2>3. left' = [left EXCEPT !.faults = @ - c]
      BY <2>1, <2>2
    <2>4. left' \in Left
      BY <2>3 DEF Well, Left
    <2>5. UNCHANGED <<work, waits>> /\ alive'
      BY <1>11 DEF PowerOn
    <2>. QED BY <2>4, <2>5 DEF Well, WorkOK
  <1>. QED
    BY <1>1, <1>2, <1>3, <1>4, <1>5, <1>6, <1>7, <1>8, <1>9, <1>10, <1>11 DEF Next

(* At any time what every thread has still to do has its shape.            *)
LEMMA AlwaysWell == Spec => []Well
  <1>1. Init => Well
    BY WellInit
  <1>2. Well /\ [Next]_vars => Well'
    BY WellStep
  <1>. QED BY <1>1, <1>2, PTL DEF Spec

(* What the steps do to the file and to the handle.                        *)
LEMMA Values ==
  /\ Net \in Item /\ Limits \in Item /\ Net # Limits
  /\ Stored \subseteq Int /\ Absent \in Stored /\ Default \in Stored
  /\ Default \in Held /\ Blank \in Held /\ Blank \notin Stored
  /\ Absent # Default
  /\ \A v \in Held : v # Blank => v \in Stored /\ v # Absent /\ v \in 0..MaxValue
  /\ \A v \in Stored : v # Absent => v \in Held /\ v # Blank /\ v \in 0..MaxValue
  <1>1. MaxValue \in Nat
    BY DatabaseAssumption
  <1>2. Net \in Item /\ Limits \in Item /\ Net # Limits
    BY DEF Item, Settings, Net, Limits
  <1>. QED BY <1>1, <1>2 DEF Stored, Held, Absent, Blank, Default

(* All the file and the handle are about, but for the tables.              *)
Based ==
  /\ disk \in [Item -> Stored] /\ db \in Handle /\ locked \in BOOLEAN
  /\ SameRow(disk) /\ SameRow(db.seen)
  /\ db.tx # "used" => db.seen = disk

(* open_sqlite_db: the new handle sees the file, which does not change.    *)
LEMMA OpenBased ==
  ASSUME Based, NEW ok \in BOOLEAN, open_sqlite_db(ok)
  PROVE  Based' /\ disk' = disk /\ db'.seen = disk /\ db'.tx = "none" /\ db'.open = ok
  BY DEF Based, open_sqlite_db, Handle, SameRow

(* close_sqlite_db: what was not committed is gone.                        *)
LEMMA CloseBased ==
  ASSUME Based, close_sqlite_db
  PROVE  Based' /\ disk' = disk /\ db'.seen = disk /\ db'.tx = "none" /\ ~db'.open
  BY DEF Based, close_sqlite_db, Shut, Handle, SameRow

(* start_commit.                                                           *)
LEMMA BeginBased ==
  ASSUME Based, start_commit
  PROVE  Based' /\ disk' = disk /\ db'.seen = db.seen /\ db'.open = db.open
  BY DEF Based, start_commit, Handle, SameRow

(* stop_commit: the file becomes what the handle has seen, or stays.       *)
LEMMA CommitBased ==
  ASSUME Based, stop_commit
  PROVE  Based' /\ db'.seen = db.seen /\ db'.open = db.open /\ disk' \in {disk, db.seen}
  BY DEF Based, stop_commit, Handle, SameRow

(* insert_history: none of the items changes.                              *)
LEMMA HistoryBased ==
  ASSUME Based, insert_history
  PROVE  Based' /\ disk' = disk /\ db'.seen = db.seen /\ db'.open = db.open
  BY DEF Based, insert_history, Handle, SameRow

(* A statement that changes an item; a row of the settings is never taken  *)
(* away, so both its parts stay or are absent together.                    *)
LEMMA ChangeBased ==
  ASSUME Based, NEW i \in Item, NEW v \in Stored, i \in Settings => v # Absent, Change(i, v)
  PROVE  Based'
  <1>1. CASE ~Writes(i)
    BY <1>1 DEF Change, Based, SameRow
  <1>2. CASE Writes(i)
    <2>1. PICK x \in {"none", "begun", "used"} : x = IF db.tx = "none" THEN db.tx ELSE "used"
      BY DEF Based, Handle
    <2>2. /\ db' = [db EXCEPT !.seen[i] = v, !.tx = x]
          /\ disk' = IF db.tx = "none" THEN [disk EXCEPT ![i] = v] ELSE disk
          /\ locked' = locked
      BY <1>2, <2>1 DEF Change
    <2>3. db'.seen = [db.seen EXCEPT ![i] = v] /\ db'.tx = x /\ db' \in Handle
      BY <2>2 DEF Based, Handle
    <2>4. disk' \in [Item -> Stored]
      BY <2>2 DEF Based
    <2>5. i \in Settings => db.seen[i] # Absent
      BY <1>2 DEF Writes
    <2>6. SameRow([db.seen EXCEPT ![i] = v])
      <3>1. CASE i \in Settings
        <4>1. db.seen[Net] # Absent /\ db.seen[Limits] # Absent
          BY <3>1, <2>5 DEF Settings, Based, SameRow
        <4>2. db.seen \in [Item -> Stored]
          BY DEF Based, Handle
        <4>. QED BY <3>1, <4>1, <4>2, Values DEF SameRow
      <3>2. CASE i \notin Settings
        <4>1. i # Net /\ i # Limits /\ db.seen \in [Item -> Stored]
          BY <3>2 DEF Settings, Based, Handle
        <4>. QED BY <4>1, Values DEF SameRow, Based
      <3>. QED BY <3>1, <3>2
    <2>7. db.tx = "none" => disk' = db'.seen
      BY <2>2, <2>3 DEF Based
    <2>8. SameRow(disk')
      BY <2>2, <2>3, <2>6, <2>7 DEF Based
    <2>9. db'.tx # "used" => db'.seen = disk'
      BY <2>1, <2>3, <2>7
    <2>. QED BY <2>2, <2>3, <2>4, <2>6, <2>8, <2>9 DEF Based
  <1>. QED BY <1>1, <1>2

(* The step at the head of what a thread has to do.                        *)
LEMMA HeadStep ==
  ASSUME Well, NEW t \in Thread, work[t] # <<>>
  PROVE  /\ work[t] \in Seq(GoodStep) /\ Shape(t, work[t])
         /\ 1 \in 1..Len(work[t]) /\ Head(work[t]) = work[t][1]
         /\ On(t) = work[t][1].on /\ work[t][1] \in GoodStep
  <1>1. work[t] \in Seq(GoodStep) /\ Shape(t, work[t])
    BY DEF Well, WorkOK
  <1>2. Head(work[t]) = work[t][1] /\ Len(work[t]) \in Nat \ {0}
    BY <1>1, TailSuffix
  <1>3. 1 \in 1..Len(work[t])
    BY <1>2
  <1>4. work[t][1] \in GoodStep
    BY <1>1, <1>3, ElementOfSeq
  <1>. QED BY <1>1, <1>2, <1>3, <1>4 DEF On

(* What is written is a value, never the zeros of memory not filled yet.   *)
LEMMA WrittenValue ==
  ASSUME Well, MemoryOK, NEW t \in Thread, At(t, "write"), NEW i \in On(t)
  PROVE  /\ i \in Item /\ On(t) = {i} /\ mem[i] \in Stored /\ mem[i] # Absent
         /\ mem[i] # Blank
         /\ i = Net => t = "lcd"
         /\ i = Limits => t = "server"
  <1>1. work[t] # <<>> /\ Head(work[t]).op = "write"
    BY DEF At
  <1>2. /\ Shape(t, work[t]) /\ 1 \in 1..Len(work[t]) /\ work[t][1].op = "write"
        /\ On(t) = work[t][1].on /\ work[t][1] \in GoodStep
    BY <1>1, HeadStep
  <1>3. i \in Item /\ On(t) = {i}
    BY <1>2 DEF GoodStep
  <1>4. i = Net => t = "lcd"
    BY <1>2, <1>3 DEF Shape, Part
  <1>5. i = Limits => t = "server"
    BY <1>2, <1>3 DEF Shape, Part
  <1>6. mem[i] # Blank
    <2>1. CASE i = Net
      BY <2>1, <1>1, <1>4 DEF MemoryOK
    <2>2. CASE i = Limits
      <3>1. LimitsReady(mem, work[t]) /\ Limits \in work[t][1].on
        BY <2>2, <1>2, <1>5 DEF MemoryOK
      <3>2. mem[Limits] # Blank \/ \E l \in 1..1-1 : TRUE
        BY <1>2, <3>1 DEF LimitsReady
      <3>. QED BY <2>2, <3>2
    <2>3. CASE i \notin Settings
      BY <2>3, <1>3 DEF MemoryOK
    <2>. QED BY <2>1, <2>2, <2>3 DEF Settings
  <1>7. mem[i] \in Held
    BY <1>3 DEF MemoryOK
  <1>. QED BY <1>3, <1>4, <1>5, <1>6, <1>7, Values

(* Every statement of a thread on the handle.                              *)
LEMMA UseBased ==
  ASSUME Well, MemoryOK, Based, NEW t \in Thread, UseDatabase(t)
  PROVE  Based'
  <1>0. Statement(t)
    BY DEF UseDatabase
  <1>1. CASE At(t, "begin") /\ start_commit
    BY <1>1, BeginBased
  <1>2. CASE At(t, "commit") /\ stop_commit
    BY <1>2, CommitBased
  <1>3. CASE At(t, "close") /\ close_sqlite_db
    BY <1>3, CloseBased
  <1>4. CASE At(t, "history") /\ insert_history
    BY <1>4, HistoryBased
  <1>5. CASE At(t, "delete") /\ \E i \in On(t) : delete_bat_runningdata(i[2])
    <2>1. PICK i \in On(t) : Change(<<"run", i[2]>>, Absent)
      BY <1>5 DEF delete_bat_runningdata
    <2>2. work[t] # <<>> /\ Head(work[t]).op = "delete"
      BY <1>5 DEF At
    <2>3. work[t][1].op = "delete" /\ On(t) = work[t][1].on /\ work[t][1] \in GoodStep
      BY <2>2, HeadStep
    <2>4. PICK n \in Node : i = <<"run", n>>
      BY <2>3 DEF GoodStep
    <2>5. <<"run", n>> \in Item /\ <<"run", n>> \notin Settings
      BY DEF Item, NodeKinds, Settings, Net, Limits
    <2>6. Change(<<"run", n>>, Absent)
      BY <2>1, <2>4
    <2>. QED BY <2>5, <2>6, Values, ChangeBased
  <1>6. CASE At(t, "write") /\ \E i \in On(t) :
               CASE i = Net    -> update_net_config_values
                 [] i = Limits -> update_sys_config_values
                 [] OTHER      -> save_item(i)
    <2>1. PICK i \in On(t) : Change(i, mem[i])
      BY <1>6 DEF update_net_config_values, update_sys_config_values, save_item
    <2>2. i \in Item /\ mem[i] \in Stored /\ mem[i] # Absent
      BY <1>6, WrittenValue
    <2>. QED BY <2>1, <2>2, ChangeBased
  <1>. QED BY <1>0, <1>1, <1>2, <1>3, <1>4, <1>5, <1>6 DEF Statement

(* Power-up leaves a file and a handle of that kind, and settings that are *)
(* blank only if both ways to them have failed.                            *)
LEMMA PowerUpBased ==
  ASSUME StoreOK, NEW f \in SUBSET StartFaults, PowerUp(f)
  PROVE  /\ StoreOK'
         /\ mem' \in [Item -> Held]
         /\ \A i \in Item \ Settings : mem'[i] # Blank
         /\ \/ \A i \in Settings : mem'[i] # Blank
            \/ create_table_flag' /\ "load" \in f
         /\ ~db'.open /\ db'.tx = "none" /\ db'.seen = disk'
         /\ f = {} => /\ tables' /\ ~locked' /\ ~create_table_flag'
                      /\ disk'[Net] # Absent
                      /\ \A i \in Settings : mem'[i] = disk'[i]
                      /\ \A i \in Item \ Settings : disk'[i] = disk[i]
                      /\ \A i \in Item \ Settings : disk[i] # Absent => mem'[i] = disk[i]
                      /\ disk[Net] # Absent => disk' = disk
  <1>. DEFINE found == init_sysconfig_opera(f)
              new == [i \in Item |-> IF i \in Settings THEN Default ELSE disk[i]]
  <1>1. /\ creat_data_db_and_table(f)
        /\ disk' = IF found = 0 THEN set_sys_config_values ELSE disk
        /\ mem' = [i \in Item |-> IF i \in Settings THEN LoadedSettings(found)[i] ELSE Recovered(i)]
        /\ db' = Shut(disk')
    BY DEF PowerUp
  <1>2. tables' \in BOOLEAN /\ locked' \in BOOLEAN /\ create_table_flag' \in BOOLEAN
    BY <1>1 DEF creat_data_db_and_table
  <1>3. /\ disk \in [Item -> Stored] /\ SameRow(disk)
        /\ Net \in Item /\ Limits \in Item
    BY Values DEF StoreOK
  <1>4. new \in [Item -> Stored] /\ new[Net] = Default /\ new[Limits] = Default
    BY <1>3, Values DEF Settings
  <1>5. disk' \in {disk, new} /\ (found = 0 \/ disk' = disk)
    BY <1>1 DEF set_sys_config_values
  <1>6. \/ found = 1 /\ disk[Net] # Absent /\ tables' /\ "load" \notin f
        \/ found = 0
        \/ found = -1 /\ create_table_flag' /\ "load" \in f
    BY DEF init_sysconfig_opera
  <1>. HIDE DEF found, new
  <1>7. disk' \in [Item -> Stored] /\ SameRow(disk')
    BY <1>3, <1>4, <1>5 DEF SameRow
  <1>8. db' \in Handle /\ db'.seen = disk' /\ db'.tx = "none" /\ db'.open = FALSE
    BY <1>1, <1>7 DEF Shut, Handle
  <1>9. ASSUME NEW i \in Item \ Settings
        PROVE  mem'[i] \in Held /\ mem'[i] # Blank
    <2>1. mem'[i] = Recovered(i)
      BY <1>1, <1>9
    <2>2. Recovered(i) = Default \/ (Recovered(i) = disk[i] /\ disk[i] # Absent)
      BY DEF Recovered
    <2>3. disk[i] \in Stored
      BY <1>3
    <2>. QED BY <2>1, <2>2, <2>3, Values DEF Default, Blank
  <1>10. ASSUME NEW i \in Settings
         PROVE  /\ mem'[i] \in Held
                /\ mem'[i] # Blank \/ (create_table_flag' /\ "load" \in f)
                /\ found = 1 => mem'[i] = disk[i]
                /\ found = 0 => mem'[i] = Default
    <2>1. i \in Item
      BY DEF Item
    <2>2. mem'[i] = LoadedSettings(found)[i]
      BY <1>1, <2>1
    <2>3. LoadedSettings(found)[i] = CASE found = 1 -> disk[i]
                                       [] found = 0 -> Default
                                       [] OTHER -> Blank
      BY DEF LoadedSettings
    <2>4. found = 1 => mem'[i] = disk[i]
      BY <2>2, <2>3
    <2>5. found = 0 => mem'[i] = Default
      BY <2>2, <2>3
    <2>6. found = -1 => mem'[i] = Blank
      BY <2>2, <2>3
    <2>7. ASSUME found = 1, disk[Net] # Absent PROVE mem'[i] \in Held /\ mem'[i] # Blank
      <3>1. disk[i] # Absent /\ disk[i] \in Stored
        BY <2>7, <1>3 DEF SameRow, Settings
      <3>. QED BY <2>4, <2>7, <3>1, Values
    <2>8. ASSUME found = 0 PROVE mem'[i] \in Held /\ mem'[i] # Blank
      <3>1. Default # Blank
        BY DEF Default, Blank
      <3>. QED BY <2>5, <2>8, <3>1, Values
    <2>9. found = -1 => mem'[i] \in Held
      BY <2>6, Values
    <2>. QED BY <1>6, <2>4, <2>5, <2>7, <2>8, <2>9
  <1>11. mem' \in [Item -> Held]
    <2>1. mem' = [i \in Item |-> mem'[i]]
      BY <1>1
    <2>2. \A i \in Item : mem'[i] \in Held
      BY <1>9, <1>10
    <2>. QED BY <2>1, <2>2
  <1>12. ASSUME f = {}
         PROVE  /\ tables' /\ ~locked' /\ ~create_table_flag'
                /\ disk'[Net] # Absent
                /\ \A i \in Settings : mem'[i] = disk'[i]
                /\ \A i \in Item \ Settings : disk'[i] = disk[i]
                /\ \A i \in Item \ Settings : disk[i] # Absent => mem'[i] = disk[i]
                /\ disk[Net] # Absent => disk' = disk
    <2>1. tables' /\ ~locked' /\ ~create_table_flag'
      BY <1>1, <1>12 DEF creat_data_db_and_table, Made
    <2>2. found = IF disk[Net] # Absent THEN 1 ELSE 0
      BY <2>1, <1>12 DEF init_sysconfig_opera, found
    <2>3. CASE disk[Net] # Absent
      <3>1. found = 1 /\ disk' = disk
        BY <2>2, <2>3, <1>1
      <3>2. \A i \in Settings : mem'[i] = disk'[i]
        BY <3>1, <1>10
      <3>3. \A i \in Item \ Settings : disk[i] # Absent => mem'[i] = disk[i]
        BY <2>1, <1>1 DEF Recovered
      <3>. QED BY <2>1, <2>3, <3>1, <3>2, <3>3
    <2>4. CASE disk[Net] = Absent
      <3>1. found = 0
        BY <2>2, <2>4
      <3>2. disk' = new
        BY <3>1, <1>1, <2>1, <2>4 DEF set_sys_config_values, new
      <3>3. \A i \in Settings : mem'[i] = disk'[i]
        BY <3>1, <3>2, <1>4, <1>10 DEF Settings
      <3>4. \A i \in Item \ Settings : disk'[i] = disk[i]
        BY <3>2 DEF new
      <3>5. \A i \in Item \ Settings : disk[i] # Absent => mem'[i] = disk[i]
        BY <2>1, <1>1 DEF Recovered
      <3>6. disk'[Net] # Absent
        BY <3>2, <1>4, Values
      <3>. QED BY <2>1, <2>4, <3>3, <3>4, <3>5, <3>6
    <2>. QED BY <2>3, <2>4
  <1>13. StoreOK'
    BY <1>2, <1>7, <1>8 DEF StoreOK
  <1>. QED BY <1>8, <1>9, <1>10, <1>11, <1>12, <1>13

(* The limits of a frame are in memory before they are stored.             *)
LEMMA LimitsLater ==
  ASSUME NEW m, NEW m2, NEW w \in Seq(GoodStep), w # <<>>, LimitsReady(m, w),
         \/ m2[Limits] # Blank
         \/ m2[Limits] = m[Limits] /\ ~(w[1].op = "set" /\ Limits \in w[1].on)
  PROVE  LimitsReady(m2, Tail(w))
  <1>. DEFINE v == Tail(w)
  <1>1. PICK n \in Nat : n = Len(v)
    BY TailSuffix, LenProperties
  <1>2. Len(w) = n + 1 /\ \A k \in 1..n : v[k] = w[k + 1]
    <2>1. PICK l \in Nat : l = Len(w) /\ l # 0
      BY TailSuffix
    <2>2. n = l - 1
      BY <1>1, <2>1, TailSuffix
    <2>. QED BY <1>1, <2>1, <2>2, TailSuffix
  <1>. HIDE DEF v
  <1>3. ASSUME NEW k \in 1..n, v[k].op = "write", Limits \in v[k].on
        PROVE  /\ m2[Limits] # Blank \/ \E l \in 1..k-1 : v[l].op = "set" /\ Limits \in v[l].on
               /\ \A l \in 1..k-1 : v[l].op # "close"
    <2>1. k + 1 \in 1..n+1 /\ w[k + 1].op = "write" /\ Limits \in w[k + 1].on
      BY <1>2, <1>3
    <2>2. /\ m[Limits] # Blank \/ \E l \in 1..(k+1)-1 : w[l].op = "set" /\ Limits \in w[l].on
          /\ \A l \in 1..(k+1)-1 : w[l].op # "close"
      BY <1>2, <2>1 DEF LimitsReady
    <2>3. ASSUME NEW l \in 1..k-1 PROVE v[l].op # "close"
      <3>1. l + 1 \in 1..(k+1)-1 /\ l \in 1..n
        OBVIOUS
      <3>. QED BY <3>1, <2>2, <1>2
    <2>4. ASSUME m2[Limits] = Blank
          PROVE  \E l \in 1..k-1 : v[l].op = "set" /\ Limits \in v[l].on
      <3>1. PICK l \in 1..(k+1)-1 : w[l].op = "set" /\ Limits \in w[l].on
        BY <2>2, <2>4
      <3>2. l # 1
        BY <2>4, <3>1
      <3>3. l - 1 \in 1..k-1 /\ l - 1 \in 1..n /\ (l - 1) + 1 = l
        BY <3>2
      <3>4. v[l - 1] = w[l]
        BY <1>2, <3>3
      <3>. QED BY <3>1, <3>3, <3>4
    <2>. QED BY <2>3, <2>4
  <1>4. LimitsReady(m2, v)
    BY <1>1, <1>3 DEF LimitsReady
  <1>. QED BY <1>4 DEF v

(* A handler that gave up has no limits to store any more.                 *)
LEMMA LimitsAfterClose ==
  ASSUME NEW m, NEW w \in Seq(GoodStep), w # <<>>, LimitsReady(m, w)
  PROVE  LimitsReady(m, AfterClose(w))
  <1>. DEFINE v == AfterClose(w)
  <1>1. v \in Seq(GoodStep) /\ CutBehind(v, w)
    BY AfterCloseSuffix
  <1>. HIDE DEF v
  <1>2. PICK n \in Nat, l \in Nat : n = Len(v) /\ l = Len(w)
    BY <1>1, LenProperties
  <1>3. PICK d \in 0..l : /\ l = n + d
                          /\ \A k \in 1..n : v[k] = w[k + d]
                          /\ d # 0 => w[d].op = "close"
    BY <1>1, <1>2 DEF CutBehind
  <1>4. CASE d = 0
    <2>1. \A k \in 1..n : v[k] = w[k]
      BY <1>3, <1>4
    <2>2. l = n
      BY <1>3, <1>4
    <2>3. ASSUME NEW k \in 1..n, v[k].op = "write", Limits \in v[k].on
          PROVE  /\ m[Limits] # Blank \/ \E j \in 1..k-1 : v[j].op = "set" /\ Limits \in v[j].on
                 /\ \A j \in 1..k-1 : v[j].op # "close"
      <3>1. \A j \in 1..k-1 : v[j] = w[j]
        BY <2>1
      <3>2. k \in 1..l /\ w[k].op = "write" /\ Limits \in w[k].on
        BY <2>1, <2>2, <2>3
      <3>3. /\ m[Limits] # Blank \/ \E j \in 1..k-1 : w[j].op = "set" /\ Limits \in w[j].on
            /\ \A j \in 1..k-1 : w[j].op # "close"
        BY <3>2, <1>2 DEF LimitsReady
      <3>. QED BY <3>1, <3>3
    <2>4. LimitsReady(m, v)
      BY <1>2, <2>3 DEF LimitsReady
    <2>. QED BY <2>4 DEF v
  <1>5. CASE d # 0
    <2>1. ASSUME NEW k \in 1..n, v[k].op = "write", Limits \in v[k].on
          PROVE  FALSE
      <3>1. k + d \in 1..l /\ d \in 1..(k+d)-1
        BY <1>3, <1>5
      <3>2. w[k + d].op = "write" /\ Limits \in w[k + d].on
        BY <1>3, <2>1
      <3>3. w[d].op # "close"
        BY <3>1, <3>2, <1>2 DEF LimitsReady
      <3>. QED BY <3>3, <1>3, <1>5
    <2>2. LimitsReady(m, v)
      BY <2>1, <1>2 DEF LimitsReady
    <2>. QED BY <2>2 DEF v
  <1>. QED BY <1>4, <1>5

(* The file and the handle change in a few places only.                    *)
LEMMA FileUse ==
  ASSUME [Next]_vars
  PROVE  \/ UNCHANGED <<disk, tables, db, locked, create_table_flag>>
         \/ \E t \in Thread : Opens(t) \/ UseDatabase(t)
         \/ PowerOn
  <1>. USE DEF file
  <1>1. CASE UNCHANGED vars
    BY <1>1 DEF vars
  <1>2. ASSUME NEW t \in Thread, Threads(t)
        PROVE  \/ UNCHANGED <<disk, tables, db, locked, create_table_flag>>
               \/ Opens(t) \/ UseDatabase(t)
    BY <1>2 DEF Threads, SetMemory, udp_send, PostSem, SetStatus, socket, setsockopt, bind
  <1>3. CASE recvfrom \/ TimedOut \/ Receive \/ SaveThread \/ Complete \/ Confirm
    BY <1>3 DEF recvfrom, TimedOut, Receive, SaveThread, Complete, Confirm
  <1>4. CASE PowerOff \/ Misuse
    BY <1>4 DEF PowerOff, Misuse, Dead
  <1>. QED BY <1>1, <1>2, <1>3, <1>4 DEF Next

(* File, handle and flags have their types, and the parts of the settings  *)
(* row are there or absent together.                                       *)
LEMMA StoreStep ==
  ASSUME Good, [Next]_vars
  PROVE  StoreOK'
  <1>0. Well /\ StoreOK /\ MemoryOK /\ Based
    BY DEF Good, ValuesOK, StoreOK, Based
  <1>1. CASE UNCHANGED <<disk, tables, db, locked, create_table_flag>>
    BY <1>0, <1>1 DEF StoreOK, SameRow
  <1>2. ASSUME NEW t \in Thread, Opens(t) PROVE StoreOK'
    <2>1. PICK ok \in BOOLEAN : open_sqlite_db(ok)
      BY <1>2 DEF Opens
    <2>2. Based'
      BY <2>1, <1>0, OpenBased
    <2>3. UNCHANGED <<tables, create_table_flag>>
      BY <1>2 DEF Opens
    <2>. QED BY <2>2, <2>3, <1>0 DEF Based, StoreOK
  <1>3. ASSUME NEW t \in Thread, UseDatabase(t) PROVE StoreOK'
    <2>1. Based'
      BY <1>0, <1>3, UseBased
    <2>2. UNCHANGED <<tables, create_table_flag>>
      BY <1>3 DEF UseDatabase
    <2>. QED BY <2>1, <2>2, <1>0 DEF Based, StoreOK
  <1>4. CASE PowerOn
    <2>1. PICK f \in SUBSET StartFaults : PowerUp(f)
      BY <1>4 DEF PowerOn
    <2>. QED BY <2>1, <1>0, PowerUpBased
  <1>. QED BY <1>1, <1>2, <1>3, <1>4, FileUse

(* What a step of a thread does to memory.                                 *)
LEMMA ThreadsMemory ==
  ASSUME NEW t \in Thread, Threads(t)
  PROVE  \/ At(t, "set") /\ mem' = [i \in Item |-> IF i \in On(t) THEN stamp ELSE mem[i]]
                         /\ work' = [work EXCEPT ![t] = Tail(work[t])]
         \/ mem' = mem /\ ~At(t, "set")
  <1>1. CASE SetMemory(t)
    BY <1>1 DEF SetMemory, Rest
  <1>2. CASE SetStatus(t)
    BY <1>2 DEF SetStatus, At, Orders
  <1>3. CASE UseDatabase(t)
    BY <1>3 DEF UseDatabase, Statement, At
  <1>4. CASE Opens(t) \/ udp_send(t) \/ PostSem(t) \/ socket(t) \/ setsockopt(t) \/ bind(t)
    BY <1>4 DEF Opens, udp_send, PostSem, socket, setsockopt, bind, At
  <1>. QED BY <1>1, <1>2, <1>3, <1>4 DEF Threads

(* Memory holds no blank that is about to be stored: a step of a thread.   *)
LEMMA MemoryThread ==
  ASSUME Good, NEW t \in Thread, Threads(t)
  PROVE  MemoryOK'
  <1>0. Well /\ MemoryOK /\ AnswerOK
    BY DEF Good, ValuesOK
  <1>1. /\ work[t] # <<>>
        /\ \/ work' = [work EXCEPT ![t] = Tail(work[t])]
           \/ work' = [work EXCEPT ![t] = AfterClose(work[t])]
    BY ThreadsMove
  <1>2. /\ work[t] \in Seq(GoodStep) /\ On(t) = work[t][1].on /\ work[t][1] \in GoodStep
        /\ Head(work[t]) = work[t][1]
    BY <1>0, <1>1, HeadStep
  <1>3. stamp \in Held /\ stamp # Blank
    BY <1>0, DatabaseAssumption DEF AnswerOK, Held, Blank
  <1>4. /\ mem' \in [Item -> Held]
        /\ \A i \in Item : mem'[i] = mem[i] \/ mem'[i] # Blank
        /\ mem'[Net] = mem[Net]
        /\ \/ mem'[Limits] # Blank
           \/ mem'[Limits] = mem[Limits] /\ ~(work[t][1].op = "set" /\ Limits \in work[t][1].on)
        /\ work' = [work EXCEPT ![t] = Tail(work[t])] \/ mem' = mem
    <2>1. CASE At(t, "set") /\ mem' = [i \in Item |-> IF i \in On(t) THEN stamp ELSE mem[i]]
                            /\ work' = [work EXCEPT ![t] = Tail(work[t])]
      <3>1. On(t) \subseteq Item \ {Net}
        BY <2>1, <1>2 DEF At, GoodStep
      <3>2. \A i \in Item : mem'[i] = IF i \in On(t) THEN stamp ELSE mem[i]
        BY <2>1
      <3>3. mem' \in [Item -> Held]
        BY <2>1, <1>0, <1>3 DEF MemoryOK
      <3>4. mem'[Net] = mem[Net]
        BY <3>1, <3>2, Values
      <3>5. mem'[Limits] = IF Limits \in On(t) THEN stamp ELSE mem[Limits]
        BY <3>2, Values
      <3>. QED BY <2>1, <3>2, <3>3, <3>4, <3>5, <1>2, <1>3
    <2>2. CASE mem' = mem /\ ~At(t, "set")
      BY <2>2, <1>0, <1>1, <1>2, ThreadsMove DEF At, MemoryOK
    <2>. QED BY <2>1, <2>2, ThreadsMemory
  <1>5. work \in [Thread -> Seq(GoodStep)] /\ {"lcd", "server"} \subseteq Thread
    BY <1>0 DEF Well, WorkOK, Thread
  <1>6. work'["lcd"] # <<>> => mem'[Net] # Blank
    <2>1. work'["lcd"] # <<>> => work["lcd"] # <<>>
      BY <1>1, <1>5
    <2>. QED BY <2>1, <1>0, <1>4 DEF MemoryOK
  <1>7. LimitsReady(mem', work'["server"])
    <2>0. LimitsReady(mem, work["server"])
      BY <1>0 DEF MemoryOK
    <2>1. CASE t # "server"
      <3>1. work'["server"] = work["server"]
        BY <2>1, <1>1, <1>5
      <3>2. mem'[Limits] = mem[Limits] \/ mem'[Limits] # Blank
        BY <1>4
      <3>. QED BY <2>0, <3>1, <3>2 DEF LimitsReady
    <2>2. CASE t = "server" /\ work' = [work EXCEPT ![t] = Tail(work[t])]
      <3>1. work'["server"] = Tail(work["server"])
        BY <2>2, <1>5
      <3>2. LimitsReady(mem', Tail(work["server"]))
        BY <2>0, <2>2, <1>1, <1>2, <1>4, LimitsLater
      <3>. QED BY <3>1, <3>2
    <2>3. CASE t = "server" /\ work' = [work EXCEPT ![t] = AfterClose(work[t])] /\ mem' = mem
      <3>1. work'["server"] = AfterClose(work["server"])
        BY <2>3, <1>5
      <3>2. LimitsReady(mem, AfterClose(work["server"]))
        BY <2>0, <2>3, <1>1, <1>2, LimitsAfterClose
      <3>. QED BY <2>3, <3>1, <3>2
    <2>. QED BY <2>1, <2>2, <2>3, <1>1, <1>4
  <1>8. \A i \in Item \ Settings : mem'[i] # Blank
    BY <1>4, <1>0 DEF MemoryOK
  <1>. QED BY <1>4, <1>6, <1>7, <1>8 DEF MemoryOK

(* Every other step.                                                       *)
LEMMA MemoryStep ==
  ASSUME Good, [Next]_vars
  PROVE  MemoryOK'
  <1>0. Well /\ MemoryOK /\ StoreOK /\ work \in [Thread -> Seq(GoodStep)]
        /\ {"lcd", "server", "save", "control"} = Thread
    BY DEF Good, ValuesOK, Well, WorkOK, Thread
  <1>1. CASE UNCHANGED <<mem, work>>
    BY <1>0, <1>1 DEF MemoryOK, LimitsReady
  <1>2. ASSUME NEW t \in Thread, Threads(t) PROVE MemoryOK'
    BY <1>2, MemoryThread
  <1>3. CASE Receive
    <2>1. PICK f \in scene.frames : work' = [work EXCEPT !["server"] = Readable(f)]
      BY <1>3 DEF Receive
    <2>2. f \in Frame /\ f.at # MAX_NODE
      BY <2>1, <1>0, HostServerAssumption DEF Well, Left, scene
    <2>3. FreshLimits(Readable(f))
      BY <2>2, ReadableHandler DEF Handler
    <2>4. mem' = mem
      BY <1>3 DEF Receive
    <2>5. work'["server"] = Readable(f) /\ work'["lcd"] = work["lcd"]
      BY <2>1, <1>0
    <2>6. LimitsReady(mem, Readable(f))
      BY <2>3 DEF FreshLimits, LimitsReady
    <2>. QED BY <2>4, <2>5, <2>6, <1>0 DEF MemoryOK
  <1>4. CASE SaveThread \/ Complete
    <2>1. /\ mem' = mem
          /\ \E t \in {"save", "control"}, v \in {work'["save"], work'["control"]} :
               work' = [work EXCEPT ![t] = v]
      BY <1>0, <1>4 DEF SaveThread, Complete
    <2>2. work'["server"] = work["server"] /\ work'["lcd"] = work["lcd"]
      BY <2>1, <1>0
    <2>. QED BY <2>1, <2>2, <1>0 DEF MemoryOK
  <1>5. CASE Confirm
    <2>1. PICK p \in scene.ports : mem' = [mem EXCEPT ![Net] = p]
      BY <1>5 DEF Confirm
    <2>2. p \in 0..MaxValue
      BY <2>1, <1>0, HostServerAssumption DEF Ports, Well, Left, scene
    <2>3. p \in Held /\ p # Blank
      BY <2>2, DatabaseAssumption DEF Held, Blank
    <2>4. /\ mem' \in [Item -> Held] /\ mem'[Net] = p
          /\ \A i \in Item \ {Net} : mem'[i] = mem[i]
      BY <2>1, <2>3, <1>0, Values DEF MemoryOK
    <2>5. mem'[Limits] = mem[Limits]
      BY <2>4, Values
    <2>6. work'["server"] = work["server"]
      BY <1>5, <1>0 DEF Confirm
    <2>7. LimitsReady(mem', work'["server"])
      BY <2>5, <2>6, <1>0 DEF MemoryOK, LimitsReady
    <2>8. \A i \in Item \ Settings : mem'[i] # Blank
      BY <2>4, <1>0 DEF MemoryOK, Settings
    <2>. QED BY <2>3, <2>4, <2>7, <2>8 DEF MemoryOK
  <1>6. CASE Dead
    <2>1. mem' = mem /\ work'["lcd"] = <<>> /\ work'["server"] = <<>>
      BY <1>6, <1>0 DEF Dead, Idle
    <2>2. LimitsReady(mem, <<>>)
      <3>1. Len(<<>>) = 0
        BY EmptySeq
      <3>. QED BY <3>1 DEF LimitsReady
    <2>. QED BY <2>1, <2>2, <1>0 DEF MemoryOK
  <1>7. CASE PowerOn
    <2>1. PICK f \in SUBSET StartFaults : PowerUp(f)
      BY <1>7 DEF PowerOn
    <2>2. mem' \in [Item -> Held] /\ \A i \in Item \ Settings : mem'[i] # Blank
      BY <2>1, <1>0, PowerUpBased
    <2>3. work' = work /\ work = Idle
      BY <1>7, <1>0 DEF PowerOn, Well, WorkOK
    <2>4. work'["lcd"] = <<>> /\ work'["server"] = <<>>
      BY <2>3, <1>0 DEF Idle
    <2>5. LimitsReady(mem', work'["server"])
      <3>1. Len(<<>>) = 0
        BY EmptySeq
      <3>. QED BY <2>4, <3>1 DEF LimitsReady
    <2>. QED BY <2>2, <2>4, <2>5 DEF MemoryOK
  <1>8. CASE recvfrom \/ TimedOut \/ UNCHANGED vars
    BY <1>1, <1>8 DEF recvfrom, TimedOut, threads, vars
  <1>. QED
    BY <1>2, <1>3, <1>4, <1>5, <1>6, <1>7, <1>8 DEF Next, PowerOff, Misuse

(* The socket the server waits on.                                         *)
LEMMA SocketThread ==
  ASSUME Good, NEW t \in Thread, Threads(t)
  PROVE  SocketOK'
  <1>0. Well /\ MemoryOK /\ SocketOK
    BY DEF Good, ValuesOK
  <1>1. alive /\ alive' = alive /\ work[t] # <<>>
    BY ThreadsMove
  <1>2. CASE UNCHANGED <<status, due, sock, taken, waits, net_status, netCount>>
    BY <1>0, <1>1, <1>2 DEF SocketOK
  <1>3. CASE PostSem(t)
    <2>1. On(t) \subseteq {<<"steps", 0>>, <<"delete", 0>>}
      <3>1. work[t][1].op = "post" /\ work[t][1] \in GoodStep /\ On(t) = work[t][1].on
        BY <1>0, <1>1, <1>3, HeadStep DEF PostSem, At
      <3>. QED BY <3>1 DEF GoodStep
    <2>2. due' = due \cup {sem[1] : sem \in On(t)}
      BY <1>3 DEF PostSem
    <2>3. due' \subseteq {"steps", "delete"}
      <3>1. \A sem \in {<<"steps", 0>>, <<"delete", 0>>} : sem[1] \in {"steps", "delete"}
        OBVIOUS
      <3>2. \A sem \in On(t) : sem[1] \in {"steps", "delete"}
        BY <2>1, <3>1
      <3>3. {sem[1] : sem \in On(t)} \subseteq {"steps", "delete"}
        BY <3>2, Zenon
      <3>4. due \subseteq {"steps", "delete"}
        BY <1>0 DEF SocketOK
      <3>. QED BY <2>2, <3>3, <3>4, Zenon
    <2>4. UNCHANGED <<status, sock, taken, waits, net_status, netCount>>
      BY <1>3 DEF PostSem, net, silence
    <2>. QED BY <2>3, <2>4, <1>0, <1>1 DEF SocketOK
  <1>4. CASE SetStatus(t)
    <2>1. PICK o \in Orders \cup {"enable", "disable"} :
            status' = [n \in Node |->
                         IF <<"node", n>> \in On(t) THEN NewStatus(o, status[n]) ELSE status[n]]
      BY <1>4 DEF SetStatus
    <2>2. \A n \in Node : NewStatus(o, status[n]) \in {"rest", "running", "paused", "off", status[n]}
      BY DEF NewStatus
    <2>3. status' \in [Node -> {"rest", "running", "paused", "off"}]
      BY <2>1, <2>2, <1>0 DEF SocketOK
    <2>4. UNCHANGED <<due, sock, taken, waits, net_status, netCount>>
      BY <1>4 DEF SetStatus, net, silence
    <2>. QED BY <2>3, <2>4, <1>0, <1>1 DEF SocketOK
  <1>5. CASE socket(t)
    <2>1. /\ taken' = taken \cup ({sock.port} \ {Absent}) /\ sock' = NoSocket
          /\ waits' = IF waits.on = "now"
                      THEN [waits EXCEPT !.on = "old", !.port = sock.port] ELSE waits
          /\ UNCHANGED <<status, due, net_status, netCount>>
      BY <1>5 DEF socket, silence
    <2>2. sock.port \in Stored /\ (sock.port # Absent => sock.port \in 0..MaxValue)
      BY <1>0, Values DEF SocketOK
    <2>3. taken' \subseteq 0..MaxValue
      BY <2>1, <2>2, <1>0 DEF SocketOK
    <2>4. sock' \in [port: Stored, timed: BOOLEAN]
      BY <2>1, Values DEF NoSocket
    <2>5. waits' \in [on: {"none", "now", "old"}, port: Stored, timed: BOOLEAN]
      BY <2>1, <2>2, <1>0 DEF SocketOK
    <2>. QED BY <2>1, <2>3, <2>4, <2>5, <1>0, <1>1 DEF SocketOK
  <1>6. CASE setsockopt(t)
    <2>1. sock' = [sock EXCEPT !.timed = TRUE]
          /\ UNCHANGED <<status, due, taken, waits, net_status, netCount>>
      BY <1>6 DEF setsockopt, silence
    <2>2. sock' \in [port: Stored, timed: BOOLEAN]
      BY <2>1, <1>0 DEF SocketOK
    <2>. QED BY <2>1, <2>2, <1>0, <1>1 DEF SocketOK
  <1>7. CASE bind(t)
    <2>1. sock' = [sock EXCEPT !.port = Bound(mem[Net])]
          /\ UNCHANGED <<status, due, taken, waits, net_status, netCount>>
      BY <1>7 DEF bind, silence
    <2>2. Bound(mem[Net]) \in Stored
      BY <1>0, Values DEF Bound, MemoryOK
    <2>3. sock' \in [port: Stored, timed: BOOLEAN]
      BY <2>1, <2>2, <1>0 DEF SocketOK
    <2>. QED BY <2>1, <2>3, <1>0, <1>1 DEF SocketOK
  <1>8. CASE Opens(t) \/ UseDatabase(t) \/ SetMemory(t) \/ udp_send(t)
    BY <1>2, <1>8 DEF Opens, UseDatabase, SetMemory, udp_send, net, silence
  <1>. QED BY <1>3, <1>4, <1>5, <1>6, <1>7, <1>8 DEF Threads

(* Every other step.                                                       *)
LEMMA SocketStep ==
  ASSUME Good, [Next]_vars
  PROVE  SocketOK'
  <1>0. /\ SocketOK /\ MemoryOK /\ StoreOK
        /\ QUIET \in Nat
    BY HostServerAssumption DEF Good, ValuesOK
  <1>1. CASE UNCHANGED vars
    BY <1>0, <1>1 DEF vars, threads, net, silence, SocketOK
  <1>2. ASSUME NEW t \in Thread, Threads(t) PROVE SocketOK'
    BY <1>2, SocketThread
  <1>3. CASE recvfrom
    <2>1. waits' \in [on: {"none", "now", "old"}, port: Stored, timed: BOOLEAN]
      BY <1>3, <1>0, Values DEF recvfrom, SocketOK
    <2>2. alive /\ UNCHANGED <<status, due, sock, taken, net_status, netCount, alive>>
      BY <1>3 DEF recvfrom, threads, silence
    <2>. QED BY <2>1, <2>2, <1>0 DEF SocketOK
  <1>4. NotWaiting \in [on: {"none", "now", "old"}, port: Stored, timed: BOOLEAN]
    BY Values DEF NotWaiting
  <1>5. CASE TimedOut
    <2>1. netCount' \in 0..QUIET+1 /\ net_status' \in {"online", "left"}
      <3>1. netCount \in 0..QUIET+1 /\ net_status \in {"online", "left"}
        BY <1>0 DEF SocketOK
      <3>2. /\ netCount' = IF netCount > QUIET THEN 1 ELSE netCount + 1
            /\ net_status' = IF netCount > QUIET THEN "left" ELSE net_status
        BY <1>5 DEF TimedOut
      <3>. QED BY <3>1, <3>2, <1>0
    <2>2. alive /\ waits' = NotWaiting /\ UNCHANGED <<status, due, sock, taken, alive>>
      BY <1>5 DEF TimedOut, threads
    <2>. QED BY <2>1, <2>2, <1>0, <1>4 DEF SocketOK
  <1>6. CASE Receive
    <2>1. /\ alive /\ waits' = NotWaiting /\ netCount' = 0 /\ net_status' = "online"
          /\ UNCHANGED <<status, due, sock, taken, alive>>
      BY <1>6 DEF Receive
    <2>. QED BY <2>1, <1>0, <1>4 DEF SocketOK
  <1>7. CASE SaveThread
    <2>1. /\ alive /\ due' \subseteq due
          /\ UNCHANGED <<status, sock, taken, waits, net_status, netCount, alive>>
      BY <1>7 DEF SaveThread, net, silence
    <2>. QED BY <2>1, <1>0 DEF SocketOK
  <1>8. CASE Complete
    <2>1. /\ alive /\ \E n \in running : status' = [status EXCEPT ![n] = "rest"]
          /\ UNCHANGED <<due, sock, taken, waits, net_status, netCount, alive>>
      BY <1>8 DEF Complete, net, silence
    <2>2. status' \in [Node -> {"rest", "running", "paused", "off"}]
      BY <2>1, <1>0 DEF SocketOK
    <2>. QED BY <2>1, <2>2, <1>0 DEF SocketOK
  <1>9. CASE Confirm
    <2>1. alive /\ UNCHANGED <<status, due, sock, taken, waits, net_status, netCount, alive>>
      BY <1>9 DEF Confirm, net, silence
    <2>. QED BY <2>1, <1>0 DEF SocketOK
  <1>10. CASE Dead
    <2>1. NoSocket \in [port: Stored, timed: BOOLEAN]
      BY Values DEF NoSocket
    <2>2. /\ alive' = FALSE /\ due' = {} /\ waits' = NotWaiting /\ sock' = NoSocket
          /\ taken' = {} /\ net_status' = "online" /\ netCount' = 0 /\ status' = status
      BY <1>10 DEF Dead
    <2>3. 0 \in 0..QUIET+1
      BY <1>0
    <2>4. status' \in [Node -> {"rest", "running", "paused", "off"}]
      BY <2>2, <1>0 DEF SocketOK
    <2>. QED BY <2>1, <2>2, <2>3, <2>4, <1>4 DEF SocketOK
  <1>11. CASE PowerOn
    <2>1. PICK f \in SUBSET StartFaults : PowerUp(f)
      BY <1>11 DEF PowerOn
    <2>2. mem' \in [Item -> Held]
      BY <2>1, <1>0, PowerUpBased
    <2>3. /\ alive' = TRUE /\ taken' = {} /\ sock' = [port |-> Bound(mem'[Net]), timed |-> TRUE]
          /\ UNCHANGED <<due, waits, net_status, netCount>>
      BY <1>11 DEF PowerOn, silence
    <2>4. mem'[Net] \in Held
      BY <2>2, Values
    <2>5. Bound(mem'[Net]) \in Stored
      BY <2>4, Values DEF Bound
    <2>6. sock' \in [port: Stored, timed: BOOLEAN]
      BY <2>3, <2>5
    <2>7. status' \in [Node -> {"rest", "running", "paused", "off"}]
      BY <1>11 DEF PowerOn
    <2>. QED BY <2>3, <2>6, <2>7, <1>0 DEF SocketOK
  <1>. QED
    BY <1>1, <1>2, <1>3, <1>5, <1>6, <1>7, <1>8, <1>9, <1>10, <1>11 DEF Next, PowerOff, Misuse

(* An item is never answered with a number beyond the last command.        *)
LEMMA AnswerStep ==
  ASSUME Good, [Next]_vars
  PROVE  AnswerOK'
  <1>0. AnswerOK /\ MaxValue \in Nat /\ left \in Left
    BY DatabaseAssumption DEF Good, ValuesOK, Well
  <1>1. CASE UNCHANGED history
    BY <1>0, <1>1 DEF history, AnswerOK
  <1>2. CASE Receive
    <2>1. stamp < scene.most /\ stamp' = stamp + 1 /\ UNCHANGED <<answered, crossed, failed>>
      BY <1>2 DEF Receive
    <2>2. scene.most \in 0..MaxValue
      BY <1>0, HostServerAssumption DEF scene, Left
    <2>3. stamp' \in 0..MaxValue /\ \A i \in Item : answered[i] <= stamp'
      BY <1>0, <2>1, <2>2 DEF AnswerOK
    <2>. QED BY <2>1, <2>3, <1>0 DEF AnswerOK
  <1>3. ASSUME NEW t \in Thread, udp_send(t) PROVE AnswerOK'
    <2>1. /\ \/ answered' = [i \in Item |-> IF i \in On(t) THEN stamp ELSE answered[i]]
             \/ answered' = answered
          /\ UNCHANGED <<stamp, crossed, failed>>
      BY <1>3 DEF udp_send
    <2>2. answered' \in [Item -> 0..MaxValue]
      BY <2>1, <1>0 DEF AnswerOK
    <2>3. \A i \in Item : answered'[i] <= stamp
      BY <2>1, <1>0 DEF AnswerOK
    <2>. QED BY <2>1, <2>2, <2>3, <1>0 DEF AnswerOK
  <1>4. ASSUME NEW t \in Thread, Opens(t) PROVE AnswerOK'
    <2>1. /\ crossed' = (crossed \/ \E u \in Thread \ {t} : InDatabase(u))
          /\ failed' \in {failed, failed \cup {"open"}}
          /\ UNCHANGED <<stamp, answered>>
      BY <1>4 DEF Opens
    <2>2. crossed' \in BOOLEAN
      BY <2>1
    <2>3. failed' \subseteq StartFaults \cup {"open"}
      BY <2>1, <1>0 DEF AnswerOK
    <2>. QED BY <2>1, <2>2, <2>3, <1>0 DEF AnswerOK
  <1>5. CASE PowerOn
    <2>1. /\ UNCHANGED <<stamp, answered, crossed>>
          /\ \E f \in SUBSET StartFaults : failed' = failed \cup f
      BY <1>5 DEF PowerOn
    <2>. QED BY <2>1, <1>0 DEF AnswerOK
  <1>6. ASSUME NEW t \in Thread, Threads(t) PROVE AnswerOK'
    <2>1. CASE udp_send(t) \/ Opens(t)
      BY <2>1, <1>3, <1>4
    <2>2. CASE \/ UseDatabase(t) \/ SetMemory(t) \/ PostSem(t) \/ SetStatus(t) \/ socket(t)
               \/ setsockopt(t) \/ bind(t)
      BY <2>2, <1>1 DEF UseDatabase, SetMemory, PostSem, SetStatus, socket, setsockopt, bind
    <2>. QED BY <1>6, <2>1, <2>2 DEF Threads
  <1>7. CASE UNCHANGED vars \/ recvfrom \/ TimedOut \/ SaveThread \/ Complete \/ Confirm \/ Dead
    BY <1>7, <1>1 DEF vars, recvfrom, TimedOut, SaveThread, Complete, Confirm, Dead
  <1>. QED BY <1>2, <1>5, <1>6, <1>7 DEF Next, PowerOff, Misuse

(* Init has all of it.                                                     *)
LEMMA GoodInit ==
  ASSUME Init
  PROVE  Good
  <1>1. StoreOK
    BY Values DEF Init, StoreOK, NoRows, Shut, Handle, SameRow
  <1>2. mem \in [Item -> Held] /\ \A i \in Item \ Settings : mem[i] # Blank
    <2>1. mem = [i \in Item |-> IF i \in Settings THEN Blank ELSE Default]
      BY DEF Init
    <2>2. Default # Blank
      BY DEF Default, Blank
    <2>. QED BY <2>1, <2>2, Values
  <1>3. work["lcd"] = <<>> /\ work["server"] = <<>>
    BY DEF Init, Idle, Thread
  <1>4. LimitsReady(mem, work["server"])
    <2>1. Len(<<>>) = 0
      BY EmptySeq
    <2>. QED BY <1>3, <2>1 DEF LimitsReady
  <1>5. SocketOK
    <2>1. 0 \in 0..QUIET+1
      BY HostServerAssumption
    <2>2. NoSocket \in [port: Stored, timed: BOOLEAN]
      BY Values DEF NoSocket
    <2>3. NotWaiting \in [on: {"none", "now", "old"}, port: Stored, timed: BOOLEAN]
      BY Values DEF NotWaiting
    <2>. QED BY <2>1, <2>2, <2>3 DEF Init, SocketOK
  <1>6. AnswerOK
    <2>1. 0 \in 0..MaxValue
      BY DatabaseAssumption
    <2>2. stamp = 0 /\ answered = [i \in Item |-> 0] /\ crossed = FALSE /\ failed = {}
      BY DEF Init
    <2>3. answered \in [Item -> 0..MaxValue]
      BY <2>1, <2>2
    <2>4. \A i \in Item : answered[i] = 0
      BY <2>2
    <2>5. \A i \in Item : answered[i] <= stamp
      BY <2>2, <2>4
    <2>. QED BY <2>1, <2>2, <2>3, <2>5 DEF AnswerOK
  <1>7. MemoryOK
    BY <1>2, <1>3, <1>4 DEF MemoryOK
  <1>. QED BY <1>1, <1>5, <1>6, <1>7, WellInit DEF Good, ValuesOK

(* The values and the work are always well formed.                         *)
LEMMA AlwaysGood == Spec => []Good
  <1>1. Init => Good
    BY GoodInit
  <1>2. Good /\ [Next]_vars => Good'
    <2>. SUFFICES ASSUME Good, [Next]_vars PROVE Good'
      OBVIOUS
    <2>1. Well'
      BY WellStep DEF Good
    <2>2. StoreOK' /\ MemoryOK' /\ SocketOK' /\ AnswerOK'
      BY StoreStep, MemoryStep, SocketStep, AnswerStep
    <2>. QED BY <2>1, <2>2 DEF Good, ValuesOK
  <1>. QED BY <1>1, <1>2, PTL DEF Spec

(* TypeOK: every variable has its type, at any time, for every number of   *)
(* nodes and whatever scenes.                                              *)
THEOREM TypeCorrect == Spec => []TypeOK
  <1>1. Good => TypeOK
    <2>. SUFFICES ASSUME Good PROVE TypeOK
      OBVIOUS
    <2>1. DatabaseType
      <3>1. db \in [open: BOOLEAN, tx: {"none", "begun", "used"}, seen: [Item -> Stored]]
        BY DEF Good, ValuesOK, StoreOK, Handle
      <3>. QED BY <3>1 DEF DatabaseType, Good, ValuesOK, StoreOK, MemoryOK
    <2>2. ASSUME NEW t \in Thread, NEW k \in 1..100, k \in DOMAIN work[t]
          PROVE  work[t][k].op \in Ops
      <3>1. work[t] \in Seq(GoodStep)
        BY DEF Good, Well, WorkOK
      <3>2. k \in 1..Len(work[t])
        BY <3>1, <2>2, LenProperties
      <3>3. work[t][k] \in GoodStep
        BY <3>1, <3>2, ElementOfSeq
      <3>. QED BY <3>3 DEF GoodStep
    <2>. QED BY <2>1, <2>2 DEF TypeOK, Good, ValuesOK, SocketOK, AnswerOK
  <1>. QED BY <1>1, AlwaysGood, PTL

(* Only the LCD thread makes sockets.                                      *)
LEMMA SocketUse ==
  ASSUME Well, NEW t \in Thread, Threads(t), t # "lcd"
  PROVE  UNCHANGED <<sock, taken>>
  <1>1. work[t] # <<>> /\ work[t][1].op \notin SocketOps /\ Head(work[t]) = work[t][1]
    <2>1. work[t] # <<>>
      BY ThreadsMove
    <2>2. Part(t, work[t]) /\ 1 \in 1..Len(work[t]) /\ Head(work[t]) = work[t][1]
      BY <2>1, HeadStep DEF Shape
    <2>. QED BY <2>1, <2>2 DEF Part, Opening, Uses, SocketOps
  <1>2. ~socket(t) /\ ~setsockopt(t) /\ ~bind(t)
    BY <1>1 DEF socket, setsockopt, bind, At, SocketOps
  <1>. QED
    BY <1>2 DEF Threads, Opens, UseDatabase, SetMemory, udp_send, PostSem, SetStatus, net

(* The new port is heard once the LCD thread is through: a step of a       *)
(* thread.                                                                 *)
LEMMA HearsThread ==
  ASSUME Good, HearsNewPort, NEW t \in Thread, Threads(t)
  PROVE  HearsNewPort'
  <1>0. /\ Well /\ work \in [Thread -> Seq(GoodStep)] /\ "lcd" \in Thread
        /\ sock \in [port: Stored, timed: BOOLEAN]
    BY DEF Good, ValuesOK, Well, WorkOK, SocketOK, Thread
  <1>1. /\ alive /\ work[t] # <<>>
        /\ \/ work' = [work EXCEPT ![t] = Tail(work[t])]
           \/ work' = [work EXCEPT ![t] = AfterClose(work[t])]
    BY ThreadsMove
  <1>2. work[t] \in Seq(GoodStep) /\ Shape(t, work[t]) /\ Head(work[t]) = work[t][1]
        /\ On(t) = work[t][1].on /\ work[t][1] \in GoodStep
    BY <1>0, <1>1, HeadStep
  <1>3. mem'[Net] = mem[Net]
    <2>1. CASE At(t, "set") /\ mem' = [i \in Item |-> IF i \in On(t) THEN stamp ELSE mem[i]]
      <3>1. Net \notin On(t)
        BY <2>1, <1>2 DEF At, GoodStep
      <3>. QED BY <2>1, <3>1, Values
    <2>. QED BY <2>1, ThreadsMemory
  <1>4. CASE t # "lcd"
    <2>1. UNCHANGED <<sock, taken>>
      BY <1>0, <1>4, SocketUse
    <2>2. work'["lcd"] = work["lcd"]
      BY <1>0, <1>1, <1>4
    <2>. QED BY <2>1, <2>2, <1>1, <1>3 DEF HearsNewPort
  <1>5. CASE t = "lcd"
    <2>. SUFFICES ASSUME work'["lcd"] = <<>>
                  PROVE  sock'.port = mem'[Net] \/ mem'[Net] \in taken' \cup {Blank}
      BY DEF HearsNewPort
    <2>. DEFINE w == work[t]
    <2>1. w[Len(w)].op = "bind"
      BY <1>1, <1>2, <1>5 DEF Shape, EndsBound
    <2>2. Tail(w) = <<>> \/ AfterClose(w) = <<>>
      BY <1>0, <1>1, <1>5
    <2>3. AfterClose(w) # <<>>
      BY <1>1, <1>2, <2>1, AfterCloseSuffix
    <2>4. Len(w) = 1
      <3>1. Len(Tail(w)) = Len(w) - 1 /\ Len(w) \in Nat
        BY <1>1, <1>2, TailSuffix
      <3>2. Len(Tail(w)) = 0
        BY <2>2, <2>3, EmptySeq
      <3>3. PICK n \in Nat : n = Len(w)
        BY <3>1
      <3>4. n - 1 = 0
        BY <3>1, <3>2, <3>3
      <3>. QED BY <3>3, <3>4
    <2>5. Head(work[t]).op = "bind"
      BY <1>2, <2>1, <2>4
    <2>6. bind(t)
      BY <2>5 DEF Threads, Opens, UseDatabase, Statement, SetMemory, udp_send, PostSem, SetStatus,
             socket, setsockopt, At, Orders
    <2>7. sock'.port = Bound(mem[Net]) /\ taken' = taken
      BY <2>6, <1>0 DEF bind
    <2>. QED BY <2>7, <1>3 DEF Bound
  <1>. QED BY <1>4, <1>5

(* HearsNewPort: the confirmed port is the one the server hears, once the  *)
(* LCD thread is through with it.                                          *)
THEOREM NewPortHeard == Spec => []HearsNewPort
  <1>1. Init => HearsNewPort
    BY DEF Init, HearsNewPort
  <1>2. ASSUME Good, HearsNewPort, [Next]_vars
        PROVE  HearsNewPort'
    <2>0. /\ work \in [Thread -> Seq(GoodStep)]
          /\ {"lcd", "server", "save", "control"} \subseteq Thread
          /\ ~alive => taken = {}
      BY <1>2 DEF Good, ValuesOK, Well, WorkOK, SocketOK, Thread
    <2>1. ASSUME NEW t \in Thread, Threads(t) PROVE HearsNewPort'
      BY <1>2, <2>1, HearsThread
    <2>2. CASE UNCHANGED vars \/ recvfrom \/ TimedOut
      BY <1>2, <2>2 DEF vars, threads, net, recvfrom, TimedOut, HearsNewPort
    <2>3. CASE Receive
      <3>1. work'["lcd"] = work["lcd"] /\ UNCHANGED <<mem, sock, taken, alive>>
        BY <2>0, <2>3 DEF Receive
      <3>. QED BY <3>1, <1>2 DEF HearsNewPort
    <2>4. CASE SaveThread \/ Complete
      <3>1. work'["lcd"] = work["lcd"] /\ UNCHANGED <<mem, sock, taken, alive>>
        BY <2>0, <2>4 DEF SaveThread, Complete, net
      <3>. QED BY <3>1, <1>2 DEF HearsNewPort
    <2>5. CASE Confirm
      <3>1. work'["lcd"] = ConfirmSteps
        BY <2>0, <2>5 DEF Confirm, ConfirmSteps
      <3>. QED BY <3>1, ConfirmShape DEF HearsNewPort
    <2>6. CASE Dead
      BY <2>6 DEF Dead, HearsNewPort
    <2>7. CASE PowerOn
      <3>1. taken = {} /\ taken' = {} /\ sock'.port = Bound(mem'[Net])
        BY <2>0, <2>7 DEF PowerOn
      <3>. QED BY <3>1 DEF Bound, HearsNewPort
    <2>. QED
      BY <1>2, <2>1, <2>2, <2>3, <2>4, <2>5, <2>6, <2>7 DEF Next, PowerOff, Misuse
  <1>. QED BY <1>1, <1>2, AlwaysGood, PTL DEF Spec

(* A word less its first step, index by index.                             *)
ShiftedBy1(v, w, n) ==
  /\ n = Len(v) /\ Len(w) = n + 1
  /\ \A k \in 1..n : v[k] = w[k + 1]

(* The rest of a sequence is one.                                          *)
LEMMA TailShifted ==
  ASSUME NEW S, NEW w \in Seq(S), w # <<>>
  PROVE  \E n \in Nat : ShiftedBy1(Tail(w), w, n)
  <1>1. PICK l \in Nat : l = Len(w) /\ l # 0
    BY TailSuffix
  <1>2. l - 1 \in Nat /\ l = (l - 1) + 1
    BY <1>1
  <1>3. Len(Tail(w)) = l - 1 /\ \A k \in 1..Len(Tail(w)) : Tail(w)[k] = w[k + 1]
    BY <1>1, TailSuffix
  <1>4. ShiftedBy1(Tail(w), w, l - 1)
    BY <1>1, <1>2, <1>3 DEF ShiftedBy1
  <1>. QED BY <1>2, <1>4

(* Where a thread is between its open and its close, step by step.         *)
LEMMA HeadInside ==
  ASSUME NEW w, Closed(w), 1 \in 1..Len(w), w[1].op \in Uses
  PROVE  Inside(w)
  BY DEF Closed, Inside

(* A thread that is inside after a step that opens nothing was so before.  *)
LEMMA InsideBefore ==
  ASSUME NEW w, NEW v, NEW n \in Nat, ShiftedBy1(v, w, n), w[1].op \notin Opening, Inside(v)
  PROVE  Inside(w)
  <1>1. PICK c \in 1..n : v[c].op = "close" /\ \A j \in 1..c : v[j].op \notin Opening
    BY DEF Inside, ShiftedBy1
  <1>2. c + 1 \in 1..n+1 /\ w[c + 1].op = "close"
    BY <1>1 DEF ShiftedBy1
  <1>3. ASSUME NEW j \in 1..c+1 PROVE w[j].op \notin Opening
    <2>1. CASE j = 1
      BY <2>1
    <2>2. CASE j # 1
      <3>1. j - 1 \in 1..c /\ j - 1 \in 1..n /\ (j - 1) + 1 = j
        BY <2>2
      <3>. QED BY <3>1, <1>1 DEF ShiftedBy1
    <2>. QED BY <2>1, <2>2
  <1>. QED BY <1>2, <1>3 DEF Inside, ShiftedBy1

(* A thread stays inside until it closes.                                  *)
LEMMA InsideAfter ==
  ASSUME NEW w, NEW v, NEW n \in Nat, ShiftedBy1(v, w, n), w[1].op # "close", Inside(w)
  PROVE  Inside(v)
  <1>1. PICK c \in 1..n+1 : w[c].op = "close" /\ \A j \in 1..c : w[j].op \notin Opening
    BY DEF Inside, ShiftedBy1
  <1>2. c # 1
    BY <1>1
  <1>3. c - 1 \in 1..n /\ (c - 1) + 1 = c
    BY <1>2
  <1>4. \A j \in 1..c-1 : j \in 1..n /\ j + 1 \in 1..c
    BY <1>3
  <1>5. \A j \in 1..c-1 : v[j].op \notin Opening
    BY <1>1, <1>4 DEF ShiftedBy1
  <1>6. v[c - 1].op = "close"
    BY <1>1, <1>3 DEF ShiftedBy1
  <1>. QED BY <1>3, <1>5, <1>6 DEF Inside, ShiftedBy1

(* It is outside once it has closed, until it opens again.                 *)
LEMMA OutsideAfter ==
  ASSUME NEW w, NEW v, NEW n \in Nat, ShiftedBy1(v, w, n), w[1].op = "close", Reopened(w)
  PROVE  ~Inside(v)
  <1>. SUFFICES ASSUME Inside(v) PROVE FALSE
    OBVIOUS
  <1>1. PICK c \in 1..n : v[c].op = "close" /\ \A j \in 1..c : v[j].op \notin Opening
    BY DEF Inside, ShiftedBy1
  <1>2. 1 \in 1..n+1 /\ c + 1 \in 1..n+1 /\ 1 < c + 1 /\ w[c + 1].op = "close"
    BY <1>1 DEF ShiftedBy1
  <1>3. PICK l \in 1..c+1 : w[l].op \in Opening
    BY <1>2 DEF Reopened, ShiftedBy1
  <1>4. l # 1
    BY <1>3 DEF Opening
  <1>5. l - 1 \in 1..c /\ l - 1 \in 1..n /\ (l - 1) + 1 = l
    BY <1>4
  <1>6. v[l - 1] = w[l]
    BY <1>5 DEF ShiftedBy1
  <1>. QED BY <1>1, <1>3, <1>5, <1>6

(* A transaction lasts until its commit.                                   *)
LEMMA InTxAfter ==
  ASSUME NEW w, NEW v, NEW n \in Nat, ShiftedBy1(v, w, n), w[1].op # "commit", InTx(w)
  PROVE  InTx(v)
  <1>1. PICK c \in 1..n+1 : /\ w[c].op = "commit"
                            /\ \A j \in 1..c : w[j].op \notin Opening \cup {"begin", "close"}
    BY DEF InTx, ShiftedBy1
  <1>2. c # 1
    BY <1>1
  <1>3. c - 1 \in 1..n /\ (c - 1) + 1 = c
    BY <1>2
  <1>4. \A j \in 1..c-1 : j \in 1..n /\ j + 1 \in 1..c
    BY <1>3
  <1>5. \A j \in 1..c-1 : v[j].op \notin Opening \cup {"begin", "close"}
    BY <1>1, <1>4 DEF ShiftedBy1
  <1>6. v[c - 1].op = "commit"
    BY <1>1, <1>3 DEF ShiftedBy1
  <1>. QED BY <1>3, <1>5, <1>6 DEF InTx, ShiftedBy1

(* A transaction that is begun has its commit ahead.                       *)
LEMMA InTxBegun ==
  ASSUME NEW w, NEW v, NEW n \in Nat, ShiftedBy1(v, w, n), w[1].op = "begin", Ended(w)
  PROVE  InTx(v)
  <1>1. PICK c \in 2..n+1 : /\ w[c].op = "commit"
                            /\ \A j \in 2..c : w[j].op \notin Opening \cup {"begin", "close"}
    <2>1. 1 \in 1..n+1 /\ 1 + 1 = 2
      OBVIOUS
    <2>. QED BY <2>1 DEF Ended, ShiftedBy1
  <1>2. c - 1 \in 1..n /\ (c - 1) + 1 = c
    BY <1>1
  <1>3. \A j \in 1..c-1 : j \in 1..n /\ j + 1 \in 2..c
    BY <1>2
  <1>4. \A j \in 1..c-1 : v[j].op \notin Opening \cup {"begin", "close"}
    BY <1>1, <1>3 DEF ShiftedBy1
  <1>5. v[c - 1].op = "commit"
    BY <1>1, <1>2 DEF ShiftedBy1
  <1>. QED BY <1>2, <1>4, <1>5 DEF InTx, ShiftedBy1

(* All of that about a thread that makes its next step.                    *)
LEMMA InsideMoves ==
  ASSUME Well, NEW t \in Thread, work[t] # <<>>, work' = [work EXCEPT ![t] = Tail(work[t])]
  PROVE  /\ \A u \in Thread \ {t} : work'[u] = work[u]
         /\ work'[t] = Tail(work[t])
         /\ Inside(work'[t]) => Inside(work[t]) \/ Head(work[t]).op \in Opening
         /\ Inside(work[t]) => Inside(work'[t]) \/ Head(work[t]).op = "close"
         /\ Head(work[t]).op = "close" => ~Inside(work'[t])
         /\ Head(work[t]).op \in Uses => Inside(work[t])
         /\ InTx(work[t]) => /\ InTx(work'[t]) \/ Head(work[t]).op = "commit"
                             /\ Head(work[t]).op \notin Opening
         /\ Head(work[t]).op = "begin" => InTx(work'[t])
  <1>. DEFINE w == work[t]
              v == Tail(w)
  <1>1. /\ w \in Seq(GoodStep) /\ Shape(t, w) /\ 1 \in 1..Len(w) /\ Head(w) = w[1]
    BY HeadStep
  <1>2. PICK n \in Nat : ShiftedBy1(v, w, n)
    BY <1>1, TailShifted
  <1>3. /\ work'[t] = v /\ \A u \in Thread \ {t} : work'[u] = work[u]
    BY DEF Well, WorkOK
  <1>. HIDE DEF v, w
  <1>4. Closed(w) /\ Reopened(w) /\ Ended(w)
    BY <1>1 DEF Shape
  <1>5. Inside(v) => Inside(w) \/ w[1].op \in Opening
    BY <1>2, InsideBefore
  <1>6. Inside(w) => Inside(v) \/ w[1].op = "close"
    BY <1>2, InsideAfter
  <1>7. w[1].op = "close" => ~Inside(v)
    BY <1>2, <1>4, OutsideAfter
  <1>8. w[1].op \in Uses => Inside(w)
    BY <1>1, <1>4, HeadInside
  <1>9. InTx(w) => InTx(v) \/ w[1].op = "commit"
    BY <1>2, InTxAfter
  <1>10. InTx(w) => w[1].op \notin Opening
    <2>1. \A c \in 1..Len(w) : 1 \in 1..c
      OBVIOUS
    <2>. QED BY <2>1 DEF InTx
  <1>11. w[1].op = "begin" => InTx(v)
    BY <1>2, <1>4, InTxBegun
  <1>. QED
    BY <1>1, <1>3, <1>5, <1>6, <1>7, <1>8, <1>9, <1>10, <1>11 DEF v, w

(* As long as nothing has failed and nobody has met another.               *)
LEMMA CalmBefore ==
  ASSUME Good, [Next]_vars, Calm'
  PROVE  /\ Calm
         /\ \A t \in Thread : Threads(t) => work' = [work EXCEPT ![t] = Tail(work[t])]
         /\ \A t \in Thread : Opens(t) =>
              open_sqlite_db(TRUE) /\ \A u \in Thread \ {t} : ~Inside(work[u])
         /\ PowerOn => PowerUp({})
  <1>0. crossed \in BOOLEAN /\ ~crossed' /\ failed' = {}
    BY DEF Good, ValuesOK, AnswerOK, Calm
  <1>1. ASSUME NEW t \in Thread, Threads(t), ~Opens(t)
        PROVE  Calm /\ work' = [work EXCEPT ![t] = Tail(work[t])]
    <2>1. UNCHANGED <<crossed, failed>> /\ work' = Rest(t)
      BY <1>1 DEF Threads, UseDatabase, SetMemory, udp_send, PostSem, SetStatus, socket, setsockopt,
             bind, history
    <2>. QED BY <2>1, <1>0 DEF Calm, Rest
  <1>2. ASSUME NEW t \in Thread, Opens(t)
        PROVE  /\ Calm /\ work' = [work EXCEPT ![t] = Tail(work[t])]
               /\ open_sqlite_db(TRUE) /\ \A u \in Thread \ {t} : ~Inside(work[u])
    <2>1. /\ crossed' = (crossed \/ \E u \in Thread \ {t} : InDatabase(u))
          /\ open_sqlite_db(TRUE) /\ work' = Rest(t) /\ UNCHANGED failed
      <3>1. failed' # failed \cup {"open"}
        BY <1>0
      <3>. QED BY <1>2, <3>1 DEF Opens
    <2>2. ~crossed /\ \A u \in Thread \ {t} : ~InDatabase(u)
      BY <2>1, <1>0
    <2>3. \A u \in Thread : Inside(work[u]) => InDatabase(u)
      BY DEF Inside, InDatabase, Opening
    <2>. QED BY <1>0, <2>1, <2>2, <2>3 DEF Calm, Rest
  <1>3. ASSUME PowerOn PROVE Calm /\ PowerUp({})
    <2>1. PICK f \in SUBSET StartFaults : failed' = failed \cup f /\ PowerUp(f)
      BY <1>3 DEF PowerOn
    <2>2. f = {} /\ failed = {} /\ crossed' = crossed
      BY <2>1, <1>0, <1>3 DEF PowerOn
    <2>. QED BY <2>1, <2>2, <1>0 DEF Calm
  <1>4. ASSUME UNCHANGED vars \/ recvfrom \/ TimedOut \/ Receive \/ SaveThread \/ Complete
               \/ Confirm \/ Dead
        PROVE  Calm
    <2>1. UNCHANGED <<crossed, failed>>
      BY <1>4 DEF vars, history, recvfrom, TimedOut, Receive, SaveThread, Complete, Confirm, Dead
    <2>. QED BY <2>1, <1>0 DEF Calm
  <1>5. Calm
    <2>1. ASSUME NEW t \in Thread, Threads(t) PROVE Calm
      BY <2>1, <1>1, <1>2
    <2>. QED BY <2>1, <1>3, <1>4 DEF Next, PowerOff, Misuse
  <1>. QED BY <1>1, <1>2, <1>3, <1>5

(* What a statement does to file and handle, item by item.                 *)
LEMMA ChangeEffect ==
  ASSUME Based, NEW i \in Item, NEW v \in Stored, Change(i, v)
  PROVE  /\ db'.open = db.open /\ locked' = locked
         /\ db'.tx = "none" <=> db.tx = "none"
         /\ \A j \in Item : /\ db'.seen[j] = IF Writes(i) /\ j = i THEN v ELSE db.seen[j]
                            /\ disk'[j] = IF Writes(i) /\ j = i /\ db.tx = "none"
                                          THEN v ELSE disk[j]
  <1>1. CASE ~Writes(i)
    BY <1>1 DEF Change
  <1>2. CASE Writes(i)
    <2>1. PICK x \in {"none", "begun", "used"} : x = IF db.tx = "none" THEN db.tx ELSE "used"
      BY DEF Based, Handle
    <2>2. /\ db' = [db EXCEPT !.seen[i] = v, !.tx = x]
          /\ disk' = IF db.tx = "none" THEN [disk EXCEPT ![i] = v] ELSE disk
          /\ locked' = locked
      BY <1>2, <2>1 DEF Change
    <2>3. db'.seen = [db.seen EXCEPT ![i] = v] /\ db'.tx = x /\ db'.open = db.open
      BY <2>2 DEF Based, Handle
    <2>4. \A j \in Item : db'.seen[j] = IF Writes(i) /\ j = i THEN v ELSE db.seen[j]
      BY <1>2, <2>3 DEF Based, Handle
    <2>5. \A j \in Item : disk'[j] = IF Writes(i) /\ j = i /\ db.tx = "none" THEN v ELSE disk[j]
      BY <1>2, <2>2 DEF Based
    <2>6. db'.tx = "none" <=> db.tx = "none"
      BY <2>1, <2>3
    <2>. QED BY <2>2, <2>3, <2>4, <2>5, <2>6
  <1>. QED BY <1>1, <1>2

(* A thread that is in the database and will not commit has its statements *)
(* carried out one by one.                                                 *)
LEMMA OneByOne ==
  ASSUME Orderly, NEW t \in Thread, Inside(work[t]),
         \A j \in 1..Len(work[t]) : work[t][j].op # "commit"
  PROVE  db.open /\ db.tx = "none"
  <1>1. db.open
    BY DEF Orderly
  <1>2. ASSUME db.tx # "none" PROVE FALSE
    <2>1. PICK u \in Thread : Inside(work[u]) /\ InTx(work[u])
      BY <1>1, <1>2 DEF Orderly
    <2>2. u = t
      BY <2>1 DEF Orderly
    <2>. QED BY <2>1, <2>2 DEF InTx
  <1>. QED BY <1>1, <1>2

(* The settings are never written in a transaction.                        *)
LEMMA SettingsWrite ==
  ASSUME Well, Settled, Orderly, NEW t \in Thread, At(t, "write"), NEW i \in Settings, i \in On(t)
  PROVE  db.tx = "none"
  <1>1. work[t] # <<>> /\ Head(work[t]).op = "write"
    BY DEF At
  <1>2. /\ Shape(t, work[t]) /\ 1 \in 1..Len(work[t]) /\ work[t][1].op = "write"
        /\ On(t) = work[t][1].on
    BY <1>1, HeadStep
  <1>3. Inside(work[t])
    BY <1>2, HeadInside DEF Shape, Uses
  <1>4. \A j \in 1..Len(work[t]) : work[t][j].op # "commit"
    BY <1>2 DEF Shape, Plain
  <1>. QED BY <1>3, <1>4, OneByOne

(* A write leaves the handle seeing the settings of the file.              *)
LEMMA WriteSettled ==
  ASSUME Good, Settled, Orderly, NEW t \in Thread, At(t, "write"), NEW i \in On(t),
         Change(i, mem[i]), UNCHANGED <<tables, create_table_flag>>
  PROVE  /\ Settled' /\ db'.open = db.open /\ (db'.tx = "none" <=> db.tx = "none")
  <1>0. Well /\ MemoryOK /\ Based
    BY DEF Good, ValuesOK, StoreOK, Based
  <1>1. i \in Item /\ On(t) = {i} /\ mem[i] \in Stored /\ mem[i] # Absent
    BY <1>0, WrittenValue
  <1>2. /\ db'.open = db.open /\ locked' = locked
        /\ db'.tx = "none" <=> db.tx = "none"
        /\ \A j \in Item : /\ db'.seen[j] = IF Writes(i) /\ j = i THEN mem[i] ELSE db.seen[j]
                           /\ disk'[j] = IF Writes(i) /\ j = i /\ db.tx = "none"
                                         THEN mem[i] ELSE disk[j]
    BY <1>0, <1>1, ChangeEffect
  <1>3. i \in Settings => db.tx = "none"
    BY <1>0, SettingsWrite
  <1>4. Settings \subseteq Item /\ Net \in Item
    BY Values DEF Settings
  <1>5. \A j \in Settings : db'.seen[j] = disk'[j]
    BY <1>2, <1>3, <1>4 DEF Settled
  <1>6. disk'[Net] # Absent
    BY <1>1, <1>2, <1>4 DEF Settled
  <1>. QED BY <1>2, <1>5, <1>6 DEF Settled

(* So does a deletion.                                                     *)
LEMMA DeleteSettled ==
  ASSUME Good, Settled, NEW n \in Node, Change(<<"run", n>>, Absent),
         UNCHANGED <<tables, create_table_flag>>
  PROVE  /\ Settled' /\ db'.open = db.open /\ (db'.tx = "none" <=> db.tx = "none")
  <1>0. Based
    BY DEF Good, ValuesOK, StoreOK, Based
  <1>. DEFINE i == <<"run", n>>
  <1>1. i \in Item /\ i \notin Settings /\ Settings \subseteq Item /\ Net \in Settings
    BY DEF Item, NodeKinds, Settings, Net, Limits
  <1>. HIDE DEF i
  <1>2. Change(i, Absent)
    BY DEF i
  <1>3. /\ db'.open = db.open /\ locked' = locked
        /\ db'.tx = "none" <=> db.tx = "none"
        /\ \A j \in Item : /\ db'.seen[j] = IF Writes(i) /\ j = i THEN Absent ELSE db.seen[j]
                           /\ disk'[j] = IF Writes(i) /\ j = i /\ db.tx = "none"
                                         THEN Absent ELSE disk[j]
    BY <1>0, <1>1, <1>2, Values, ChangeEffect
  <1>4. \A j \in Settings : db'.seen[j] = db.seen[j] /\ disk'[j] = disk[j]
    BY <1>1, <1>3
  <1>. QED BY <1>1, <1>3, <1>4 DEF Settled

(* Whoever was between open and close still is.                            *)
LEMMA OrderlyLater ==
  ASSUME Well, Orderly, NEW t \in Thread, work[t] # <<>>,
         work' = [work EXCEPT ![t] = Tail(work[t])],
         Head(work[t]).op \notin Opening \cup {"close", "commit"},
         db'.open = db.open,
         db'.tx # "none" => db.tx # "none" \/ Head(work[t]).op = "begin"
  PROVE  Orderly'
  <1>1. \A u \in Thread : Inside(work'[u]) <=> Inside(work[u])
    BY InsideMoves
  <1>2. \A u \in Thread : InTx(work[u]) => InTx(work'[u])
    BY InsideMoves
  <1>3. ASSUME db'.open, db'.tx # "none"
        PROVE  \E u \in Thread : Inside(work'[u]) /\ InTx(work'[u])
    <2>1. CASE db.tx # "none"
      <3>1. PICK u \in Thread : Inside(work[u]) /\ InTx(work[u])
        BY <1>3, <2>1 DEF Orderly
      <3>. QED BY <3>1, <1>1, <1>2
    <2>2. CASE Head(work[t]).op = "begin"
      <3>1. Inside(work[t]) /\ InTx(work'[t])
        BY <2>2, InsideMoves DEF Uses
      <3>. QED BY <3>1, <1>1
    <2>. QED BY <1>3, <2>1, <2>2
  <1>. QED BY <1>1, <1>3 DEF Orderly

(* HandleOK: the open.                                                     *)
LEMMA HandleOpens ==
  ASSUME Good, Settled, Orderly, NEW t \in Thread, Opens(t), Calm', [Next]_vars
  PROVE  Settled' /\ Orderly'
  <1>0. Well /\ Based
    BY DEF Good, ValuesOK, StoreOK, Based
  <1>1. /\ open_sqlite_db(TRUE) /\ \A u \in Thread \ {t} : ~Inside(work[u])
        /\ work' = [work EXCEPT ![t] = Tail(work[t])]
    BY CalmBefore DEF Threads
  <1>2. /\ disk' = disk /\ db'.seen = disk /\ db'.tx = "none" /\ db'.open = TRUE
    BY <1>0, <1>1, OpenBased
  <1>3. work[t] # <<>> /\ Head(work[t]).op \in Opening
    BY DEF Opens, At, Opening
  <1>4. /\ \A u \in Thread \ {t} : work'[u] = work[u]
        /\ InTx(work[t]) => Head(work[t]).op \notin Opening
    BY <1>0, <1>1, <1>3, InsideMoves
  <1>5. ~locked'
    <2>1. ~(db.open /\ db.tx = "used")
      <3>. SUFFICES ASSUME db.open, db.tx = "used" PROVE FALSE
        OBVIOUS
      <3>1. PICK u \in Thread : Inside(work[u]) /\ InTx(work[u])
        BY DEF Orderly
      <3>. QED BY <3>1, <1>1, <1>3, <1>4
    <2>. QED BY <2>1, <1>1 DEF open_sqlite_db, Settled
  <1>6. UNCHANGED <<tables, create_table_flag>>
    BY DEF Opens
  <1>7. Settled'
    BY <1>2, <1>5, <1>6 DEF Settled
  <1>8. \A u \in Thread : Inside(work'[u]) => u = t
    BY <1>1, <1>4
  <1>9. Orderly'
    BY <1>2, <1>8 DEF Orderly
  <1>. QED BY <1>7, <1>9

(* HandleOK: the statements.                                               *)
LEMMA HandleUses ==
  ASSUME Good, Settled, Orderly, NEW t \in Thread, UseDatabase(t), Calm', [Next]_vars
  PROVE  Settled' /\ Orderly'
  <1>0. /\ Well /\ Based /\ UNCHANGED <<tables, create_table_flag>> /\ Statement(t)
    BY DEF Good, ValuesOK, StoreOK, Based, UseDatabase
  <1>1. work' = [work EXCEPT ![t] = Tail(work[t])]
    BY CalmBefore DEF Threads
  <1>2. CASE At(t, "begin") /\ start_commit
    <2>1. /\ disk' = disk /\ db'.seen = db.seen /\ db'.open = db.open /\ locked' = locked
      BY <1>0, <1>2, BeginBased DEF start_commit
    <2>2. Settled'
      BY <2>1, <1>0 DEF Settled
    <2>3. work[t] # <<>> /\ Head(work[t]).op = "begin"
      BY <1>2 DEF At
    <2>. QED BY <1>0, <1>1, <2>1, <2>2, <2>3, OrderlyLater DEF Opening
  <1>3. CASE At(t, "commit") /\ stop_commit
    <2>1. /\ db'.seen = db.seen /\ db'.open = db.open /\ disk' \in {disk, db.seen}
          /\ locked' = locked /\ (db.open => db'.tx = "none")
      BY <1>0, <1>3, CommitBased DEF stop_commit, Based, Handle
    <2>2. Settled'
      BY <2>1, <1>0 DEF Settled, Settings
    <2>3. work[t] # <<>> /\ Head(work[t]).op = "commit"
      BY <1>3 DEF At
    <2>4. \A u \in Thread : Inside(work'[u]) <=> Inside(work[u])
      BY <1>0, <1>1, <2>3, InsideMoves DEF Opening
    <2>5. Orderly'
      BY <2>1, <2>4 DEF Orderly
    <2>. QED BY <2>2, <2>5
  <1>4. CASE At(t, "close") /\ close_sqlite_db
    <2>1. disk' = disk /\ db'.seen = disk /\ db'.tx = "none" /\ ~db'.open /\ locked' = locked
      BY <1>0, <1>4, CloseBased DEF close_sqlite_db
    <2>2. Settled'
      BY <2>1, <1>0 DEF Settled
    <2>3. work[t] # <<>> /\ Head(work[t]).op = "close"
      BY <1>4 DEF At
    <2>4. /\ \A u \in Thread \ {t} : work'[u] = work[u]
          /\ Inside(work[t]) /\ ~Inside(work'[t])
      BY <1>0, <1>1, <2>3, InsideMoves DEF Uses
    <2>5. \A u \in Thread : ~Inside(work'[u])
      BY <2>4 DEF Orderly
    <2>6. Orderly'
      BY <2>1, <2>5 DEF Orderly
    <2>. QED BY <2>2, <2>6
  <1>5. CASE At(t, "history") /\ insert_history
    <2>1. /\ disk' = disk /\ db'.seen = db.seen /\ db'.open = db.open /\ locked' = locked
          /\ (db'.tx # "none" => db.tx # "none")
      BY <1>0, <1>5, HistoryBased DEF insert_history, Based, Handle
    <2>2. Settled'
      BY <2>1, <1>0 DEF Settled
    <2>3. work[t] # <<>> /\ Head(work[t]).op = "history"
      BY <1>5 DEF At
    <2>. QED BY <1>0, <1>1, <2>1, <2>2, <2>3, OrderlyLater DEF Opening
  <1>6. CASE At(t, "delete") /\ \E i \in On(t) : delete_bat_runningdata(i[2])
    <2>1. PICK i \in On(t) : Change(<<"run", i[2]>>, Absent)
      BY <1>6 DEF delete_bat_runningdata
    <2>2. work[t] # <<>> /\ Head(work[t]).op = "delete"
      BY <1>6 DEF At
    <2>3. work[t][1].op = "delete" /\ On(t) = work[t][1].on /\ work[t][1] \in GoodStep
      BY <1>0, <2>2, HeadStep
    <2>4. PICK n \in Node : i = <<"run", n>>
      BY <2>3 DEF GoodStep
    <2>5. Change(<<"run", n>>, Absent)
      BY <2>1, <2>4
    <2>6. Settled' /\ db'.open = db.open /\ (db'.tx = "none" <=> db.tx = "none")
      BY <1>0, <2>5, DeleteSettled
    <2>. QED BY <1>0, <1>1, <2>2, <2>6, OrderlyLater DEF Opening
  <1>7. CASE At(t, "write") /\ \E i \in On(t) :
               CASE i = Net    -> update_net_config_values
                 [] i = Limits -> update_sys_config_values
                 [] OTHER      -> save_item(i)
    <2>1. PICK i \in On(t) : Change(i, mem[i])
      BY <1>7 DEF update_net_config_values, update_sys_config_values, save_item
    <2>2. work[t] # <<>> /\ Head(work[t]).op = "write"
      BY <1>7 DEF At
    <2>3. Settled' /\ db'.open = db.open /\ (db'.tx = "none" <=> db.tx = "none")
      BY <1>0, <1>7, <2>1, WriteSettled
    <2>. QED BY <1>0, <1>1, <2>2, <2>3, OrderlyLater DEF Opening
  <1>. QED BY <1>0, <1>2, <1>3, <1>4, <1>5, <1>6, <1>7 DEF Statement

(* HandleOK: every step of a thread.                                       *)
LEMMA HandleThread ==
  ASSUME Good, Settled, Orderly, NEW t \in Thread, Threads(t), Calm', [Next]_vars
  PROVE  Settled' /\ Orderly'
  <1>1. CASE Opens(t)
    BY <1>1, HandleOpens
  <1>2. CASE UseDatabase(t)
    BY <1>2, HandleUses
  <1>3. CASE ~Opens(t) /\ ~UseDatabase(t)
    <2>1. UNCHANGED <<disk, tables, db, locked, create_table_flag>>
      BY <1>3 DEF Threads, SetMemory, udp_send, PostSem, SetStatus, socket, setsockopt, bind, file
    <2>2. work[t] # <<>> /\ Head(work[t]).op \notin Opening \cup {"close", "commit"}
      BY <1>3 DEF Threads, SetMemory, udp_send, PostSem, SetStatus, socket, setsockopt, bind,
                  At, Opening, Orders
    <2>3. work' = [work EXCEPT ![t] = Tail(work[t])]
      BY CalmBefore
    <2>4. Settled'
      BY <2>1 DEF Settled
    <2>5. Orderly'
      BY <2>1, <2>2, <2>3, OrderlyLater DEF Good
    <2>. QED BY <2>4, <2>5
  <1>. QED BY <1>1, <1>2, <1>3

(* A function that begins is not in the database yet.                      *)
LEMMA OrderlyStart ==
  ASSUME Well, Settled, Orderly, NEW t \in Thread, NEW v, ~Inside(v),
         work' = [work EXCEPT ![t] = v], ~Inside(work[t]),
         UNCHANGED <<disk, tables, db, locked, create_table_flag>>
  PROVE  Settled' /\ Orderly'
  <1>1. work'[t] = v /\ \A u \in Thread \ {t} : work'[u] = work[u]
    BY DEF Well, WorkOK
  <1>2. \A u \in Thread : Inside(work'[u]) <=> Inside(work[u])
    BY <1>1
  <1>3. \A u \in Thread : Inside(work[u]) => work'[u] = work[u]
    BY <1>1
  <1>. QED BY <1>2, <1>3 DEF Settled, Orderly

(* A thread with nothing to do is not in the database.                     *)
LEMMA NothingInside == ~Inside(<<>>)
  <1>1. Len(<<>>) = 0
    BY EmptySeq
  <1>. QED BY <1>1 DEF Inside

(* HandleOK is kept by every step: threads that do not meet in the database*)
(* find it as they left it.                                                *)
LEMMA HandleStep ==
  ASSUME Good, HandleOK, [Next]_vars
  PROVE  HandleOK'
  <1>. SUFFICES ASSUME alive', Calm' PROVE Settled' /\ Orderly'
    BY DEF HandleOK
  <1>0. Calm /\ Well /\ {"server", "lcd", "save", "control"} \subseteq Thread
    BY CalmBefore DEF Good, Thread
  <1>1. CASE UNCHANGED vars \/ recvfrom \/ TimedOut
    <2>1. UNCHANGED <<disk, tables, db, locked, create_table_flag, work, alive>>
      BY <1>1 DEF vars, file, threads, recvfrom, TimedOut
    <2>2. Settled /\ Orderly
      BY <2>1, <1>0 DEF HandleOK
    <2>. QED BY <2>1, <2>2 DEF Settled, Orderly
  <1>2. ASSUME NEW t \in Thread, Threads(t) PROVE Settled' /\ Orderly'
    <2>1. Settled /\ Orderly
      BY <1>0, <1>2, ThreadsMove DEF HandleOK
    <2>. QED BY <2>1, <1>2, HandleThread
  <1>3. CASE Receive
    <2>1. PICK f \in scene.frames : work' = [work EXCEPT !["server"] = Readable(f)]
      BY <1>3 DEF Receive
    <2>2. f \in Frame /\ f.at # MAX_NODE
      BY <2>1, <1>0, HostServerAssumption DEF Well, Left, scene
    <2>3. ~Inside(Readable(f))
      BY <2>2, ReadableHandler DEF Handler
    <2>4. work["server"] = <<>> /\ Settled /\ Orderly
      BY <1>0, <1>3 DEF Receive, HandleOK, Well, WorkOK
    <2>5. UNCHANGED <<disk, tables, db, locked, create_table_flag>>
      BY <1>3 DEF Receive, file
    <2>. QED BY <1>0, <2>1, <2>3, <2>4, <2>5, NothingInside, OrderlyStart
  <1>4. CASE SaveThread
    <2>1. PICK v \in {SavesSteps, SavesRuns, SavesHistory, DeletesRuns} :
            work' = [work EXCEPT !["save"] = v]
      BY <1>4 DEF SaveThread
    <2>2. ~Inside(v)
      BY SaveShapes, HistoryShape, DeletesShape DEF Others
    <2>3. work["save"] = <<>> /\ Settled /\ Orderly
      BY <1>0, <1>4 DEF SaveThread, HandleOK
    <2>4. UNCHANGED <<disk, tables, db, locked, create_table_flag>>
      BY <1>4 DEF SaveThread, file
    <2>. QED BY <1>0, <2>1, <2>2, <2>3, <2>4, NothingInside, OrderlyStart
  <1>5. CASE Complete
    <2>1. PICK n \in Node : work' = [work EXCEPT !["control"] = InOne(<<Write(<<"run", n>>)>>)]
      BY <1>5 DEF Complete, running
    <2>2. ~Inside(InOne(<<Write(<<"run", n>>)>>))
      BY CompleteShape DEF Others
    <2>3. work["control"] = <<>> /\ Settled /\ Orderly
      BY <1>0, <1>5 DEF Complete, HandleOK
    <2>4. UNCHANGED <<disk, tables, db, locked, create_table_flag>>
      BY <1>5 DEF Complete, file
    <2>. QED BY <1>0, <2>1, <2>2, <2>3, <2>4, NothingInside, OrderlyStart
  <1>6. CASE Confirm
    <2>1. work' = [work EXCEPT !["lcd"] = ConfirmSteps]
      BY <1>6 DEF Confirm, ConfirmSteps
    <2>2. ~Inside(ConfirmSteps)
      BY ConfirmShape DEF Others
    <2>3. work["lcd"] = <<>> /\ Settled /\ Orderly
      BY <1>0, <1>6 DEF Confirm, HandleOK
    <2>4. UNCHANGED <<disk, tables, db, locked, create_table_flag>>
      BY <1>6 DEF Confirm, file
    <2>. QED BY <1>0, <2>1, <2>2, <2>3, <2>4, NothingInside, OrderlyStart
  <1>7. CASE PowerOff \/ Misuse
    BY <1>7 DEF PowerOff, Misuse, Dead
  <1>8. CASE PowerOn
    <2>1. PowerUp({}) /\ StoreOK
      BY <1>8, CalmBefore DEF Good, ValuesOK
    <2>2. /\ ~db'.open /\ db'.seen = disk'
          /\ tables' /\ ~locked' /\ ~create_table_flag' /\ disk'[Net] # Absent
      BY <2>1, PowerUpBased
    <2>3. work' = Idle
      BY <1>0, <1>8 DEF PowerOn, Well, WorkOK
    <2>4. \A t \in Thread : ~Inside(work'[t])
      BY <2>3, NothingInside DEF Idle
    <2>. QED BY <2>2, <2>4 DEF Settled, Orderly
  <1>. QED BY <1>1, <1>2, <1>3, <1>4, <1>5, <1>6, <1>7, <1>8 DEF Next

(* What is prepared for an answer stays prepared.                          *)
LEMMA ReadyLater ==
  ASSUME NEW w, NEW v, NEW n \in Nat, ShiftedBy1(v, w, n),
         NEW f, NEW s, NEW f2, NEW s2, Ready(w, f, s), f \subseteq f2, s \subseteq s2,
         w[1].op = "set" => w[1].on \subseteq f2,
         w[1].op = "write" =>
           \A i \in w[1].on \cap f : \A k \in 1..n+1 :
             w[k].op = "reply" /\ i \in w[k].on => i \in s2
  PROVE  Ready(v, f2, s2)
  <1>1. ASSUME NEW k \in 1..n, v[k].op = "reply", NEW i \in v[k].on, i \notin s2
        PROVE  \E j \in 1..k-1 :
                 /\ v[j].op = "write" /\ i \in v[j].on
                 /\ i \in f2 \/ \E l \in 1..j-1 : v[l].op = "set" /\ i \in v[l].on
    <2>1. k + 1 \in 1..n+1 /\ w[k + 1] = v[k] /\ Len(w) = n + 1 /\ i \notin s
      BY <1>1 DEF ShiftedBy1
    <2>2. PICK j \in 1..(k+1)-1 :
            /\ w[j].op = "write" /\ i \in w[j].on
            /\ i \in f \/ \E l \in 1..j-1 : w[l].op = "set" /\ i \in w[l].on
      BY <1>1, <2>1 DEF Ready
    <2>3. j # 1
      <3>. SUFFICES ASSUME j = 1 PROVE FALSE
        OBVIOUS
      <3>1. i \in f
        BY <2>2
      <3>. QED BY <3>1, <1>1, <2>1, <2>2
    <2>4. j - 1 \in 1..k-1 /\ j - 1 \in 1..n /\ (j - 1) + 1 = j
      BY <2>3
    <2>5. v[j - 1] = w[j]
      BY <2>4 DEF ShiftedBy1
    <2>6. CASE i \in f
      BY <2>2, <2>4, <2>5, <2>6
    <2>7. ASSUME NEW l \in 1..j-1, w[l].op = "set", i \in w[l].on
          PROVE  i \in f2 \/ \E m \in 1..(j-1)-1 : v[m].op = "set" /\ i \in v[m].on
      <3>1. CASE l = 1
        BY <2>7, <3>1
      <3>2. CASE l # 1
        <4>1. l - 1 \in 1..(j-1)-1 /\ l - 1 \in 1..n /\ (l - 1) + 1 = l
          BY <3>2
        <4>2. v[l - 1] = w[l]
          BY <4>1 DEF ShiftedBy1
        <4>. QED BY <4>1, <4>2, <2>7
      <3>. QED BY <3>1, <3>2
    <2>. QED BY <2>2, <2>4, <2>5, <2>6, <2>7
  <1>2. Len(v) = n
    BY DEF ShiftedBy1
  <1>. QED BY <1>1, <1>2 DEF Ready

(* More that is current or filed does no harm.                             *)
LEMMA ReadyStays ==
  ASSUME NEW w, NEW f, NEW s, NEW f2, NEW s2, Ready(w, f, s), f \subseteq f2, s \subseteq s2
  PROVE  Ready(w, f2, s2)
  BY DEF Ready

(* A handler prepares its answers before it sends them.                    *)
LEMMA FreshReady ==
  ASSUME NEW w, FreshReplies(w), NEW f, NEW s
  PROVE  Ready(w, f, s)
  BY DEF FreshReplies, Ready

(* Nothing to send needs nothing prepared.                                 *)
LEMMA NothingReady ==
  ASSUME NEW f, NEW s
  PROVE  Ready(<<>>, f, s)
  <1>1. Len(<<>>) = 0
    BY EmptySeq
  <1>. QED BY <1>1 DEF Ready

(* The types the comparisons below rest on.                                *)
LEMMA Numbers ==
  ASSUME Good
  PROVE  /\ stamp \in Int /\ Answerable \subseteq Item \ {Net}
         /\ \A i \in Item : /\ answered[i] \in Int /\ answered[i] <= stamp
                            /\ mem[i] \in Int /\ disk[i] \in Int /\ db.seen[i] \in Int
  <1>1. stamp \in Int /\ \A i \in Item : answered[i] \in Int /\ answered[i] <= stamp
    BY DatabaseAssumption DEF Good, ValuesOK, AnswerOK
  <1>2. \A i \in Item : disk[i] \in Int /\ db.seen[i] \in Int
    BY Values DEF Good, ValuesOK, StoreOK, Handle
  <1>3. \A i \in Item : mem[i] \in Int
    BY DatabaseAssumption DEF Good, ValuesOK, MemoryOK, Held, Blank
  <1>4. Answerable \subseteq Item \ {Net}
    BY DEF Answerable, Item, NodeKinds, Settings, Net, Limits
  <1>. QED BY <1>1, <1>2, <1>3, <1>4

(* Memory, file and handle go on backing the answers if no answered item   *)
(* gets less than was answered.                                            *)
LEMMA KeptFile ==
  ASSUME Good, Calm, \A i \in Item : Backed(i), UNCHANGED <<mem, stamp, answered>>,
         \A i \in Answerable :
           /\ disk'[i] = disk[i] \/ disk'[i] = db.seen[i] \/ disk'[i] = mem[i]
           /\ db'.seen[i] = db.seen[i] \/ db'.seen[i] = disk[i] \/ db'.seen[i] = mem[i]
  PROVE  Current' = Current /\ Filed \subseteq Filed' /\ \A i \in Item : Backed(i)'
  <1>1. Current' = Current
    BY DEF Current
  <1>2. Answerable \subseteq Item
    BY Numbers
  <1>3. Filed \subseteq Filed'
    <2>1. \A i \in Filed : /\ i \in Answerable \cap Current' /\ mem[i] = stamp
                           /\ disk[i] >= stamp /\ db.seen[i] >= stamp
      BY <1>1 DEF Filed, Current
    <2>2. stamp \in Int
      BY Numbers
    <2>3. \A i \in Filed : disk'[i] >= stamp' /\ db'.seen[i] >= stamp'
      BY <2>1, <2>2
    <2>. QED BY <2>1, <2>3 DEF Filed
  <1>4. ASSUME NEW i \in Item, answered[i] > 0
        PROVE  /\ i \in Answerable /\ mem'[i] >= answered'[i]
               /\ disk'[i] >= answered'[i] /\ db'.seen[i] >= answered'[i]
    <2>1. /\ i \in Answerable /\ mem[i] >= answered[i] /\ disk[i] >= answered[i]
          /\ db.seen[i] >= answered[i]
      BY <1>4 DEF Backed
    <2>. QED BY <2>1
  <1>5. \A i \in Item : Backed(i)'
    BY <1>4 DEF Backed
  <1>. QED BY <1>1, <1>3, <1>5

(* What a statement does to the settings and the items a command can be    *)
(* answered for.                                                           *)
LEMMA StatementKeeps ==
  ASSUME Good, NEW t \in Thread, UseDatabase(t)
  PROVE  \A i \in Answerable \cup Settings :
            /\ disk'[i] = disk[i] \/ disk'[i] = db.seen[i] \/ disk'[i] = mem[i]
            /\ db'.seen[i] = db.seen[i] \/ db'.seen[i] = disk[i] \/ db'.seen[i] = mem[i]
  <1>0. /\ Well /\ MemoryOK /\ Based /\ Statement(t)
        /\ Answerable \cup Settings \subseteq Item
    BY Numbers, Values DEF Settings, Good, ValuesOK, StoreOK, Based, UseDatabase
  <1>1. CASE At(t, "begin") /\ start_commit
    <2>1. disk' = disk /\ db'.seen = db.seen
      BY <1>0, <1>1, BeginBased
    <2>. QED BY <2>1
  <1>2. CASE At(t, "commit") /\ stop_commit
    <2>1. db'.seen = db.seen /\ disk' \in {disk, db.seen}
      BY <1>0, <1>2, CommitBased
    <2>. QED BY <2>1
  <1>3. CASE At(t, "close") /\ close_sqlite_db
    <2>1. disk' = disk /\ db'.seen = disk
      BY <1>0, <1>3, CloseBased
    <2>. QED BY <2>1
  <1>4. CASE At(t, "history") /\ insert_history
    <2>1. disk' = disk /\ db'.seen = db.seen
      BY <1>0, <1>4, HistoryBased
    <2>. QED BY <2>1
  <1>5. CASE At(t, "delete") /\ \E i \in On(t) : delete_bat_runningdata(i[2])
    <2>1. PICK i \in On(t) : Change(<<"run", i[2]>>, Absent)
      BY <1>5 DEF delete_bat_runningdata
    <2>2. work[t] # <<>> /\ Head(work[t]).op = "delete"
      BY <1>5 DEF At
    <2>3. work[t][1].op = "delete" /\ On(t) = work[t][1].on /\ work[t][1] \in GoodStep
      BY <1>0, <2>2, HeadStep
    <2>4. PICK n \in Node : i = <<"run", n>>
      BY <2>3 DEF GoodStep
    <2>. DEFINE r == <<"run", n>>
    <2>5. r \in Item \ (Answerable \cup Settings) /\ Change(r, Absent)
      <3>1. r \in Item \ (Answerable \cup Settings)
        BY DEF Item, NodeKinds, Answerable, Settings, Net, Limits
      <3>2. Change(r, Absent)
        BY <2>1, <2>4
      <3>. QED BY <3>1, <3>2
    <2>. HIDE DEF r
    <2>6. \A j \in Item : /\ db'.seen[j] = IF Writes(r) /\ j = r THEN Absent ELSE db.seen[j]
                          /\ disk'[j] = IF Writes(r) /\ j = r /\ db.tx = "none"
                                        THEN Absent ELSE disk[j]
      BY <1>0, <2>5, Values, ChangeEffect
    <2>. QED BY <1>0, <2>5, <2>6
  <1>6. CASE At(t, "write") /\ \E i \in On(t) :
               CASE i = Net    -> update_net_config_values
                 [] i = Limits -> update_sys_config_values
                 [] OTHER      -> save_item(i)
    <2>1. PICK i \in On(t) : Change(i, mem[i])
      BY <1>6 DEF update_net_config_values, update_sys_config_values, save_item
    <2>2. i \in Item /\ mem[i] \in Stored
      BY <1>0, <1>6, WrittenValue
    <2>3. \A j \in Item : /\ db'.seen[j] = IF Writes(i) /\ j = i THEN mem[i] ELSE db.seen[j]
                          /\ disk'[j] = IF Writes(i) /\ j = i /\ db.tx = "none"
                                        THEN mem[i] ELSE disk[j]
      BY <1>0, <2>1, <2>2, ChangeEffect
    <2>. QED BY <1>0, <2>3
  <1>. QED BY <1>0, <1>1, <1>2, <1>3, <1>4, <1>5, <1>6 DEF Statement

(* A thread that will not commit has what it writes in the file at once.   *)
LEMMA WrittenAtOnce ==
  ASSUME Good, Settled, Orderly, NEW t \in Thread, UseDatabase(t), At(t, "write"),
         NEW i \in work[t][1].on, \A j \in 1..Len(work[t]) : work[t][j].op # "commit"
  PROVE  disk'[i] = mem[i] /\ db'.seen[i] = mem[i]
  <1>0. Well /\ MemoryOK /\ StoreOK /\ Based /\ Statement(t)
    BY DEF Good, ValuesOK, StoreOK, Based, UseDatabase
  <1>1. work[t] # <<>> /\ Head(work[t]).op = "write"
    BY DEF At
  <1>2. /\ Shape(t, work[t]) /\ 1 \in 1..Len(work[t])
        /\ work[t][1].op = "write" /\ On(t) = work[t][1].on
    BY <1>0, <1>1, HeadStep
  <1>3. Inside(work[t])
    BY <1>2, HeadInside DEF Shape, Uses
  <1>4. db.open /\ db.tx = "none"
    BY <1>3, OneByOne
  <1>5. /\ On(t) = {i} /\ i \in Item /\ mem[i] \in Stored /\ mem[i] # Absent
    BY <1>0, <1>2, WrittenValue
  <1>6. Change(i, mem[i])
    <2>1. /\ ~At(t, "begin") /\ ~At(t, "commit") /\ ~At(t, "close") /\ ~At(t, "history")
          /\ ~At(t, "delete")
      BY DEF At
    <2>2. \E j \in On(t) : Change(j, mem[j])
      BY <1>0, <2>1 DEF Statement, update_net_config_values, update_sys_config_values, save_item
    <2>. QED BY <1>5, <2>2
  <1>7. Writes(i)
    <2>1. CASE i \in Settings
      <3>1. disk[Limits] # Absent
        BY <1>0 DEF StoreOK, SameRow, Settled
      <3>2. i \in {Net, Limits} /\ db.seen[i] = disk[i]
        BY <2>1 DEF Settled, Settings
      <3>3. db.seen[i] # Absent
        BY <3>1, <3>2 DEF Settled
      <3>. QED BY <1>4, <2>1, <3>3 DEF Writes, Settled
    <2>2. CASE i \notin Settings
      BY <1>4, <2>2 DEF Writes, Settled
    <2>. QED BY <2>1, <2>2
  <1>. QED BY <1>0, <1>4, <1>5, <1>6, <1>7, ChangeEffect

(* So has the server what it writes of a command that it will answer.      *)
LEMMA WrittenIsFiled ==
  ASSUME Good, Settled, Orderly, NEW t \in Thread, UseDatabase(t), At(t, "write"),
         NEW i \in work[t][1].on, i \in Current,
         NEW k \in 1..Len(work[t]), work[t][k].op = "reply", i \in work[t][k].on
  PROVE  i \in Filed'
  <1>0. Well /\ UNCHANGED <<mem, stamp>> /\ work[t] # <<>>
    BY DEF Good, UseDatabase, history, At
  <1>1. work[t] \in Seq(GoodStep) /\ Shape(t, work[t])
    BY <1>0, HeadStep
  <1>2. \A j \in 1..Len(work[t]) : work[t][j].op # "commit"
    BY <1>1 DEF Shape, Plain
  <1>3. disk'[i] = mem[i] /\ db'.seen[i] = mem[i]
    BY <1>2, WrittenAtOnce
  <1>4. work[t][k] \in GoodStep
    BY <1>1, ElementOfSeq
  <1>5. i \in Answerable
    BY <1>4 DEF GoodStep
  <1>6. mem[i] = stamp /\ i \in Item \ {Net} /\ stamp \in Int
    BY Numbers DEF Current
  <1>. QED BY <1>0, <1>3, <1>5, <1>6 DEF Filed, Current

(* Memory is set, items answered, by the server thread only.               *)
LEMMA OnlyServer ==
  ASSUME Well, NEW t \in Thread, Threads(t), SetMemory(t) \/ udp_send(t)
  PROVE  t = "server"
  <1>1. work[t] # <<>> /\ Head(work[t]).op \in {"set", "reply"}
    BY DEF SetMemory, udp_send, At
  <1>2. Part(t, work[t]) /\ 1 \in 1..Len(work[t]) /\ work[t][1].op \in {"set", "reply"}
    BY <1>1, HeadStep DEF Shape
  <1>. QED BY <1>2 DEF Part, Opening, Uses, SocketOps

(* KeptOK: every step of a thread.                                         *)
LEMMA KeptThread ==
  ASSUME Good, HandleOK, KeptOK, NEW t \in Thread, Threads(t), Calm', [Next]_vars
  PROVE  Ready(work'["server"], Current', Filed') /\ \A i \in Item : Backed(i)'
  <1>0. /\ Calm /\ Well /\ Settled /\ Orderly /\ work[t] # <<>>
        /\ work' = [work EXCEPT ![t] = Tail(work[t])]
        /\ Ready(work["server"], Current, Filed) /\ \A i \in Item : Backed(i)
        /\ work \in [Thread -> Seq(GoodStep)] /\ "server" \in Thread
    BY CalmBefore, ThreadsMove DEF HandleOK, KeptOK, Good, Well, WorkOK, Thread
  <1>1. /\ work[t] \in Seq(GoodStep) /\ Head(work[t]) = work[t][1]
        /\ On(t) = work[t][1].on /\ work[t][1] \in GoodStep /\ 1 \in 1..Len(work[t])
    BY <1>0, HeadStep
  <1>2. ASSUME Current \subseteq Current', Filed \subseteq Filed',
               t = "server" =>
                 /\ work[t][1].op = "set" => work[t][1].on \subseteq Current'
                 /\ work[t][1].op = "write" =>
                      \A i \in work[t][1].on \cap Current : \A k \in 1..Len(work[t]) :
                        work[t][k].op = "reply" /\ i \in work[t][k].on => i \in Filed'
        PROVE  Ready(work'["server"], Current', Filed')
    <2>1. CASE t # "server"
      <3>1. work'["server"] = work["server"]
        BY <1>0, <2>1
      <3>. QED BY <1>0, <1>2, <3>1, ReadyStays
    <2>2. CASE t = "server"
      <3>. DEFINE w == work["server"]
                  v == Tail(w)
      <3>1. work'["server"] = v
        BY <1>0, <2>2
      <3>2. PICK n \in Nat : ShiftedBy1(v, w, n)
        BY <1>0, <1>1, <2>2, TailShifted
      <3>3. Len(w) = n + 1
        BY <3>2 DEF ShiftedBy1
      <3>. HIDE DEF v, w
      <3>4. /\ w[1].op = "set" => w[1].on \subseteq Current'
            /\ w[1].op = "write" =>
                 \A i \in w[1].on \cap Current : \A k \in 1..n+1 :
                   w[k].op = "reply" /\ i \in w[k].on => i \in Filed'
        BY <1>2, <2>2, <3>3 DEF w
      <3>5. Ready(w, Current, Filed)
        BY <1>0 DEF w
      <3>6. Ready(v, Current', Filed')
        BY <1>2, <3>2, <3>4, <3>5, ReadyLater
      <3>. QED BY <3>1, <3>6
    <2>. QED BY <2>1, <2>2
  <1>3. CASE SetMemory(t)
    <2>1. /\ mem' = [i \in Item |-> IF i \in On(t) THEN stamp ELSE mem[i]]
          /\ UNCHANGED <<disk, db, stamp, answered>> /\ work[t][1].op = "set"
      BY <1>1, <1>3 DEF SetMemory, file, history, At
    <2>2. On(t) \subseteq Item \ {Net}
      BY <1>1, <2>1 DEF GoodStep
    <2>3. \A i \in Item : mem'[i] = IF i \in On(t) THEN stamp ELSE mem[i]
      BY <2>1
    <2>4. Current \subseteq Current' /\ On(t) \subseteq Current'
      BY <2>1, <2>2, <2>3 DEF Current
    <2>5. Filed \subseteq Filed'
      BY <2>1, <2>4 DEF Filed
    <2>6. Ready(work'["server"], Current', Filed')
      BY <1>1, <1>2, <2>1, <2>4, <2>5
    <2>7. ASSUME NEW i \in Item, answered[i] > 0
          PROVE  /\ i \in Answerable /\ mem'[i] >= answered'[i]
                 /\ disk'[i] >= answered'[i] /\ db'.seen[i] >= answered'[i]
      <3>1. /\ i \in Answerable /\ mem[i] >= answered[i] /\ disk[i] >= answered[i]
            /\ db.seen[i] >= answered[i]
        BY <1>0, <2>7 DEF Backed
      <3>2. stamp \in Int /\ answered[i] \in Int /\ answered[i] <= stamp
        BY Numbers
      <3>3. mem'[i] >= answered[i]
        BY <2>3, <3>1, <3>2
      <3>. QED BY <2>1, <3>1, <3>3
    <2>8. \A i \in Item : Backed(i)'
      BY <2>1, <2>7 DEF Backed
    <2>. QED BY <2>6, <2>8
  <1>4. CASE udp_send(t)
    <2>1. /\ UNCHANGED <<mem, disk, db, stamp>> /\ work[t][1].op = "reply" /\ t = "server"
          /\ \/ answered' = [i \in Item |-> IF i \in On(t) THEN stamp ELSE answered[i]]
             \/ answered' = answered
      <3>1. t = "server"
        BY <1>0, <1>4, OnlyServer
      <3>2. UNCHANGED <<mem, disk, db, stamp>>
        BY <1>4 DEF udp_send, file
      <3>3. Head(work[t]).op = "reply"
        BY <1>4 DEF udp_send, At
      <3>4. \/ answered' = [i \in Item |-> IF i \in On(t) THEN stamp ELSE answered[i]]
            \/ answered' = answered
        BY <1>4 DEF udp_send
      <3>. QED BY <1>1, <3>1, <3>2, <3>3, <3>4
    <2>2. On(t) \subseteq Filed
      <3>1. ASSUME NEW i \in work[t][1].on PROVE i \in Filed
        <4>1. \A j \in 1..1-1 : FALSE
          OBVIOUS
        <4>. QED BY <1>0, <1>1, <2>1, <3>1, <4>1 DEF Ready
      <3>. QED BY <1>1, <3>1
    <2>3. Current' = Current /\ Filed' = Filed
      BY <2>1 DEF Current, Filed
    <2>4. Ready(work'["server"], Current', Filed')
      BY <1>2, <2>1, <2>3
    <2>5. ASSUME NEW i \in Item, answered'[i] > 0
          PROVE  /\ i \in Answerable /\ mem'[i] >= answered'[i]
                 /\ disk'[i] >= answered'[i] /\ db'.seen[i] >= answered'[i]
      <3>1. CASE answered'[i] = stamp /\ i \in On(t)
        <4>1. i \in Answerable /\ mem[i] = stamp /\ disk[i] >= stamp /\ db.seen[i] >= stamp
          BY <2>2, <3>1 DEF Filed, Current
        <4>2. stamp \in Int
          BY Numbers
        <4>. QED BY <2>1, <3>1, <4>1, <4>2
      <3>2. CASE answered'[i] = answered[i]
        BY <1>0, <2>1, <2>5, <3>2 DEF Backed
      <3>. QED BY <2>1, <3>1, <3>2
    <2>6. \A i \in Item : Backed(i)'
      BY <2>5 DEF Backed
    <2>. QED BY <2>4, <2>6
  <1>5. CASE Opens(t)
    <2>1. /\ UNCHANGED <<mem, stamp, answered>> /\ work[t][1].op \in Opening
          /\ open_sqlite_db(TRUE)
      BY <1>0, <1>1, <1>5, CalmBefore DEF Opens, At, Opening
    <2>2. Based
      BY DEF Good, ValuesOK, StoreOK, Based
    <2>3. disk' = disk /\ db'.seen = disk
      BY <2>1, <2>2, OpenBased
    <2>4. Current' = Current /\ Filed \subseteq Filed' /\ \A i \in Item : Backed(i)'
      BY <1>0, <2>1, <2>3, KeptFile
    <2>. QED BY <1>2, <2>1, <2>4 DEF Opening
  <1>6. CASE UseDatabase(t)
    <2>1. UNCHANGED <<mem, stamp, answered>> /\ work[t][1].op \in Uses
      BY <1>1, <1>6 DEF UseDatabase, history, Statement, At, Uses
    <2>2. Current' = Current /\ Filed \subseteq Filed' /\ \A i \in Item : Backed(i)'
      BY <1>0, <1>6, <2>1, StatementKeeps, KeptFile
    <2>3. ASSUME work[t][1].op = "write", NEW i \in work[t][1].on \cap Current,
                 NEW k \in 1..Len(work[t]), work[t][k].op = "reply", i \in work[t][k].on
          PROVE  i \in Filed'
      <3>1. At(t, "write")
        BY <1>0, <1>1, <2>3, ThreadsMove DEF At
      <3>. QED BY <1>0, <1>6, <2>3, <3>1, WrittenIsFiled
    <2>. QED BY <1>2, <2>1, <2>2, <2>3 DEF Uses
  <1>7. CASE PostSem(t) \/ SetStatus(t) \/ socket(t) \/ setsockopt(t) \/ bind(t)
    <2>1. UNCHANGED <<mem, disk, db, stamp, answered>>
      BY <1>7 DEF PostSem, SetStatus, socket, setsockopt, bind, file, history
    <2>2. work[t][1].op \notin {"set", "write"}
      BY <1>1, <1>7 DEF PostSem, SetStatus, socket, setsockopt, bind, At, Orders
    <2>3. Current' = Current /\ Filed \subseteq Filed' /\ \A i \in Item : Backed(i)'
      BY <1>0, <2>1, KeptFile
    <2>. QED BY <1>2, <2>2, <2>3
  <1>. QED BY <1>3, <1>4, <1>5, <1>6, <1>7 DEF Threads

(* KeptOK is kept by every step, power failures and power-up included.     *)
LEMMA KeptStep ==
  ASSUME Good, HandleOK, KeptOK, [Next]_vars
  PROVE  KeptOK'
  <1>. SUFFICES ASSUME Calm'
                PROVE  Ready(work'["server"], Current', Filed') /\ \A i \in Item : Backed(i)'
    BY DEF KeptOK
  <1>0. /\ Calm /\ Well /\ {"server", "lcd", "save", "control"} \subseteq Thread
        /\ Ready(work["server"], Current, Filed) /\ \A i \in Item : Backed(i)
        /\ work \in [Thread -> Seq(GoodStep)]
    BY CalmBefore DEF Good, KeptOK, Well, WorkOK, Thread
  <1>1. ASSUME UNCHANGED <<mem, disk, db, stamp, answered>>,
               work'["server"] = work["server"] \/ work'["server"] = <<>>
        PROVE  Ready(work'["server"], Current', Filed') /\ \A i \in Item : Backed(i)'
    <2>1. Current' = Current /\ Filed \subseteq Filed' /\ \A i \in Item : Backed(i)'
      BY <1>0, <1>1, KeptFile
    <2>. QED BY <1>0, <1>1, <2>1, ReadyStays, NothingReady
  <1>2. ASSUME NEW t \in Thread, Threads(t)
        PROVE  Ready(work'["server"], Current', Filed') /\ \A i \in Item : Backed(i)'
    BY <1>2, KeptThread
  <1>3. CASE UNCHANGED vars \/ recvfrom \/ TimedOut
    BY <1>1, <1>3 DEF vars, file, threads, history, recvfrom, TimedOut
  <1>4. CASE SaveThread \/ Complete
    <2>1. work'["server"] = work["server"]
      BY <1>0, <1>4 DEF SaveThread, Complete
    <2>2. UNCHANGED <<mem, disk, db, stamp, answered>>
      BY <1>4 DEF SaveThread, Complete, file, history
    <2>. QED BY <1>1, <2>1, <2>2
  <1>5. CASE Dead
    <2>1. work'["server"] = <<>>
      BY <1>0, <1>5 DEF Dead, Idle
    <2>2. UNCHANGED <<mem, disk, db, stamp, answered>>
      BY <1>5 DEF Dead, file, history
    <2>. QED BY <1>1, <2>1, <2>2
  <1>6. CASE Receive
    <2>1. PICK f \in scene.frames : work' = [work EXCEPT !["server"] = Readable(f)]
      BY <1>6 DEF Receive
    <2>2. f \in Frame /\ f.at # MAX_NODE
      BY <2>1, <1>0, HostServerAssumption DEF Well, Left, scene
    <2>3. FreshReplies(Readable(f)) /\ work'["server"] = Readable(f)
      BY <1>0, <2>1, <2>2, ReadableHandler DEF Handler
    <2>4. UNCHANGED <<mem, disk, db, answered>>
      BY <1>6 DEF Receive, file
    <2>5. \A i \in Item : Backed(i)'
      BY <1>0, <2>4 DEF Backed
    <2>. QED BY <2>3, <2>5, FreshReady
  <1>7. CASE Confirm
    <2>1. PICK p \in scene.ports : mem' = [mem EXCEPT ![Net] = p]
      BY <1>7 DEF Confirm
    <2>2. \A i \in Item \ {Net} : mem'[i] = mem[i]
      BY <2>1 DEF Good, ValuesOK, MemoryOK
    <2>3. UNCHANGED <<disk, db, stamp, answered>> /\ work'["server"] = work["server"]
      BY <1>0, <1>7 DEF Confirm, file, history
    <2>4. Current' = Current /\ Filed' = Filed
      <3>1. Current' = Current
        BY <2>2, <2>3 DEF Current
      <3>. QED BY <2>3, <3>1 DEF Filed
    <2>5. Net \notin Answerable
      BY DEF Answerable, Net, Limits
    <2>6. \A i \in Item : Backed(i)'
      BY <1>0, <2>2, <2>3, <2>5 DEF Backed
    <2>. QED BY <1>0, <2>3, <2>4, <2>6
  <1>8. CASE PowerOn
    <2>1. PowerUp({}) /\ StoreOK
      BY <1>8, CalmBefore DEF Good, ValuesOK
    <2>2. /\ db'.seen = disk'
          /\ \A i \in Settings : mem'[i] = disk'[i]
          /\ \A i \in Item \ Settings : disk'[i] = disk[i]
          /\ \A i \in Item \ Settings : disk[i] # Absent => mem'[i] = disk[i]
          /\ disk[Net] # Absent => disk' = disk
      BY <2>1, PowerUpBased
    <2>3. work'["server"] = <<>> /\ answered' = answered
      BY <1>0, <1>8 DEF PowerOn, Well, WorkOK, Idle
    <2>4. ASSUME NEW i \in Item, answered[i] > 0
          PROVE  /\ i \in Answerable /\ mem'[i] >= answered'[i]
                 /\ disk'[i] >= answered'[i] /\ db'.seen[i] >= answered'[i]
      <3>1. i \in Answerable /\ disk[i] >= answered[i] /\ answered[i] \in Int /\ disk[i] \in Int
        BY <1>0, <2>4, Numbers DEF Backed
      <3>2. disk[i] # Absent
        BY <2>4, <3>1 DEF Absent
      <3>3. CASE i \in Settings
        <4>1. i = Limits
          BY <3>1, <3>3, Numbers DEF Settings
        <4>2. disk' = disk
          BY <2>1, <2>2, <3>2, <4>1 DEF StoreOK, SameRow
        <4>3. mem'[i] = disk[i] /\ db'.seen[i] = disk[i]
          BY <2>2, <3>3, <4>2
        <4>. QED BY <2>3, <3>1, <4>2, <4>3
      <3>4. CASE i \notin Settings
        <4>1. mem'[i] = disk[i] /\ db'.seen[i] = disk[i] /\ disk'[i] = disk[i]
          BY <2>2, <3>2, <3>4
        <4>. QED BY <2>3, <3>1, <4>1
      <3>. QED BY <3>3, <3>4
    <2>5. \A i \in Item : Backed(i)'
      BY <2>3, <2>4 DEF Backed
    <2>. QED BY <2>3, <2>5, NothingReady
  <1>. QED
    BY <1>2, <1>3, <1>4, <1>5, <1>6, <1>7, <1>8 DEF Next, PowerOff, Misuse

(* Nothing is answered before the first command.                           *)
LEMMA KeptInit == Init => HandleOK /\ KeptOK
  <1>. SUFFICES ASSUME Init PROVE HandleOK /\ KeptOK
    OBVIOUS
  <1>1. HandleOK
    BY DEF Init, HandleOK
  <1>2. work["server"] = <<>> /\ \A i \in Item : answered[i] = 0
    BY DEF Init, Idle, Thread
  <1>3. \A i \in Item : Backed(i)
    BY <1>2 DEF Backed
  <1>. QED BY <1>1, <1>2, <1>3, NothingReady DEF KeptOK

(* Together with the order of the handle.                                  *)
LEMMA AlwaysKept == Spec => [](Good /\ HandleOK /\ KeptOK)
  <1>1. Good /\ HandleOK /\ KeptOK /\ [Next]_vars => HandleOK' /\ KeptOK'
    BY HandleStep, KeptStep
  <1>. QED BY <1>1, KeptInit, AlwaysGood, PTL DEF Spec

(* AnsweredIsKept: what the host has the answer for is in the file, until  *)
(* something fails or two threads meet in the database.                    *)
THEOREM AnswersKept == Spec => []AnsweredIsKept
  <1>1. KeptOK => AnsweredIsKept
    BY DEF KeptOK, Calm, Backed, AnsweredIsKept
  <1>. QED BY <1>1, AlwaysKept, PTL

(* The settings in memory are filled in, unless two things failed.         *)
LEMMA FilledStep ==
  ASSUME Good, FilledOK, [Next]_vars
  PROVE  FilledOK'
  <1>0. Well /\ MemoryOK /\ StoreOK /\ Settings \subseteq Item
    BY Values DEF Good, ValuesOK, Settings
  <1>1. ASSUME alive, failed \subseteq failed',
               \A i \in Settings : mem'[i] = mem[i] \/ mem'[i] # Blank
        PROVE  FilledOK'
    BY <1>1 DEF FilledOK
  <1>2. ASSUME NEW t \in Thread, Threads(t) PROVE FilledOK'
    <2>1. failed \subseteq failed'
      BY <1>2 DEF Threads, Opens, UseDatabase, SetMemory, udp_send, PostSem, SetStatus, socket,
             setsockopt, bind, history
    <2>2. stamp # Blank
      BY DatabaseAssumption DEF Good, ValuesOK, AnswerOK, Blank
    <2>3. \A i \in Item : mem'[i] = mem[i] \/ mem'[i] # Blank
      BY <1>2, <2>2, ThreadsMemory
    <2>. QED BY <1>0, <1>1, <1>2, <2>1, <2>3, ThreadsMove
  <1>3. CASE recvfrom \/ TimedOut \/ Receive \/ SaveThread \/ Complete
    BY <1>1, <1>3 DEF recvfrom, TimedOut, Receive, SaveThread, Complete, history
  <1>4. CASE Confirm
    <2>1. PICK p \in scene.ports : mem' = [mem EXCEPT ![Net] = p]
      BY <1>4 DEF Confirm
    <2>2. p \in 0..MaxValue
      BY <2>1, <1>0, HostServerAssumption DEF Ports, Well, Left, scene
    <2>3. p # Blank
      BY <2>2 DEF Blank
    <2>4. \A i \in Settings : mem'[i] = mem[i] \/ mem'[i] # Blank
      BY <1>0, <2>1, <2>3 DEF MemoryOK
    <2>5. alive /\ failed' = failed
      BY <1>4 DEF Confirm, history
    <2>. QED BY <1>1, <2>4, <2>5
  <1>5. CASE Dead
    BY <1>5 DEF Dead, FilledOK
  <1>6. CASE PowerOn
    <2>1. PICK f \in SUBSET StartFaults : failed' = failed \cup f /\ PowerUp(f)
      BY <1>6 DEF PowerOn
    <2>2. \/ \A i \in Settings : mem'[i] # Blank
          \/ create_table_flag' /\ "load" \in f
      BY <1>0, <2>1, PowerUpBased
    <2>3. create_table_flag' => f \cap {"system", "steps"} # {}
      BY <2>1 DEF PowerUp, creat_data_db_and_table
    <2>. QED BY <2>1, <2>2, <2>3 DEF FilledOK
  <1>7. CASE UNCHANGED vars
    BY <1>7 DEF vars, history, FilledOK
  <1>. QED
    BY <1>2, <1>3, <1>4, <1>5, <1>6, <1>7 DEF Next, PowerOff, Misuse

(* A thread that has something to write still has it after another step,   *)
(* and after a function that begins.                                       *)
LEMMA WritingStays ==
  ASSUME Well, NEW t \in Thread, work[t] # <<>>,
         work' = [work EXCEPT ![t] = Tail(work[t])], NEW i, Writing(i)
  PROVE  \/ Writing(i)'
         \/ work[t][1].op = "write" /\ i \in work[t][1].on
  <1>0. work[t] \in Seq(GoodStep) /\ work'[t] = Tail(work[t])
        /\ \A u \in Thread \ {t} : work'[u] = work[u]
    BY DEF Well, WorkOK
  <1>1. PICK u \in Thread : \E k \in DOMAIN work[u] : work[u][k].op = "write" /\ i \in work[u][k].on
    BY DEF Writing
  <1>2. PICK k \in DOMAIN work[u] : work[u][k].op = "write" /\ i \in work[u][k].on
    BY <1>1
  <1>3. CASE u # t
    <2>1. k \in DOMAIN work'[u] /\ work'[u][k] = work[u][k]
      BY <1>0, <1>2, <1>3
    <2>2. work'[u][k].op = "write" /\ i \in work'[u][k].on
      BY <1>2, <2>1
    <2>. QED BY <2>1, <2>2 DEF Writing
  <1>4. CASE u = t /\ k # 1
    <2>. DEFINE w == work[t]
                v == Tail(w)
    <2>1. PICK n \in Nat : ShiftedBy1(v, w, n)
      BY <1>0, TailShifted
    <2>2. v \in Seq(GoodStep)
      BY <1>0, TailSuffix
    <2>3. DOMAIN w = 1..n+1 /\ DOMAIN v = 1..n
      BY <1>0, <2>1, <2>2, LenProperties DEF ShiftedBy1
    <2>. HIDE DEF w, v
    <2>4. k \in 1..n+1 /\ w[k].op = "write" /\ i \in w[k].on
      BY <1>2, <1>4, <2>3 DEF w
    <2>5. k - 1 \in 1..n /\ (k - 1) + 1 = k
      BY <1>4, <2>4
    <2>6. v[k - 1] = w[k]
      BY <2>1, <2>5 DEF ShiftedBy1
    <2>7. work'[t] = v
      BY <1>0 DEF v, w
    <2>8. k - 1 \in DOMAIN work'[t] /\ work'[t][k - 1] = w[k]
      BY <2>3, <2>5, <2>6, <2>7
    <2>9. work'[t][k - 1].op = "write" /\ i \in work'[t][k - 1].on
      BY <2>4, <2>8
    <2>. QED BY <2>8, <2>9 DEF Writing
  <1>5. CASE u = t /\ k = 1
    BY <1>2, <1>5
  <1>. QED BY <1>3, <1>4, <1>5

(* A function that begins does not disturb what others have to write.      *)
LEMMA WritingStarts ==
  ASSUME Well, NEW t \in Thread, work[t] = <<>>, NEW v, work' = [work EXCEPT ![t] = v],
         NEW i, Writing(i)
  PROVE  Writing(i)'
  <1>1. PICK u \in Thread : \E k \in DOMAIN work[u] : work[u][k].op = "write" /\ i \in work[u][k].on
    BY DEF Writing
  <1>2. PICK k \in DOMAIN work[u] : work[u][k].op = "write" /\ i \in work[u][k].on
    BY <1>1
  <1>3. u # t
    BY <1>2
  <1>4. work'[u] = work[u]
    BY <1>3 DEF Well, WorkOK
  <1>5. k \in DOMAIN work'[u] /\ work'[u][k] = work[u][k]
    BY <1>2, <1>4
  <1>. QED BY <1>2, <1>5 DEF Writing

(* New limits in memory are about to be stored.                            *)
LEMMA SetIsWritten ==
  ASSUME Well, NEW t \in Thread, work[t] # <<>>, work[t][1].op = "set",
         work' = [work EXCEPT ![t] = Tail(work[t])], NEW i \in Settings, i \in work[t][1].on
  PROVE  Writing(i)'
  <1>1. /\ work[t] \in Seq(GoodStep) /\ StoredAfter(work[t]) /\ 1 \in 1..Len(work[t])
        /\ work[t][1] \in GoodStep
    BY HeadStep DEF Shape
  <1>2. i = Limits
    BY <1>1 DEF GoodStep, Settings
  <1>3. PICK l \in 1..Len(work[t]) : work[t][l].op = "write" /\ Limits \in work[t][l].on
    BY <1>1, <1>2 DEF StoredAfter
  <1>4. l \in DOMAIN work[t]
    BY <1>1, LenProperties
  <1>5. Writing(i)
    BY <1>2, <1>3, <1>4 DEF Writing
  <1>. QED BY <1>5, WritingStays

(* RowOK: every step of a thread.                                          *)
LEMMA RowThread ==
  ASSUME Good, HandleOK, RowOK, NEW t \in Thread, Threads(t), Calm', [Next]_vars,
         NEW i \in Settings
  PROVE  Writing(i)' \/ mem'[i] = disk'[i]
  <1>. SUFFICES ASSUME ~Writing(i)' PROVE mem'[i] = disk'[i]
    OBVIOUS
  <1>0. /\ Calm /\ Well /\ Settled /\ Orderly /\ work[t] # <<>> /\ alive
        /\ work' = [work EXCEPT ![t] = Tail(work[t])]
        /\ Writing(i) \/ mem[i] = disk[i]
        /\ i \in Item
    BY CalmBefore, ThreadsMove, Values DEF HandleOK, RowOK, Good, Settings
  <1>1. /\ Shape(t, work[t]) /\ Head(work[t]) = work[t][1]
        /\ On(t) = work[t][1].on /\ work[t][1] \in GoodStep /\ 1 \in 1..Len(work[t])
    BY <1>0, HeadStep
  <1>2. Writing(i) => work[t][1].op = "write" /\ i \in work[t][1].on
    BY <1>0, WritingStays
  <1>3. work[t][1].op = "set" => i \notin work[t][1].on
    BY <1>0, SetIsWritten
  <1>4. mem'[i] = mem[i]
    BY <1>0, <1>1, <1>3, ThreadsMemory DEF At
  <1>5. CASE work[t][1].op = "write" /\ i \in work[t][1].on
    <2>1. \A j \in 1..Len(work[t]) : work[t][j].op # "commit"
      BY <1>1, <1>5 DEF Shape, Plain
    <2>2. At(t, "write")
      BY <1>0, <1>1, <1>5 DEF At
    <2>3. UseDatabase(t)
      BY <1>1, <1>5 DEF Threads, Opens, SetMemory, udp_send, PostSem, SetStatus, socket,
             setsockopt, bind, At, Orders
    <2>4. disk'[i] = mem[i]
      BY <1>0, <1>5, <2>1, <2>2, <2>3, WrittenAtOnce
    <2>. QED BY <1>4, <2>4
  <1>6. CASE ~(work[t][1].op = "write" /\ i \in work[t][1].on)
    <2>1. mem[i] = disk[i] /\ db.seen[i] = disk[i]
      BY <1>0, <1>2, <1>6 DEF Settled
    <2>2. CASE UseDatabase(t)
      BY <1>4, <2>1, <2>2, StatementKeeps
    <2>3. CASE Opens(t)
      <3>1. disk' = disk
        BY <2>3 DEF Opens, open_sqlite_db
      <3>. QED BY <1>4, <2>1, <3>1
    <2>4. CASE ~UseDatabase(t) /\ ~Opens(t)
      <3>1. disk' = disk
        BY <2>4 DEF Threads, SetMemory, udp_send, PostSem, SetStatus, socket, setsockopt, bind,
               file
      <3>. QED BY <1>4, <2>1, <3>1
    <2>. QED BY <2>2, <2>3, <2>4
  <1>. QED BY <1>5, <1>6

(* RowOK is kept by every step.                                            *)
LEMMA RowStep ==
  ASSUME Good, HandleOK, RowOK, [Next]_vars
  PROVE  RowOK'
  <1>. SUFFICES ASSUME alive', Calm', NEW i \in Settings
                PROVE  Writing(i)' \/ mem'[i] = disk'[i]
    BY DEF RowOK
  <1>0. /\ Calm /\ Well /\ {"server", "lcd", "save", "control"} \subseteq Thread
        /\ work \in [Thread -> Seq(GoodStep)]
        /\ alive => Writing(i) \/ mem[i] = disk[i]
        /\ i \in Item
    BY CalmBefore, Values DEF Good, RowOK, Well, WorkOK, Thread, Settings
  <1>1. ASSUME NEW t \in Thread, Threads(t) PROVE Writing(i)' \/ mem'[i] = disk'[i]
    BY <1>1, RowThread
  <1>2. CASE UNCHANGED vars \/ recvfrom \/ TimedOut
    <2>1. UNCHANGED <<mem, disk, work, alive>>
      BY <1>2 DEF vars, file, threads, recvfrom, TimedOut
    <2>. QED BY <1>0, <2>1 DEF Writing
  <1>3. CASE Receive \/ SaveThread \/ Complete
    <2>1. UNCHANGED <<mem, disk>> /\ alive
      BY <1>3 DEF Receive, SaveThread, Complete, file
    <2>2. \E t \in Thread : \E v :
            work[t] = <<>> /\ work' = [work EXCEPT ![t] = v]
      <3>1. CASE Receive
        <4>1. \E v : work' = [work EXCEPT !["server"] = v] /\ work["server"] = <<>>
          BY <1>0, <3>1 DEF Receive, Well, WorkOK
        <4>. QED BY <1>0, <4>1
      <3>2. CASE SaveThread
        <4>1. \E v : work' = [work EXCEPT !["save"] = v] /\ work["save"] = <<>>
          BY <3>2 DEF SaveThread
        <4>. QED BY <1>0, <4>1
      <3>3. CASE Complete
        <4>1. \E v : work' = [work EXCEPT !["control"] = v] /\ work["control"] = <<>>
          BY <3>3 DEF Complete
        <4>. QED BY <1>0, <4>1
      <3>. QED BY <1>3, <3>1, <3>2, <3>3
    <2>3. PICK t \in Thread : \E v : work[t] = <<>> /\ work' = [work EXCEPT ![t] = v]
      BY <2>2
    <2>4. PICK v : work[t] = <<>> /\ work' = [work EXCEPT ![t] = v]
      BY <2>3
    <2>5. Writing(i) => Writing(i)'
      BY <1>0, <2>4, WritingStarts
    <2>. QED BY <1>0, <2>1, <2>5
  <1>4. CASE Confirm
    <2>1. /\ alive /\ work["lcd"] = <<>> /\ disk' = disk
          /\ work' = [work EXCEPT !["lcd"] = ConfirmSteps]
      BY <1>4 DEF Confirm, ConfirmSteps, file
    <2>2. CASE i = Net
      <3>1. Len(ConfirmSteps) = 6 /\ ConfirmSteps[2] = Write(Net)
        BY DEF ConfirmSteps, NewSocket
      <3>2. ConfirmSteps \in Seq(GoodStep)
        BY ConfirmShape DEF Others
      <3>3. 2 \in DOMAIN work'["lcd"] /\ work'["lcd"][2] = Write(Net)
        BY <1>0, <2>1, <3>1, <3>2, LenProperties
      <3>4. Write(Net).op = "write" /\ Net \in Write(Net).on
        BY DEF Write, Step
      <3>. QED BY <1>0, <2>2, <3>3, <3>4 DEF Writing
    <2>3. CASE i # Net
      <3>1. mem'[i] = mem[i]
        BY <1>0, <1>4, <2>3 DEF Confirm, Good, ValuesOK, MemoryOK
      <3>2. Writing(i) => Writing(i)'
        BY <1>0, <2>1, WritingStarts
      <3>. QED BY <1>0, <2>1, <3>1, <3>2
    <2>. QED BY <2>2, <2>3
  <1>5. CASE Dead
    BY <1>5 DEF Dead
  <1>6. CASE PowerOn
    <2>1. PowerUp({}) /\ StoreOK
      BY <1>6, CalmBefore DEF Good, ValuesOK
    <2>. QED BY <2>1, PowerUpBased
  <1>. QED
    BY <1>1, <1>2, <1>3, <1>4, <1>5, <1>6 DEF Next, PowerOff, Misuse

(* Memory is filled in and agrees with the row.                            *)
LEMMA AlwaysStored == Spec => [](FilledOK /\ RowOK)
  <1>1. Init => FilledOK /\ RowOK
    BY DEF Init, FilledOK, RowOK
  <1>2. Good /\ HandleOK /\ FilledOK /\ RowOK /\ [Next]_vars => FilledOK' /\ RowOK'
    BY FilledStep, RowStep
  <1>. QED BY <1>1, <1>2, AlwaysKept, PTL DEF Spec

(* To be left without settings, two things must have failed.               *)
LEMMA TwoFaults ==
  ASSUME "load" \in failed, failed \cap {"system", "steps"} # {}
  PROVE  ~(Cardinality(failed \cap StartFaults) <= 1)
  <1>1. PICK x \in {"system", "steps"} : x \in failed
    OBVIOUS
  <1>. DEFINE S == failed \cap StartFaults
              T == {"load", x}
  <1>2. T \subseteq S /\ x # "load"
    BY <1>1 DEF StartFaults
  <1>3. IsFiniteSet(StartFaults)
    <2>1. StartFaults = {"create"} \cup {"load"} \cup {"system"} \cup {"steps"} \cup {"config"}
      BY DEF StartFaults
    <2>2. /\ IsFiniteSet({"create"}) /\ IsFiniteSet({"load"}) /\ IsFiniteSet({"system"})
          /\ IsFiniteSet({"steps"}) /\ IsFiniteSet({"config"})
      BY FS_Singleton
    <2>. QED BY <2>1, <2>2, FS_Union
  <1>4. IsFiniteSet(S)
    BY <1>3, FS_Subset
  <1>5. Cardinality(T) = 2
    <2>1. IsFiniteSet({"load"}) /\ Cardinality({"load"}) = 1
      BY FS_Singleton
    <2>2. T = {"load"} \cup {x} /\ x \notin {"load"}
      BY <1>2
    <2>3. Cardinality({"load"} \cup {x}) = Cardinality({"load"}) + 1
      BY <1>2, <2>1, FS_AddElement
    <2>. QED BY <2>1, <2>2, <2>3
  <1>6. Cardinality(T) <= Cardinality(S)
    BY <1>2, <1>4, FS_Subset
  <1>7. Cardinality(S) \in Nat
    BY <1>4, FS_CardinalityType
  <1>. QED BY <1>5, <1>6, <1>7

(* SettingsKept: the settings in memory are a row or the defaults, and as  *)
(* long as nothing has failed they are the row of the file.                *)
THEOREM SettingsStay == Spec => []SettingsKept
  <1>1. FilledOK /\ RowOK => SettingsKept
    BY TwoFaults DEF FilledOK, RowOK, Calm, SettingsKept
  <1>. QED BY <1>1, AlwaysStored, PTL
=============================================================================
