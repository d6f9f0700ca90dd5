-------------------------- MODULE RecordSafety_proofs --------------------------
(***************************************************************************)
(* Proofs that the queue of a record keeps its promises, also behind       *)
(* handlers that have thrown: no task is refused by its handler, a load    *)
(* gets what was stored before it, a flush that ends without an exception  *)
(* has saved everything, and the record implements DatasetStore.           *)
(*                                                                         *)
(* The invariant follows a component from the user's calls to the file.    *)
(* What is to be written of it, the outstanding tasks, is in the queue or  *)
(* still with the component.  In this order, versions grow, and what the   *)
(* file holds of a cell is older than all of them; a load comes behind the *)
(* version that it wants and before the next.  The newest version is       *)
(* either outstanding or in the file.                                      *)
(*                                                                         *)
(* JSON's copy, truncated files and closed files are behind one operator,  *)
(* node(c): what the backend would read of a component now.                *)
(***************************************************************************)
EXTENDS RecordStorage_proofs, WellFoundedInduction

-----------------------------------------------------------------------------
(* The invariant.                                                          *)

node(c) == IF Legible THEN contents[c] ELSE NoNode

Tasks(q)   == {q[i] : i \in DOMAIN q}
TasksOf(c) == {t \in Tasks(m_work) : t.comp = c}
Outstanding(c) == TasksOf(c) \cup Tasks(rc[c].chunks)

Creators   == {"CREATE_DATASET", "CREATE_GROUP"}
Data       == {"WRITE_DATASET", "READ_DATASET"}
Attributes == {"WRITE_VALUE", "WRITE_SHAPE", "WRITE_ATT"}
Openers    == {"CREATE_FILE", "OPEN_FILE"}
Deletions  == {"DELETE_PATH", "DELETE_ATT"}

Stores(t, k, v) == t.op = "WRITE_DATASET" /\ k \in t.box /\ t.ver = v
Queued(o, c) == \E t \in TasksOf(c) : t.op = o

\* Task t is ahead of task u.
InOrder(t, u) ==
  t.comp = u.comp =>
    /\ t.op = "WRITE_DATASET" /\ u.op = "WRITE_DATASET" =>
         \A k \in t.box \cap u.box : t.ver <= u.ver
    /\ t.op = "WRITE_DATASET" /\ u.op = "READ_DATASET" =>
         \A k \in t.box \cap u.box : t.ver <= u.want[k]
    /\ t.op = "READ_DATASET" /\ u.op = "WRITE_DATASET" =>
         \A k \in t.box \cap u.box : t.want[k] < u.ver
    /\ t.op = "WRITE_ATT" /\ u.op = "WRITE_ATT" => t.ver <= u.ver
    /\ t.op # "DELETE_PATH"
    /\ u.op \notin Deletions
AllInOrder(S, T) == \A t \in S, u \in T : InOrder(t, u)
Ordered(q) == \A i, j \in DOMAIN q : i < j => InOrder(q[i], q[j])

OrderInv ==
  /\ Ordered(m_work)
  /\ \A c \in components :
       Ordered(rc[c].chunks) /\ AllInOrder(Tasks(m_work), Tasks(rc[c].chunks))

\* A task comes behind those that open the file and create its component,
\* unless that has been done; and the group of a constant component does not
\* come without its value and its shape.
OpenAt(q, p)    == isOpen \/ \E j \in 1 .. p - 1 : q[j].op \in Openers
CreatedAt(q, p) == \/ written[q[p].comp]
                   \/ \E j \in 1 .. p - 1 : q[j].op \in Creators /\ q[j].comp = q[p].comp
FollowedBy(q, p, o) == \E j \in p + 1 .. Len(q) : q[j].op = o /\ q[j].comp = q[p].comp
ReadyAt(q, p) ==
  /\ q[p].op \notin Openers \cup {"DELETE_ATT"} => OpenAt(q, p)
  /\ q[p].op \in Data \cup Attributes => CreatedAt(q, p)
  /\ q[p].op = "CREATE_GROUP" =>
       FollowedBy(q, p, "WRITE_VALUE") /\ FollowedBy(q, p, "WRITE_SHAPE")
ReadyInv == \A p \in DOMAIN m_work : ReadyAt(m_work, p)

\* The component is, or may have been, deleted behind the user's back; its
\* attribute is being deleted.
Erasing(c)  == call.op = "erase" /\ call.comp = c
Lost(c)     == c \in doomed \/ Erasing(c)
Deleting(c) == call.op = "deleteAttribute" /\ call.comp = c

\* What is known of an outstanding chunk of a component.
StoreFact(c, t) ==
  access # "READ_ONLY" /\ \A k \in t.box : node(c).cells[k] <= t.ver /\ t.ver <= stored[c][k]
LoadFact(c, t) ==
  \A k \in Cell :
    /\ k \notin t.box => t.want[k] = 0
    /\ k \in t.box =>
         /\ 0 < t.want[k] /\ t.want[k] <= stored[c][k]
         /\ node(c).cells[k] <= t.want[k]
         /\ \/ node(c).cells[k] = t.want[k]
            \/ \E u \in Outstanding(c) : Stores(u, k, t.want[k])
ChunkFact(c, t) ==
  /\ t.op \in Data => ~rc[c].constant /\ t.box \subseteq rc[c].box
  /\ t.op = "WRITE_DATASET" => StoreFact(c, t)
  /\ t.op = "READ_DATASET" => LoadFact(c, t)

\* ... and of another task.
TaskFact(c, t) ==
  /\ t.op = "CREATE_DATASET" => ~rc[c].constant /\ t.box = rc[c].box
  /\ t.op \in {"CREATE_GROUP", "WRITE_VALUE", "WRITE_SHAPE"} => rc[c].constant
  /\ t.op = "WRITE_VALUE" => t.ver = rc[c].value
  /\ t.op = "WRITE_SHAPE" => t.box = rc[c].box
  /\ t.op = "WRITE_ATT" => 0 < t.ver /\ node(c).att <= t.ver /\ t.ver <= rc[c].att
  /\ t.op = "DELETE_ATT" =>
       /\ Lost(c) \/ Deleting(c)
       /\ written[c] => isOpen /\ (backend = "HDF5" => node(c).att # 0)
  /\ t.op = "DELETE_PATH" =>
       /\ Lost(c) /\ written[c] /\ ~rc[c].dirty /\ rc[c].chunks = <<>>
       /\ backend = "HDF5" => node(c).kind # "none"
  /\ t.op = "AVAILABLE_CHUNKS" => ~rc[c].constant /\ written[c]

TasksInv(c) ==
  /\ \A t \in TasksOf(c) : c \in components /\ TaskFact(c, t) /\ ChunkFact(c, t)
  /\ c \in components =>
       \A t \in Tasks(rc[c].chunks) : t.op \in Data /\ t.comp = c /\ ChunkFact(c, t)

\* The node has the form that was declared, as far as it is created.
Declared(c) ==
  /\ ~rc[c].constant => node(c).kind = "dataset" /\ node(c).box = rc[c].box
  /\ rc[c].constant =>
       /\ node(c).kind = "group"
       /\ node(c).box = rc[c].box \/ Queued("WRITE_SHAPE", c)
       /\ node(c).value = rc[c].value \/ Queued("WRITE_VALUE", c)
NodeInv(c) ==
  /\ ~written[c] => node(c) = NoNode
  /\ c \notin components => ~written[c]
  /\ written[c] =>
       \/ Declared(c)
       \/ backend = "JSON" /\ Queued("DELETE_PATH", c) /\ node(c) = NoNode

\* The newest version of a cell is in the file or outstanding.
CellInv(c) ==
  \A k \in Cell :
    /\ stored[c][k] <= changes + 1
    /\ c \in components => node(c).cells[k] <= stored[c][k]
    /\ c \in components /\ ~Lost(c) =>
         \/ node(c).cells[k] = stored[c][k]
         \/ \E u \in Outstanding(c) : Stores(u, k, stored[c][k])

\* ... and so is that of the attribute.
AttInv(c) ==
  c \in components =>
    /\ rc[c].att <= changes + 1 /\ node(c).att <= changes + 1
    /\ rc[c].att # 0 => node(c).att <= rc[c].att
    /\ ~Lost(c) /\ ~Deleting(c) /\ rc[c].att # 0 =>
         \/ rc[c].dirty \/ node(c).att = rc[c].att
         \/ \E t \in TasksOf(c) : t.op = "WRITE_ATT" /\ t.ver = rc[c].att
    /\ ~Lost(c) /\ ~Deleting(c) /\ rc[c].att = 0 /\ backend = "HDF5" => node(c).att = 0

\* Nothing but the deletion is queued for a component in a call that deletes.
DeletionInv(c) ==
  /\ Deleting(c) =>
       /\ \A t \in TasksOf(c) : t.op = "DELETE_ATT"
       /\ backend = "HDF5" => node(c).att = 0 \/ Queued("DELETE_ATT", c)
  /\ Erasing(c) =>
       /\ \A t \in TasksOf(c) : t.op = "DELETE_PATH"
       /\ ~written[c] \/ Queued("DELETE_PATH", c)

\* What is not dirty is created, or is about to be.
CleanInv(c) ==
  c \in components =>
    /\ ~rc[c].dirty /\ ~Lost(c) => written[c] \/ \E o \in Creators : Queued(o, c)
    /\ access = "READ_ONLY" => ~rc[c].dirty /\ written[c]

CompInv(c) ==
  TasksInv(c) /\ NodeInv(c) /\ CellInv(c) /\ AttInv(c) /\ DeletionInv(c) /\ CleanInv(c)

\* The file and JSON's copy of it.
FileInv ==
  /\ access = "CREATE" =>
       /\ encoding = "groupBased" /\ isOpen = fileWritten
       /\ ~fileWritten => m_jsonVals = None /\ disk = None
  /\ access # "CREATE" \/ fileWritten => Legible
  /\ backend = "HDF5" => m_jsonVals = None /\ disk # Torn
  /\ m_jsonVals # None /\ ~m_dirty => disk = m_jsonVals \/ Pending

\* Tasks that are about the file.
FileTaskInv ==
  /\ \A t \in Tasks(m_work) :
       /\ t.op = "CREATE_FILE" => access = "CREATE"
       /\ t.op = "OPEN_FILE" => access # "CREATE"
       /\ t.op \in {"CLOSE_FILE", "READ_ATT"} => call.op = "construct"
       /\ t.op \in Writers => access # "READ_ONLY"
  /\ access # "CREATE" /\ encoding = "groupBased" =>
       isOpen \/ (call.op = "construct" /\ m_work = parseTasks)
  /\ call.op = "construct" =>
       /\ phase = "drain" /\ access # "CREATE"
       /\ m_work \in {parseTasks, Tail(parseTasks), Tail(Tail(parseTasks)), <<>>}

\* A flush passes over no component.
Visits == phase = "drain" /\ call.op \in {"flush", "destroy"}
PhaseInv ==
  /\ \A c \in components :
       Visits \/ (phase = "flush" /\ c \notin todo) => ~rc[c].dirty /\ rc[c].chunks = <<>>
  /\ phase = "flush" => isOpen \/ \E t \in Tasks(m_work) : t.op \in Openers
  /\ (phase = "flush" \/ Visits) /\ access = "CREATE" =>
       fileWritten \/ \E t \in Tasks(m_work) : t.op = "CREATE_FILE"
  /\ phase \in {"flush", "drain"} => result # "flushed"

QueueInv ==
  phase # "gone" =>
    /\ OrderInv /\ ReadyInv /\ FileInv /\ FileTaskInv /\ PhaseInv
    /\ \A c \in Comp : CompInv(c)

-----------------------------------------------------------------------------
(* Queues.                                                                 *)

LEMMA TailTasks ==
  ASSUME NEW q \in Seq(IOTask), q # <<>>
  PROVE  /\ Head(q) \in IOTask /\ Head(q) \in Tasks(q) /\ Tail(q) \in Seq(IOTask)
         /\ Tasks(q) = {Head(q)} \cup Tasks(Tail(q))
         /\ Ordered(q) => Ordered(Tail(q)) /\ \A u \in Tasks(Tail(q)) : InOrder(Head(q), u)
<1>1. /\ Len(q) \in Nat \ {0} /\ DOMAIN q = 1 .. Len(q)
      /\ Head(q) = q[1] /\ Tail(q) \in Seq(IOTask) /\ q[1] \in IOTask
      /\ DOMAIN Tail(q) = 1 .. Len(q) - 1
      /\ \A i \in 1 .. Len(q) - 1 : Tail(q)[i] = q[i + 1]
  OBVIOUS
<1>2. \A u \in Tasks(Tail(q)) : \E i \in 2 .. Len(q) : u = q[i]
  BY <1>1 DEF Tasks
<1>3. \A i \in 2 .. Len(q) : q[i] \in Tasks(Tail(q))
  <2> TAKE i \in 2 .. Len(q)
  <2>1. i - 1 \in DOMAIN Tail(q) /\ Tail(q)[i - 1] = q[i]
    BY <1>1
  <2> QED
    BY <2>1 DEF Tasks
<1>4. Tasks(q) = {Head(q)} \cup Tasks(Tail(q))
  <2>1. \A u \in Tasks(q) : u = q[1] \/ \E i \in 2 .. Len(q) : u = q[i]
    BY <1>1 DEF Tasks
  <2>2. \A i \in 1 .. Len(q) : q[i] \in Tasks(q)
    BY <1>1 DEF Tasks
  <2> QED
    BY <1>1, <1>2, <1>3, <2>1, <2>2
<1>5. Ordered(q) => Ordered(Tail(q))
  <2> SUFFICES ASSUME Ordered(q), NEW i \in DOMAIN Tail(q), NEW j \in DOMAIN Tail(q), i < j
               PROVE  InOrder(Tail(q)[i], Tail(q)[j])
    BY DEF Ordered
  <2>1. i + 1 \in DOMAIN q /\ j + 1 \in DOMAIN q /\ i + 1 < j + 1
    BY <1>1
  <2>2. Tail(q)[i] = q[i + 1] /\ Tail(q)[j] = q[j + 1]
    BY <1>1
  <2> QED
    BY <2>1, <2>2 DEF Ordered
<1>6. Ordered(q) => \A u \in Tasks(Tail(q)) : InOrder(Head(q), u)
  <2> SUFFICES ASSUME Ordered(q), NEW u \in Tasks(Tail(q)) PROVE InOrder(q[1], u)
    BY <1>1
  <2>1. PICK i \in 2 .. Len(q) : u = q[i]
    BY <1>2
  <2>2. 1 \in DOMAIN q /\ i \in DOMAIN q /\ 1 < i
    BY <1>1
  <2> QED
    BY <2>1, <2>2 DEF Ordered
<1> QED
  BY <1>1, <1>4, <1>5, <1>6 DEF Tasks

LEMMA ConcatTasks ==
  ASSUME NEW p \in Seq(IOTask), NEW q \in Seq(IOTask)
  PROVE  /\ Tasks(p \o q) = Tasks(p) \cup Tasks(q)
         /\ Ordered(p \o q) <=> Ordered(p) /\ Ordered(q) /\ AllInOrder(Tasks(p), Tasks(q))
<1> DEFINE r == p \o q
<1>1. /\ DOMAIN p = 1 .. Len(p) /\ DOMAIN q = 1 .. Len(q)
      /\ DOMAIN r = 1 .. Len(p) + Len(q) /\ Len(p) \in Nat /\ Len(q) \in Nat
      /\ \A i \in 1 .. Len(p) : r[i] = p[i]
      /\ \A i \in 1 .. Len(q) : r[Len(p) + i] = q[i] /\ Len(p) + i \in DOMAIN r
  OBVIOUS
<1> HIDE DEF r
<1>2. \A i \in DOMAIN r : i \in DOMAIN p \/ (i - Len(p) \in DOMAIN q /\ r[i] = q[i - Len(p)])
  <2> TAKE i \in DOMAIN r
  <2>1. CASE i <= Len(p)
    BY <1>1, <2>1
  <2>2. CASE i > Len(p)
    <3>1. i - Len(p) \in 1 .. Len(q) /\ Len(p) + (i - Len(p)) = i
      BY <1>1, <2>2
    <3> QED
      BY <1>1, <3>1
  <2> QED
    BY <1>1, <2>1, <2>2
<1>3. Tasks(r) = Tasks(p) \cup Tasks(q)
  <2>1. \A i \in DOMAIN p : i \in DOMAIN r
    BY <1>1
  <2>2. Tasks(r) \subseteq Tasks(p) \cup Tasks(q)
    BY <1>1, <1>2 DEF Tasks
  <2>3. Tasks(p) \subseteq Tasks(r)
    BY <1>1, <2>1 DEF Tasks
  <2>4. Tasks(q) \subseteq Tasks(r)
    BY <1>1 DEF Tasks
  <2> QED
    BY <2>2, <2>3, <2>4
<1>4. ASSUME Ordered(r) PROVE Ordered(p) /\ Ordered(q) /\ AllInOrder(Tasks(p), Tasks(q))
  <2>1. Ordered(p)
    BY <1>1, <1>4 DEF Ordered
  <2>2. Ordered(q)
    <3> SUFFICES ASSUME NEW i \in DOMAIN q, NEW j \in DOMAIN q, i < j PROVE InOrder(q[i], q[j])
      BY DEF Ordered
    <3>1. Len(p) + i \in DOMAIN r /\ Len(p) + j \in DOMAIN r /\ Len(p) + i < Len(p) + j
      BY <1>1
    <3>2. r[Len(p) + i] = q[i] /\ r[Len(p) + j] = q[j]
      BY <1>1
    <3> QED
      BY <1>4, <3>1, <3>2 DEF Ordered
  <2>3. AllInOrder(Tasks(p), Tasks(q))
    <3> SUFFICES ASSUME NEW i \in DOMAIN p, NEW j \in DOMAIN q PROVE InOrder(p[i], q[j])
      BY DEF AllInOrder, Tasks
    <3>1. i \in DOMAIN r /\ Len(p) + j \in DOMAIN r /\ i < Len(p) + j
      BY <1>1
    <3>2. r[i] = p[i] /\ r[Len(p) + j] = q[j]
      BY <1>1
    <3> QED
      BY <1>4, <3>1, <3>2 DEF Ordered
  <2> QED
    BY <2>1, <2>2, <2>3
<1>5. ASSUME Ordered(p), Ordered(q), AllInOrder(Tasks(p), Tasks(q)) PROVE Ordered(r)
  <2> SUFFICES ASSUME NEW i \in DOMAIN r, NEW j \in DOMAIN r, i < j PROVE InOrder(r[i], r[j])
    BY DEF Ordered
  <2>1. CASE i \in DOMAIN p /\ j \in DOMAIN p
    BY <1>1, <1>5, <2>1 DEF Ordered
  <2>2. CASE i \in DOMAIN p /\ j \notin DOMAIN p
    <3>1. r[i] \in Tasks(p) /\ r[j] \in Tasks(q)
      BY <1>1, <1>2, <2>2 DEF Tasks
    <3> QED
      BY <1>5, <3>1 DEF AllInOrder
  <2>3. CASE i \notin DOMAIN p
    <3>1. j \notin DOMAIN p
      BY <1>1, <2>3
    <3>2. /\ i - Len(p) \in DOMAIN q /\ r[i] = q[i - Len(p)]
          /\ j - Len(p) \in DOMAIN q /\ r[j] = q[j - Len(p)] /\ i - Len(p) < j - Len(p)
      BY <1>1, <1>2, <2>3, <3>1
    <3> QED
      BY <1>5, <3>2 DEF Ordered
  <2> QED
    BY <2>1, <2>2, <2>3
<1> QED
  BY <1>3, <1>4, <1>5 DEF r

LEMMA SmallQueues ==
  /\ Tasks(<<>>) = {} /\ Ordered(<<>>)
  /\ \A x : Tasks(<<x>>) = {x} /\ Ordered(<<x>>)
<1>1. DOMAIN <<>> = {} /\ \A x : DOMAIN <<x>> = {1} /\ <<x>>[1] = x
  OBVIOUS
<1> QED
  BY <1>1 DEF Tasks, Ordered

LEMMA AppendTasks ==
  ASSUME NEW q \in Seq(IOTask), NEW t \in IOTask
  PROVE  /\ Tasks(Append(q, t)) = Tasks(q) \cup {t}
         /\ Ordered(q) /\ AllInOrder(Tasks(q), {t}) => Ordered(Append(q, t))
<1> DEFINE s == <<t>>
<1>1. Append(q, t) = q \o s /\ s \in Seq(IOTask)
  OBVIOUS
<1>2. Tasks(s) = {t} /\ Ordered(s)
  BY SmallQueues
<1> HIDE DEF s
<1>3. /\ Tasks(q \o s) = Tasks(q) \cup Tasks(s)
      /\ Ordered(q \o s) <=> Ordered(q) /\ Ordered(s) /\ AllInOrder(Tasks(q), Tasks(s))
  BY <1>1, ConcatTasks
<1> QED
  BY <1>1, <1>2, <1>3

\* The tasks of a queue are tasks.
LEMMA TasksType ==
  ASSUME NEW q \in Seq(IOTask)
  PROVE  Tasks(q) \subseteq IOTask
BY DEF Tasks

-----------------------------------------------------------------------------
(* Nodes.                                                                  *)

LEMMA NodeType ==
  ASSUME HandlersTypeOK, NEW c \in Comp
  PROVE  /\ node(c) \in Node /\ node(c).cells \in [Cell -> Version]
         /\ node(c).att \in Version /\ node(c).box \in SUBSET Cell
<1>1. node(c) \in Node
  BY NodeTypes, LegibleContents DEF node, Contents
<1> QED
  BY <1>1 DEF Node

\* The fields of the node of a component that is not in the file.
LEMMA NoNodeFields ==
  /\ NoNode.kind = "none" /\ NoNode.box = {} /\ NoNode.value = 0 /\ NoNode.att = 0
  /\ \A k \in Cell : NoNode.cells[k] = 0
BY DEF NoNode, Nothing

\* Whether a file is legible and what it contains, when it is written or the
\* copy is changed.
LEMMA WrittenContents ==
  ASSUME HandlersTypeOK, FileInv, UNCHANGED backend, NEW K \in Contents,
         markDirty(K) \/ putJsonContents(K)
  PROVE  Legible' /\ contents' = K
<1>1. K # None /\ K # Torn
  BY FileAssumption
<1>2. CASE backend = "JSON"
  BY <1>1, <1>2 DEF markDirty, putJsonContents, Legible, contents
<1>3. CASE backend # "JSON"
  <2>1. m_jsonVals = None
    BY <1>3 DEF FileInv, HandlersTypeOK, Backend
  <2> QED
    BY <1>1, <1>3, <2>1 DEF markDirty, putJsonContents, Legible, contents
<1> QED
  BY <1>2, <1>3

LEMMA SameContents ==
  ASSUME UNCHANGED <<m_jsonVals, disk>>
  PROVE  contents' = contents /\ Legible' = Legible /\ \A c \in Comp : node(c)' = node(c)
BY DEF contents, Legible, node

LEMMA ObtainedContents ==
  ASSUME HandlersTypeOK, FileInv, Legible, obtainJsonContents
  PROVE  Legible' /\ contents' = contents
<1>1. CASE backend = "JSON"
  BY <1>1 DEF obtainJsonContents, Legible, contents
<1>2. CASE backend # "JSON"
  <2>1. m_jsonVals = None
    BY <1>2 DEF FileInv, HandlersTypeOK, Backend
  <2> QED
    BY <1>2, <2>1 DEF obtainJsonContents, Legible, contents
<1> QED
  BY <1>1, <1>2

\* What a task makes of the node of its component.
Effect(t, n) ==
  CASE t.op = "CREATE_GROUP"   -> [n EXCEPT !.kind = IF @ = "none" THEN "group" ELSE @]
    [] t.op = "CREATE_DATASET" -> [NoNode EXCEPT !.kind = "dataset", !.box = t.box]
    [] t.op = "WRITE_VALUE"    -> [n EXCEPT !.value = t.ver]
    [] t.op = "WRITE_SHAPE"    -> [n EXCEPT !.box = t.box]
    [] t.op = "WRITE_ATT"      -> [n EXCEPT !.att = t.ver]
    [] t.op = "WRITE_DATASET"  ->
         [n EXCEPT !.cells = [k \in Cell |-> IF k \in t.box THEN t.ver ELSE @[k]]]
    [] t.op = "DELETE_PATH"    -> NoNode
    [] t.op = "DELETE_ATT"     -> IF backend = "JSON" THEN n ELSE [n EXCEPT !.att = 0]
    [] OTHER                   -> n

Affects(t, c) == c = t.comp /\ ~Skipped(t)

\* The contents of the file change in the node of the task's component only.
LEMMA ChangedNode ==
  ASSUME HandlersTypeOK, Legible, NEW t \in IOTask, NEW n, t.comp \in Comp, ~Skipped(t),
         n = Effect(t, contents[t.comp]),
         Legible', contents' = [contents EXCEPT ![t.comp] = n]
  PROVE  \A c \in Comp : node(c)' = IF Affects(t, c) THEN Effect(t, node(c)) ELSE node(c)
<1>1. contents \in [Comp -> Node]
  BY LegibleContents DEF Contents
<1> QED
  BY <1>1 DEF node, Affects

LEMMA ResultEffect ==
  ASSUME HandlersTypeOK, Legible, NEW t \in IOTask,
         t.op \in {"WRITE_DATASET", "DELETE_PATH", "DELETE_ATT"}
  PROVE  Result(t) = [contents EXCEPT ![t.comp] = Effect(t, contents[t.comp])]
<1>1. contents \in [Comp -> Node] /\ t.comp \in Comp
  BY LegibleContents, TaskFields DEF Contents, FileTasks
<1>2. CASE t.op = "WRITE_DATASET"
  BY <1>1, <1>2 DEF Result, Effect, withCells
<1>3. CASE t.op = "DELETE_PATH"
  BY <1>1, <1>3 DEF Result, Effect, withoutPath
<1>4. CASE t.op = "DELETE_ATT"
  BY <1>1, <1>4 DEF Result, Effect, withoutAttribute
<1> QED
  BY <1>2, <1>3, <1>4

\* A task that creates or changes something in the copy.
MarkedContents(t) ==
  IF t.op = "CREATE_FILE" THEN Blank
  ELSE IF t.op = "CREATE_PATH" THEN contents
  ELSE [contents EXCEPT ![t.comp] = Effect(t, contents[t.comp])]

LEMMA ExecuteMarks ==
  ASSUME HandlersTypeOK, NEW t \in IOTask, ~Skipped(t), ~Refused(t), Execute(t),
         t.op \in {"CREATE_FILE", "CREATE_PATH"} \cup Creators \cup Attributes
  PROVE  MarkedContents(t) \in Contents /\ markDirty(MarkedContents(t))
<1>1. CASE t.op = "CREATE_FILE"
  BY <1>1, NodeTypes DEF Execute, createFile, MarkedContents
<1>2. CASE t.op # "CREATE_FILE"
  <2>1. contents \in Contents
    BY <1>2, NotRefused, LegibleContents DEF Creators, Attributes
  <2>2. CASE t.op = "CREATE_PATH"
    BY <2>1, <2>2 DEF Execute, createPath, MarkedContents
  <2>3. CASE t.op = "CREATE_GROUP"
    <3> DEFINE K == [contents EXCEPT ![t.comp].kind = IF @ = "none" THEN "group" ELSE @]
    <3>1. K = MarkedContents(t)
      BY <2>3 DEF MarkedContents, Effect
    <3>2. markDirty(K)
      BY <2>3 DEF Execute, createGroup
    <3>3. K \in Contents
      BY <2>1, ContentsChanges
    <3> HIDE DEF K
    <3> QED
      BY <3>1, <3>2, <3>3 DEF markDirty
  <2>4. CASE t.op = "CREATE_DATASET"
    <3> DEFINE n == [NoNode EXCEPT !.kind = "dataset", !.box = t.box]
               K == [contents EXCEPT ![t.comp] = n]
    <3>1. K = MarkedContents(t)
      BY <2>4 DEF MarkedContents, Effect
    <3>2. markDirty(K)
      BY <2>4 DEF Execute, createDataset
    <3>3. n \in Node
      BY NodeTypes, TaskFields DEF Node, Kind
    <3> HIDE DEF n
    <3>4. K \in Contents
      BY <2>1, <3>3, ContentsChanges
    <3> HIDE DEF K
    <3> QED
      BY <3>1, <3>2, <3>4 DEF markDirty
  <2>5. CASE t.op = "WRITE_VALUE"
    <3> DEFINE K == [contents EXCEPT ![t.comp].value = t.ver]
    <3>1. K = MarkedContents(t)
      BY <2>5 DEF MarkedContents, Effect
    <3>2. markDirty(K)
      BY <2>5 DEF Execute, writeAttribute
    <3>3. K \in Contents
      BY <2>1, TaskFields, ContentsChanges
    <3> HIDE DEF K
    <3> QED
      BY <3>1, <3>2, <3>3 DEF markDirty
  <2>6. CASE t.op = "WRITE_SHAPE"
    <3> DEFINE K == [contents EXCEPT ![t.comp].box = t.box]
    <3>1. K = MarkedContents(t)
      BY <2>6 DEF MarkedContents, Effect
    <3>2. markDirty(K)
      BY <2>6 DEF Execute, writeAttribute
    <3>3. K \in Contents
      BY <2>1, TaskFields, ContentsChanges
    <3> HIDE DEF K
    <3> QED
      BY <3>1, <3>2, <3>3 DEF markDirty
  <2>7. CASE t.op = "WRITE_ATT"
    <3> DEFINE K == [contents EXCEPT ![t.comp].att = t.ver]
    <3>1. K = MarkedContents(t)
      BY <2>7 DEF MarkedContents, Effect
    <3>2. markDirty(K)
      BY <2>7 DEF Execute, writeAttribute
    <3>3. K \in Contents
      BY <2>1, TaskFields, ContentsChanges
    <3> HIDE DEF K
    <3> QED
      BY <3>1, <3>2, <3>3 DEF markDirty
  <2> QED
    BY <1>2, <2>2, <2>3, <2>4, <2>5, <2>6, <2>7 DEF Creators, Attributes
<1> QED
  BY <1>1, <1>2

\* One turn of the loop changes one node at most, in the way of its task.
LEMMA ExecuteNodes ==
  ASSUME HandlersTypeOK, FileInv, NEW t \in IOTask, ~Refused(t), Execute(t),
         UNCHANGED fixed, t.op = "CREATE_FILE" => access = "CREATE"
  PROVE  /\ \A c \in Comp : node(c)' = IF Affects(t, c) THEN Effect(t, node(c)) ELSE node(c)
         /\ Legible => Legible'
         /\ t.op = "CREATE_FILE" /\ ~Skipped(t) => Legible'
<1> DEFINE Goal == \A c \in Comp : node(c)' = IF Affects(t, c) THEN Effect(t, node(c)) ELSE node(c)
<1>1. backend' = backend
  BY DEF fixed
<1>2. CASE Skipped(t)
  <2>1. UNCHANGED <<m_jsonVals, disk>>
    BY <1>2 DEF Execute, file
  <2> QED
    BY <1>2, <2>1, SameContents DEF Affects
<1>3. CASE ~Skipped(t) /\ t.op \in {"CREATE_FILE", "CREATE_PATH"} \cup Creators \cup Attributes
  <2>1. MarkedContents(t) \in Contents /\ markDirty(MarkedContents(t))
    BY <1>3, ExecuteMarks
  <2>2. Legible' /\ contents' = MarkedContents(t)
    BY <1>1, <2>1, WrittenContents
  <2>3. CASE t.op = "CREATE_FILE"
    <3>1. ~fileWritten /\ access = "CREATE"
      BY <1>3, <2>3 DEF Skipped
    <3>2. ~Legible
      BY <3>1 DEF FileInv, Legible, contents
    <3>3. \A c \in Comp : Blank[c] = NoNode /\ ~Affects(t, c)
      <4>1. t.comp = None
        BY <2>3 DEF IOTask, FileTasks
      <4> QED
        BY <4>1, CompAssumption DEF Blank, Affects
    <3> QED
      BY <2>2, <2>3, <3>2, <3>3 DEF MarkedContents, node
  <2>4. CASE t.op = "CREATE_PATH"
    <3>1. Legible
      BY <1>3, <2>4, NotRefused
    <3>2. \A c \in Comp : ~Affects(t, c)
      <4>1. t.comp = None
        BY <2>4 DEF IOTask, FileTasks
      <4> QED
        BY <4>1, CompAssumption DEF Affects
    <3> QED
      BY <2>2, <2>4, <3>1, <3>2 DEF MarkedContents, node
  <2>5. CASE t.op \in Creators \cup Attributes
    <3>1. Legible /\ t.comp \in Comp
      BY <1>3, <2>5, NotRefused, TaskFields DEF Creators, Attributes, FileTasks
    <3>2. contents' = [contents EXCEPT ![t.comp] = Effect(t, contents[t.comp])]
      BY <2>2, <2>5 DEF MarkedContents, Creators, Attributes
    <3>3. Goal
      BY <1>3, <2>2, <3>1, <3>2, ChangedNode
    <3> QED
      BY <2>2, <3>3
  <2> QED
    BY <1>3, <2>3, <2>4, <2>5
<1>4. CASE ~Skipped(t) /\ t.op \in {"WRITE_DATASET", "DELETE_PATH", "DELETE_ATT"}
  <2>1. Legible /\ t.comp \in Comp /\ contents \in Contents
    BY <1>4, NotRefused, TaskFields, LegibleContents DEF FileTasks
  <2>2. putJsonContents(Result(t)) /\ Result(t) \in Contents
    BY <1>4, <2>1, ResultType DEF Execute, writeDataset, deletePath, deleteAttribute
  <2>3. Legible' /\ contents' = Result(t)
    BY <1>1, <2>2, WrittenContents
  <2>4. Result(t) = [contents EXCEPT ![t.comp] = Effect(t, contents[t.comp])]
    BY <1>4, <2>1, ResultEffect
  <2>5. Goal
    BY <1>4, <2>1, <2>3, <2>4, ChangedNode
  <2> QED
    BY <1>4, <2>3, <2>5
<1>5. CASE ~Skipped(t) /\ t.op \in {"OPEN_FILE", "CLOSE_FILE"} \cup Readers
  <2>1. \A c \in Comp : Affects(t, c) => Effect(t, node(c)) = node(c)
    BY <1>5 DEF Effect, Readers
  <2>2. (Legible => Legible') /\ \A c \in Comp : node(c)' = node(c)
    <3>1. CASE t.op = "OPEN_FILE" \/ (t.op = "CLOSE_FILE" /\ m_jsonVals = None)
      <4>1. UNCHANGED <<m_jsonVals, disk>>
        BY <1>5, <3>1 DEF Execute, openFile, closeFile, file
      <4> QED
        BY <4>1, SameContents
    <3>2. CASE t.op = "CLOSE_FILE" /\ m_jsonVals # None
      <4>1. putJsonContents(contents) /\ contents \in Contents
        BY <1>5, <3>2, LegibleContents DEF Execute, closeFile
      <4>2. Legible
        BY <4>1, FileAssumption DEF Legible
      <4>3. Legible' /\ contents' = contents
        BY <1>1, <4>1, WrittenContents
      <4> QED
        BY <4>2, <4>3 DEF node
    <3>3. CASE t.op \in Readers
      <4>1. Legible /\ obtainJsonContents
        BY <1>5, <3>3, NotRefused
           DEF Readers, Execute, readAttribute, readDataset, availableChunks
      <4>2. Legible' /\ contents' = contents
        BY <4>1, ObtainedContents
      <4> QED
        BY <4>1, <4>2 DEF node
    <3> QED
      BY <1>5, <3>1, <3>2, <3>3
  <2> QED
    BY <1>5, <2>1, <2>2 DEF Readers
<1> QED
  BY <1>2, <1>3, <1>4, <1>5, TaskFields DEF Operation, Readers, Creators, Attributes

\* ... and flags in the way of its task.
LEMMA ExecuteFlags ==
  ASSUME HandlersTypeOK, NEW t \in IOTask, Execute(t)
  PROVE  /\ \A c \in Comp : ~Affects(t, c) => written'[c] = written[c]
         /\ Affects(t, t.comp) /\ t.comp \in Comp =>
              /\ t.op \in Creators => written'[t.comp]
              /\ t.op \in Attributes \cup {"WRITE_DATASET"} =>
                   written'[t.comp] = (written[t.comp] \/ backend = "JSON")
              /\ t.op = "DELETE_PATH" => ~written'[t.comp]
              /\ t.op \in {"DELETE_ATT"} \cup Readers => written'[t.comp] = written[t.comp]
         /\ t.op # "CLOSE_FILE" /\ isOpen => isOpen'
         /\ t.op = "OPEN_FILE" => isOpen'
         /\ t.op = "CREATE_FILE" /\ ~Skipped(t) => isOpen' /\ fileWritten'
         /\ fileWritten => fileWritten'
         /\ t.op \notin {"OPEN_FILE", "CREATE_FILE"} => fileWritten' = fileWritten
         /\ t.op \notin {"OPEN_FILE", "CREATE_FILE", "CLOSE_FILE"} => isOpen' = isOpen
         /\ Skipped(t) => isOpen' = isOpen /\ fileWritten' = fileWritten
         /\ t.op # "READ_DATASET" => loaded' = loaded
<1>1. written \in [Comp -> BOOLEAN]
  BY DEF HandlersTypeOK
<1>2. CASE Skipped(t)
  <2>1. UNCHANGED <<flags, isOpen, loaded>>
    BY <1>2 DEF Execute
  <2> QED
    BY <1>2, <2>1 DEF flags, Affects, Skipped
<1>3. CASE ~Skipped(t) /\ t.op \in {"CREATE_FILE", "OPEN_FILE", "CLOSE_FILE", "CREATE_PATH"}
  <2>1. written' = written /\ loaded' = loaded
    BY <1>3 DEF Execute, createFile, openFile, closeFile, createPath, flags
  <2>2. ~Affects(t, t.comp) \/ t.comp \notin Comp
    BY <1>3, CompAssumption DEF IOTask, FileTasks
  <2>3. CASE t.op = "CREATE_FILE"
    BY <1>3, <2>1, <2>2, <2>3 DEF Execute, createFile
  <2>4. CASE t.op = "OPEN_FILE"
    BY <1>3, <2>1, <2>2, <2>4 DEF Execute, openFile
  <2>5. CASE t.op \in {"CLOSE_FILE", "CREATE_PATH"}
    BY <1>3, <2>1, <2>2, <2>5 DEF Execute, closeFile, createPath, flags
  <2> QED
    BY <1>3, <2>3, <2>4, <2>5
<1>4. CASE ~Skipped(t) /\ t.op \in Creators
  BY <1>1, <1>4 DEF Execute, createGroup, createDataset, Affects, Creators, Attributes, Readers
<1>5. CASE ~Skipped(t) /\ t.op \in Attributes
  BY <1>1, <1>5 DEF Execute, writeAttribute, Affects, Creators, Attributes, Readers
<1>6. CASE ~Skipped(t) /\ t.op \in {"WRITE_DATASET", "DELETE_PATH"}
  BY <1>1, <1>6 DEF Execute, writeDataset, deletePath, Affects, Creators, Attributes, Readers
<1>7. CASE ~Skipped(t) /\ t.op \in {"DELETE_ATT"} \cup Readers
  <2>1. UNCHANGED <<flags, isOpen>> /\ (t.op # "READ_DATASET" => loaded' = loaded)
    BY <1>7 DEF Execute, deleteAttribute, readAttribute, readDataset, availableChunks, Readers
  <2> QED
    BY <1>7, <2>1 DEF flags, Creators, Attributes, Readers
<1> QED
  BY <1>2, <1>3, <1>4, <1>5, <1>6, <1>7, TaskFields DEF Operation, Readers, Creators, Attributes

-----------------------------------------------------------------------------
(* What a step does to a component that the user does not change.          *)

\* The frontend leaves component c alone: what was lost stays lost.
Kept(c) ==
  /\ UNCHANGED fixed
  /\ rc'[c] = rc[c] /\ stored'[c] = stored[c] /\ (c \in components' <=> c \in components)
  /\ changes <= changes'
  /\ isOpen => isOpen' \/ TasksOf(c) = {}
  /\ Lost(c) => Lost(c)'
  /\ Lost(c) \/ Deleting(c) => Lost(c)' \/ Deleting(c)'
  /\ (Deleting(c)' => Deleting(c)) /\ (Erasing(c)' => Erasing(c))

\* Only tasks t are done, and no others are added.
Done(c, t) ==
  /\ TasksOf(c)' \subseteq TasksOf(c)
  /\ \A u \in TasksOf(c) : u = t \/ u \in TasksOf(c)'

\* Task t of component c is at the head.
Ahead(c, t) ==
  t \in TasksOf(c) /\ \A u \in Outstanding(c) : u = t \/ InOrder(t, u)

LEMMA OutstandingKept ==
  ASSUME NEW c \in Comp, Kept(c), NEW t, Done(c, t)
  PROVE  /\ Outstanding(c)' \subseteq Outstanding(c)
         /\ \A u \in Outstanding(c) : u = t \/ u \in Outstanding(c)'
         /\ Tasks(rc[c].chunks)' = Tasks(rc[c].chunks)
BY DEF Kept, Done, Outstanding, Tasks

\* The types of what is compared.
LEMMA Numbers ==
  ASSUME TypeOK, NEW c \in Comp
  PROVE  /\ \A k \in Cell : node(c).cells[k] \in Nat /\ stored[c][k] \in Nat
         /\ node(c).att \in Nat /\ rc[c].att \in Nat /\ rc[c].value \in Nat /\ changes \in Nat
         /\ \A t \in Outstanding(c) : t \in IOTask /\ t.ver \in Nat
                                      /\ \A k \in Cell : t.want[k] \in Nat
<1>1. HandlersTypeOK /\ rc[c] \in RecordComponent /\ stored[c] \in [Cell -> Version]
      /\ changes \in 0 .. MaxChanges
  BY DEF TypeOK
<1>2. node(c).cells \in [Cell -> Version] /\ node(c).att \in Version
  BY <1>1, NodeType
<1>3. Version \subseteq Nat
  BY BoundAssumption DEF Version
<1>4. \A t \in Outstanding(c) : t \in IOTask
  BY <1>1, ComponentFields, TasksType DEF HandlersTypeOK, Outstanding, TasksOf
<1>5. \A t \in IOTask : t.ver \in Nat /\ \A k \in Cell : t.want[k] \in Nat
  BY <1>3, TaskFields
<1>6. /\ \A k \in Cell : node(c).cells[k] \in Nat /\ stored[c][k] \in Nat
      /\ node(c).att \in Nat /\ rc[c].att \in Nat /\ rc[c].value \in Nat /\ changes \in Nat
  <2>1. \A k \in Cell : node(c).cells[k] \in Nat /\ stored[c][k] \in Nat
    BY <1>1, <1>2, <1>3
  <2>2. rc[c].att \in Version /\ rc[c].value \in Version
    BY <1>1, ComponentFields
  <2>3. changes \in Nat
    BY <1>1, BoundAssumption
  <2> QED
    BY <1>2, <1>3, <2>1, <2>2, <2>3
<1> QED
  BY <1>4, <1>5, <1>6

\* What is known of a chunk stays true as long as its cells do not change and
\* stores stay outstanding.
LEMMA ChunkFactKept ==
  ASSUME NEW c \in Comp, Kept(c), node(c)'.cells = node(c).cells, NEW t, ChunkFact(c, t),
         \A u \in Outstanding(c) : u.op = "WRITE_DATASET" => u \in Outstanding(c)'
  PROVE  ChunkFact(c, t)'
<1>1. LoadFact(c, t) => LoadFact(c, t)'
  BY DEF Kept, LoadFact, Stores
<1>2. StoreFact(c, t) => StoreFact(c, t)'
  BY DEF Kept, StoreFact, fixed
<1> QED
  BY <1>1, <1>2 DEF ChunkFact, Kept

LEMMA CellInvKept ==
  ASSUME TypeOK, TypeOK', NEW c \in Comp, Kept(c), node(c)'.cells = node(c).cells, CellInv(c),
         \A u \in Outstanding(c) : u.op = "WRITE_DATASET" => u \in Outstanding(c)'
  PROVE  CellInv(c)'
<1> SUFFICES ASSUME NEW k \in Cell
             PROVE  (/\ stored[c][k] <= changes + 1
                     /\ c \in components => node(c).cells[k] <= stored[c][k]
                     /\ c \in components /\ ~Lost(c) =>
                          \/ node(c).cells[k] = stored[c][k]
                          \/ \E u \in Outstanding(c) : Stores(u, k, stored[c][k]))'
  BY DEF CellInv
<1>1. stored[c][k] \in Nat /\ changes \in Nat /\ changes' \in Nat
  BY Numbers DEF TypeOK
<1>2. stored'[c][k] <= changes' + 1
  BY <1>1 DEF CellInv, Kept
<1>3. c \in components' => node(c)'.cells[k] <= stored'[c][k]
  BY DEF CellInv, Kept
<1>4. c \in components' /\ ~Lost(c)' =>
        \/ node(c)'.cells[k] = stored'[c][k]
        \/ \E u \in Outstanding(c)' : Stores(u, k, stored'[c][k])
  BY DEF CellInv, Kept, Stores
<1> QED
  BY <1>2, <1>3, <1>4

\* Node and flag of the component stay, and only tasks that read are done.
LEMMA Unaffected ==
  ASSUME TypeOK, TypeOK', NEW c \in Comp, CompInv(c), Kept(c), NEW t, Done(c, t),
         node(c)' = node(c), written'[c] = written[c],
         t \in TasksOf(c) => t.op \in Readers
  PROVE  CompInv(c)'
<1>1. \A u \in Outstanding(c) : u.op = "WRITE_DATASET" => u \in Outstanding(c)'
  BY OutstandingKept DEF Readers, Outstanding, Done
<1>2. \A o : o \notin Readers /\ Queued(o, c) => Queued(o, c)'
  BY DEF Queued, Done
<1>3. TasksInv(c)'
  <2>1. ASSUME NEW u \in TasksOf(c)' PROVE (c \in components /\ TaskFact(c, u) /\ ChunkFact(c, u))'
    <3>1. u \in TasksOf(c) /\ c \in components /\ TaskFact(c, u) /\ ChunkFact(c, u)
      BY <2>1 DEF CompInv, TasksInv, Done
    <3>2. ChunkFact(c, u)'
      BY <1>1, <3>1, ChunkFactKept
    <3>3. TaskFact(c, u)'
      BY <3>1 DEF TaskFact, Kept, fixed
    <3> QED
      BY <3>1, <3>2, <3>3 DEF Kept
  <2>2. c \in components' => \A u \in Tasks(rc[c].chunks)' : (u.op \in Data /\ u.comp = c /\ ChunkFact(c, u))'
    BY <1>1, ChunkFactKept, OutstandingKept DEF CompInv, TasksInv, Kept
  <2> QED
    BY <2>1, <2>2 DEF TasksInv
<1>4. NodeInv(c)'
  BY <1>2 DEF CompInv, NodeInv, Declared, Kept, fixed, Readers
<1>5. CellInv(c)'
  BY <1>1, CellInvKept DEF CompInv
<1>6. AttInv(c)'
  <2>1. changes \in Nat /\ changes' \in Nat /\ rc[c].att \in Nat /\ node(c).att \in Nat
    BY Numbers DEF TypeOK
  <2>2. \A u \in TasksOf(c) : u.op = "WRITE_ATT" => u \in TasksOf(c)'
    BY DEF Done, Readers
  <2> QED
    BY <2>1, <2>2 DEF CompInv, AttInv, Kept, fixed
<1>7. DeletionInv(c)'
  BY <1>2 DEF CompInv, DeletionInv, Kept, Done, fixed, Readers
<1>8. CleanInv(c)'
  BY <1>2 DEF CompInv, CleanInv, Kept, fixed, Readers, Creators
<1> QED
  BY <1>3, <1>4, <1>5, <1>6, <1>7, <1>8 DEF CompInv

\* A chunk is written: loads behind it want it or something newer.
LEMMA ChunkWritten ==
  ASSUME TypeOK, TypeOK', NEW c \in Comp, CompInv(c), Kept(c), NEW t, Done(c, t), Ahead(c, t),
         t.op = "WRITE_DATASET", node(c)' = Effect(t, node(c)), written[c], written'[c]
  PROVE  CompInv(c)'
<1> USE DEF CompInv
<1>1. /\ t.comp = c /\ t \in Outstanding(c) /\ c \in components
      /\ ChunkFact(c, t) /\ StoreFact(c, t)
  BY DEF Ahead, TasksOf, Outstanding, TasksInv, ChunkFact
<1>2. node(c) \in Node /\ node(c).cells \in [Cell -> Version]
  BY NodeType DEF TypeOK
<1>3. /\ \A k \in Cell : node(c)'.cells[k] = IF k \in t.box THEN t.ver ELSE node(c).cells[k]
      /\ node(c)'.kind = node(c).kind /\ node(c)'.box = node(c).box
      /\ node(c)'.value = node(c).value /\ node(c)'.att = node(c).att
  BY <1>2 DEF Effect, Node
<1>4. \A k \in Cell : k \in t.box => node(c).cells[k] <= t.ver /\ t.ver <= stored[c][k]
  BY <1>1 DEF StoreFact
<1>5. \A u \in Outstanding(c)' : u \in Outstanding(c) /\ (u = t \/ InOrder(t, u))
  BY OutstandingKept DEF Ahead
<1>6. \A u \in Outstanding(c) : u = t \/ u \in Outstanding(c)'
  BY OutstandingKept
<1>7. \A o : o # "WRITE_DATASET" /\ Queued(o, c) => Queued(o, c)'
  BY DEF Queued, Done
<1>8. ASSUME NEW u \in Outstanding(c)', u.comp = c, ChunkFact(c, u)
      PROVE  ChunkFact(c, u)'
  <2>1. u.ver \in Nat /\ t.ver \in Nat /\ \A k \in Cell : /\ node(c).cells[k] \in Nat
                                                         /\ u.want[k] \in Nat
    BY <1>1, <1>5, Numbers
  <2>2. u = t \/ InOrder(t, u)
    BY <1>5
  <2>3. ASSUME u.op = "WRITE_DATASET" PROVE StoreFact(c, u)'
    <3>1. StoreFact(c, u) /\ u.box \subseteq Cell
      BY <1>5, <1>8, <2>3, Numbers, TaskFields DEF ChunkFact
    <3>2. \A k \in t.box \cap u.box : t.ver <= u.ver
      BY <1>1, <1>8, <2>1, <2>2, <2>3 DEF InOrder
    <3> QED
      BY <1>3, <2>1, <3>1, <3>2 DEF StoreFact, Kept, fixed
  <2>4. ASSUME u.op = "READ_DATASET" PROVE LoadFact(c, u)'
    <3>1. LoadFact(c, u)
      BY <1>8, <2>4 DEF ChunkFact
    <3>2. \A k \in t.box \cap u.box : t.ver <= u.want[k]
      BY <1>1, <1>8, <2>2, <2>4 DEF InOrder
    <3> SUFFICES ASSUME NEW k \in Cell, k \in u.box
                 PROVE  /\ node(c)'.cells[k] <= u.want[k]
                        /\ \/ node(c)'.cells[k] = u.want[k]
                           \/ \E w \in Outstanding(c)' : Stores(w, k, u.want[k])
      BY <3>1 DEF LoadFact, Kept
    <3>3. CASE k \notin t.box
      BY <1>3, <1>6, <3>1, <3>3 DEF LoadFact, Stores
    <3>4. CASE k \in t.box
      <4>1. node(c)'.cells[k] = t.ver /\ t.ver <= u.want[k] /\ node(c).cells[k] <= t.ver
        BY <1>3, <1>4, <3>2, <3>4
      <4>2. CASE node(c).cells[k] = u.want[k]
        BY <2>1, <4>1, <4>2
      <4>3. CASE \E w \in Outstanding(c) : Stores(w, k, u.want[k])
        BY <1>6, <4>1, <4>3 DEF Stores
      <4> QED
        BY <3>1, <4>1, <4>2, <4>3 DEF LoadFact
    <3> QED
      BY <3>3, <3>4
  <2> QED
    BY <1>8, <2>3, <2>4 DEF ChunkFact, Kept
<1>9. TasksInv(c)'
  <2>1. ASSUME NEW u \in TasksOf(c)' PROVE (c \in components /\ TaskFact(c, u) /\ ChunkFact(c, u))'
    <3>1. u \in TasksOf(c) /\ TaskFact(c, u) /\ ChunkFact(c, u)
      BY <2>1 DEF TasksInv, Done
    <3>2. u \in Outstanding(c)' /\ u.comp = c
      BY <2>1, <3>1 DEF Outstanding, TasksOf
    <3>3. ChunkFact(c, u)'
      BY <1>8, <3>1, <3>2
    <3>4. TaskFact(c, u)'
      BY <1>3, <3>1 DEF TaskFact, Kept, fixed
    <3> QED
      BY <1>1, <3>3, <3>4 DEF Kept
  <2>2. ASSUME NEW u \in Tasks(rc[c].chunks)' PROVE (u.op \in Data /\ u.comp = c /\ ChunkFact(c, u))'
    <3>1. u \in Tasks(rc[c].chunks) /\ u \in Outstanding(c)'
      BY <2>2, OutstandingKept DEF Outstanding
    <3> QED
      BY <1>1, <1>8, <3>1 DEF TasksInv
  <2> QED
    BY <2>1, <2>2 DEF TasksInv
<1>10. NodeInv(c)'
  <2>1. \A u \in TasksOf(c) : u.op # "DELETE_PATH"
    BY <1>1 DEF Ahead, InOrder, Outstanding, TasksOf, Deletions
  <2> QED
    BY <1>3, <1>7, <2>1 DEF NodeInv, Declared, Queued, Kept
<1>11. CellInv(c)'
  <2> SUFFICES ASSUME NEW k \in Cell
               PROVE  (/\ stored[c][k] <= changes + 1
                       /\ c \in components => node(c).cells[k] <= stored[c][k]
                       /\ c \in components /\ ~Lost(c) =>
                            \/ node(c).cells[k] = stored[c][k]
                            \/ \E u \in Outstanding(c) : Stores(u, k, stored[c][k]))'
    BY DEF CellInv
  <2>1. stored[c][k] \in Nat /\ changes \in Nat /\ changes' \in Nat /\ t.ver \in Nat
        /\ node(c).cells[k] \in Nat
    BY <1>1, Numbers DEF TypeOK
  <2>2. stored'[c][k] <= changes' + 1
    BY <2>1 DEF CellInv, Kept
  <2>3. node(c)'.cells[k] <= stored'[c][k]
    BY <1>1, <1>3, <1>4 DEF CellInv, Kept
  <2>4. ASSUME ~Lost(c)'
        PROVE  \/ node(c)'.cells[k] = stored'[c][k]
               \/ \E u \in Outstanding(c)' : Stores(u, k, stored'[c][k])
    <3>1. \/ node(c).cells[k] = stored[c][k]
          \/ \E u \in Outstanding(c) : Stores(u, k, stored[c][k])
      BY <1>1, <2>4 DEF CellInv, Kept
    <3>2. CASE node(c).cells[k] = stored[c][k]
      BY <1>3, <1>4, <2>1, <3>2 DEF Kept
    <3>3. CASE \E u \in Outstanding(c) : Stores(u, k, stored[c][k])
      BY <1>3, <1>6, <3>3 DEF Kept, Stores
    <3> QED
      BY <3>1, <3>2, <3>3
  <2> QED
    BY <2>2, <2>3, <2>4
<1>12. AttInv(c)'
  <2>1. changes \in Nat /\ changes' \in Nat /\ rc[c].att \in Nat /\ node(c).att \in Nat
    BY Numbers DEF TypeOK
  <2>2. \A u \in TasksOf(c) : u.op = "WRITE_ATT" => u \in TasksOf(c)'
    BY DEF Done
  <2> QED
    BY <1>3, <2>1, <2>2 DEF AttInv, Kept, fixed
<1>13. DeletionInv(c)'
  BY <1>3, <1>7 DEF DeletionInv, Kept, Done, fixed, Ahead
<1>14. CleanInv(c)'
  BY DEF CleanInv, Kept, fixed
<1> QED
  BY <1>9, <1>10, <1>11, <1>12, <1>13, <1>14

\* No task behind t deletes, and t does not delete the component either.
LEMMA NothingDeletes ==
  ASSUME NEW c \in Comp, NEW t, Ahead(c, t), t.op \notin Deletions
  PROVE  \A u \in TasksOf(c) : u.op \notin Deletions
BY DEF Ahead, InOrder, Outstanding, TasksOf, Deletions

\* The chunks of a component when its cells stay and another task is done.
LEMMA ChunksKept ==
  ASSUME NEW c \in Comp, Kept(c), NEW t, Done(c, t), t.op # "WRITE_DATASET",
         node(c)'.cells = node(c).cells, TasksInv(c)
  PROVE  /\ \A u \in TasksOf(c)' : u \in TasksOf(c) /\ c \in components' /\ ChunkFact(c, u)'
         /\ c \in components' =>
              \A u \in Tasks(rc[c].chunks)' : (u.op \in Data /\ u.comp = c /\ ChunkFact(c, u))'
<1>1. \A u \in Outstanding(c) : u.op = "WRITE_DATASET" => u \in Outstanding(c)'
  BY OutstandingKept
<1>2. \A u \in TasksOf(c)' : u \in TasksOf(c) /\ c \in components /\ ChunkFact(c, u)
  BY DEF Done, TasksInv
<1>3. \A u \in TasksOf(c)' : ChunkFact(c, u)'
  BY <1>1, <1>2, ChunkFactKept
<1>4. c \in components' => \A u \in Tasks(rc[c].chunks)' : u.op \in Data /\ u.comp = c /\ ChunkFact(c, u)
  BY OutstandingKept DEF TasksInv, Kept
<1>5. c \in components' => \A u \in Tasks(rc[c].chunks)' : ChunkFact(c, u)'
  BY <1>1, <1>4, ChunkFactKept
<1> QED
  BY <1>2, <1>3, <1>4, <1>5 DEF Kept

\* The attribute stays.
LEMMA AttInvKept ==
  ASSUME TypeOK, TypeOK', NEW c \in Comp, Kept(c), NEW t, Done(c, t), t.op # "WRITE_ATT",
         node(c)'.att = node(c).att, AttInv(c)
  PROVE  AttInv(c)'
<1>1. changes \in Nat /\ changes' \in Nat /\ rc[c].att \in Nat /\ node(c).att \in Nat
  BY Numbers DEF TypeOK
<1>2. \A u \in TasksOf(c) : u.op = "WRITE_ATT" => u \in TasksOf(c)'
  BY DEF Done
<1> QED
  BY <1>1, <1>2 DEF AttInv, Kept, fixed

\* A component is created.
LEMMA ComponentCreated ==
  ASSUME TypeOK, TypeOK', NEW c \in Comp, CompInv(c), Kept(c), NEW t, Done(c, t), Ahead(c, t),
         t.op \in Creators, node(c)' = Effect(t, node(c)),
         t.op = "CREATE_DATASET" => ~written[c], written'[c],
         t.op = "CREATE_GROUP" => Queued("WRITE_VALUE", c) /\ Queued("WRITE_SHAPE", c)
  PROVE  CompInv(c)'
<1> USE DEF CompInv
<1>1. t.comp = c /\ c \in components /\ TaskFact(c, t)
  BY DEF Ahead, TasksOf, TasksInv
<1>2. \A u \in TasksOf(c) : u.op \notin Deletions
  BY NothingDeletes DEF Creators, Deletions
<1>3. \A o : o \notin Creators /\ Queued(o, c) => Queued(o, c)'
  BY DEF Queued, Done
<1>4. node(c) \in Node /\ NoNode \in Node
  BY NodeType, NodeTypes DEF TypeOK
<1>5. node(c)'.cells = node(c).cells /\ node(c)'.att = node(c).att
  <2>1. CASE t.op = "CREATE_DATASET"
    <3>1. node(c) = NoNode
      BY <2>1 DEF NodeInv
    <3>2. node(c)' = [NoNode EXCEPT !.kind = "dataset", !.box = t.box]
      BY <2>1 DEF Effect
    <3> QED
      BY <3>1, <3>2 DEF NoNode
  <2>2. CASE t.op = "CREATE_GROUP"
    BY <1>4, <2>2 DEF Effect, Node
  <2> QED
    BY <2>1, <2>2 DEF Creators
<1>6. TasksInv(c)'
  <2>1. \A u \in TasksOf(c)' : TaskFact(c, u)'
    <3> TAKE u \in TasksOf(c)'
    <3>1. u \in TasksOf(c) /\ TaskFact(c, u)
      BY DEF Done, TasksInv
    <3> QED
      BY <1>2, <1>5, <3>1 DEF TaskFact, Kept, fixed, Deletions
  <2> QED
    BY <1>5, <2>1, ChunksKept DEF TasksInv, Creators
<1>7. NodeInv(c)'
  <2>1. c \in components'
    BY <1>1 DEF Kept
  <2>2. CASE t.op = "CREATE_DATASET"
    BY <1>1, <1>4, <2>1, <2>2 DEF NodeInv, Declared, Effect, TaskFact, Kept, Node
  <2>3. CASE t.op = "CREATE_GROUP"
    <3>1. rc[c].constant /\ Queued("WRITE_VALUE", c)' /\ Queued("WRITE_SHAPE", c)'
      BY <1>1, <1>3, <2>3 DEF TaskFact, Creators
    <3>2. node(c).kind = "none" \/ node(c).kind = "group"
      BY <1>2, <3>1 DEF NodeInv, Declared, NoNode, Queued, Deletions
    <3>3. node(c)'.kind = "group"
      BY <1>4, <2>3, <3>2 DEF Effect, Node
    <3> QED
      BY <2>1, <3>1, <3>3 DEF NodeInv, Declared, Kept
  <2> QED
    BY <2>2, <2>3 DEF Creators
<1>8. CellInv(c)'
  BY <1>5, CellInvKept, OutstandingKept DEF Creators
<1>9. AttInv(c)'
  BY <1>5, AttInvKept DEF Creators
<1>10. DeletionInv(c)'
  <2>1. ~Deleting(c) /\ ~Erasing(c)
    BY <1>2 DEF DeletionInv, Ahead, Deletions
  <2> QED
    BY <2>1 DEF DeletionInv, Kept
<1>11. CleanInv(c)'
  BY DEF CleanInv, Kept, fixed
<1> QED
  BY <1>6, <1>7, <1>8, <1>9, <1>10, <1>11

\* A component that exists is not created again.
LEMMA CreationSkipped ==
  ASSUME TypeOK, TypeOK', NEW c \in Comp, CompInv(c), Kept(c), NEW t, Done(c, t), Ahead(c, t),
         t.op \in Creators, node(c)' = node(c), written[c], written'[c]
  PROVE  CompInv(c)'
<1> USE DEF CompInv
<1>1. \A o : o \notin Creators /\ Queued(o, c) => Queued(o, c)'
  BY DEF Queued, Done
<1>2. TasksInv(c)'
  <2>1. \A u \in TasksOf(c)' : TaskFact(c, u)'
    <3> TAKE u \in TasksOf(c)'
    <3>1. u \in TasksOf(c) /\ TaskFact(c, u)
      BY DEF Done, TasksInv
    <3> QED
      BY <3>1 DEF TaskFact, Kept, fixed
  <2> QED
    BY <2>1, ChunksKept DEF TasksInv, Creators
<1>3. NodeInv(c)'
  BY <1>1 DEF NodeInv, Declared, Kept, fixed, Creators
<1>4. CellInv(c)'
  BY CellInvKept, OutstandingKept DEF Creators
<1>5. AttInv(c)'
  BY AttInvKept DEF Creators
<1>6. DeletionInv(c)'
  BY <1>1 DEF DeletionInv, Kept, Done, fixed, Creators
<1>7. CleanInv(c)'
  BY DEF CleanInv, Kept, fixed
<1> QED
  BY <1>2, <1>3, <1>4, <1>5, <1>6, <1>7

\* The attributes of a component are written.
LEMMA AttributeWritten ==
  ASSUME TypeOK, TypeOK', NEW c \in Comp, CompInv(c), Kept(c), NEW t, Done(c, t), Ahead(c, t),
         t.op \in Attributes, node(c)' = Effect(t, node(c)), written[c], written'[c]
  PROVE  CompInv(c)'
<1> USE DEF CompInv
<1>1. t.comp = c /\ c \in components /\ TaskFact(c, t) /\ t \in Outstanding(c)
  BY DEF Ahead, TasksOf, TasksInv, Outstanding
<1>2. \A u \in TasksOf(c) : u.op \notin Deletions
  BY NothingDeletes DEF Attributes, Deletions
<1>3. \A o : o # t.op /\ Queued(o, c) => Queued(o, c)'
  BY DEF Queued, Done
<1>4. node(c) \in Node
  BY NodeType DEF TypeOK
<1>5. /\ node(c)'.cells = node(c).cells /\ node(c)'.kind = node(c).kind
      /\ node(c)'.value = IF t.op = "WRITE_VALUE" THEN t.ver ELSE node(c).value
      /\ node(c)'.box = IF t.op = "WRITE_SHAPE" THEN t.box ELSE node(c).box
      /\ node(c)'.att = IF t.op = "WRITE_ATT" THEN t.ver ELSE node(c).att
  BY <1>4 DEF Effect, Node, Attributes
<1>6. TasksInv(c)'
  <2>1. \A u \in TasksOf(c)' : TaskFact(c, u)'
    <3> TAKE u \in TasksOf(c)'
    <3>1. u \in TasksOf(c) /\ TaskFact(c, u) /\ u.op \notin Deletions /\ u.comp = c
      BY <1>2 DEF Done, TasksInv, TasksOf
    <3>2. u.op = "WRITE_ATT" => node(c)'.att <= u.ver
      <4>1. t.op = "WRITE_ATT" /\ u.op = "WRITE_ATT" => t.ver <= u.ver
        <5>1. u = t \/ InOrder(t, u)
          BY <3>1 DEF Ahead, Outstanding
        <5>2. t.ver \in Nat
          BY <1>1, Numbers
        <5> QED
          BY <1>1, <3>1, <5>1, <5>2 DEF InOrder
      <4> QED
        BY <1>5, <3>1, <4>1 DEF TaskFact
    <3> QED
      BY <3>1, <3>2 DEF TaskFact, Kept, fixed, Deletions
  <2> QED
    BY <1>5, <2>1, ChunksKept DEF TasksInv, Attributes
<1>7. NodeInv(c)'
  <2>1. Declared(c)
    BY <1>2 DEF NodeInv, Queued, Deletions
  <2>2. Declared(c)'
    <3>1. CASE t.op = "WRITE_VALUE"
      BY <1>1, <1>3, <1>5, <2>1, <3>1 DEF Declared, TaskFact, Kept
    <3>2. CASE t.op = "WRITE_SHAPE"
      BY <1>1, <1>3, <1>5, <2>1, <3>2 DEF Declared, TaskFact, Kept
    <3>3. CASE t.op = "WRITE_ATT"
      BY <1>3, <1>5, <2>1, <3>3 DEF Declared, Kept
    <3> QED
      BY <3>1, <3>2, <3>3 DEF Attributes
  <2> QED
    BY <1>1, <2>2 DEF NodeInv, Kept
<1>8. CellInv(c)'
  BY <1>5, CellInvKept, OutstandingKept DEF Attributes
<1>9. AttInv(c)'
  <2>1. CASE t.op # "WRITE_ATT"
    BY <1>5, <2>1, AttInvKept
  <2>2. CASE t.op = "WRITE_ATT"
    <3>1. /\ changes \in Nat /\ changes' \in Nat /\ rc[c].att \in Nat /\ node(c).att \in Nat
          /\ t.ver \in Nat
      BY <1>1, Numbers DEF TypeOK
    <3>2. node(c)'.att = t.ver /\ 0 < t.ver /\ node(c).att <= t.ver /\ t.ver <= rc[c].att
      BY <1>1, <1>5, <2>2 DEF TaskFact
    <3>3. \A u \in TasksOf(c) : u = t \/ u \in TasksOf(c)'
      BY DEF Done
    <3> QED
      BY <3>1, <3>2, <3>3 DEF AttInv, Kept, fixed
  <2> QED
    BY <2>1, <2>2
<1>10. DeletionInv(c)'
  <2>1. ~Deleting(c) /\ ~Erasing(c)
    BY <1>2 DEF DeletionInv, Ahead, Deletions
  <2> QED
    BY <2>1 DEF DeletionInv, Kept
<1>11. CleanInv(c)'
  BY DEF CleanInv, Kept, fixed
<1> QED
  BY <1>6, <1>7, <1>8, <1>9, <1>10, <1>11

\* The component is deleted; it may happen again.
LEMMA ComponentDeleted ==
  ASSUME TypeOK, TypeOK', NEW c \in Comp, CompInv(c), Kept(c), NEW t, Done(c, t), Ahead(c, t),
         t.op = "DELETE_PATH", node(c)' = NoNode, access # "READ_ONLY",
         \/ ~written'[c] /\ TasksOf(c)' = {}
         \/ backend = "JSON" /\ written'[c] /\ t \in TasksOf(c)'
  PROVE  CompInv(c)'
<1> USE DEF CompInv
<1>1. /\ t.comp = c /\ c \in components /\ TaskFact(c, t) /\ t \in Outstanding(c)
      /\ Lost(c) /\ rc[c].chunks = <<>> /\ ~rc[c].dirty
  BY DEF Ahead, TasksOf, TasksInv, Outstanding, TaskFact
<1>2. /\ c \in components' /\ Lost(c)' /\ rc'[c] = rc[c] /\ rc'[c].chunks = <<>>
      /\ stored'[c] = stored[c] /\ backend' = backend /\ access' = access
  BY <1>1 DEF Kept, fixed
<1>3. \A u \in TasksOf(c) : u = t
  BY <1>1 DEF Ahead, InOrder, Outstanding, TasksOf
<1>4. \A u \in TasksOf(c)' : u = t
  BY <1>3 DEF Done
<1>5. TasksInv(c)'
  <2>1. \A u \in TasksOf(c)' : TaskFact(c, u)' /\ ChunkFact(c, u)'
    BY <1>1, <1>2, <1>4 DEF TaskFact, ChunkFact, Data
  <2>2. Tasks(rc[c].chunks)' = {}
    BY <1>2, SmallQueues DEF Tasks
  <2> QED
    BY <1>2, <2>1, <2>2 DEF TasksInv
<1>6. NodeInv(c)'
  BY <1>2 DEF NodeInv, Queued
<1>7. CellInv(c)'
  <2>1. \A k \in Cell : node(c)'.cells[k] = 0 /\ stored[c][k] \in Nat
    BY NoNodeFields, Numbers
  <2>2. changes \in Nat /\ changes' \in Nat /\ changes <= changes'
    BY Numbers DEF Kept, TypeOK
  <2> QED
    BY <1>2, <2>1, <2>2 DEF CellInv
<1>8. AttInv(c)'
  <2>1. changes \in Nat /\ changes' \in Nat /\ changes <= changes' /\ rc[c].att \in Nat
    BY Numbers DEF Kept, TypeOK
  <2>2. node(c)'.att = 0 /\ rc'[c].att = rc[c].att
    BY <1>2, NoNodeFields
  <2>3. c \in components /\ rc[c].att <= changes + 1
    BY <1>1 DEF AttInv
  <2> QED
    BY <1>2, <2>1, <2>2, <2>3 DEF AttInv
<1>9. DeletionInv(c)'
  BY <1>1, <1>2, <1>4, NoNodeFields DEF DeletionInv, Kept, Queued, Ahead
<1>10. CleanInv(c)'
  BY <1>1, <1>2 DEF CleanInv
<1> QED
  BY <1>5, <1>6, <1>7, <1>8, <1>9, <1>10

\* The attribute is deleted.
LEMMA AttributeDeleted ==
  ASSUME TypeOK, TypeOK', NEW c \in Comp, CompInv(c), Kept(c), NEW t, Done(c, t), Ahead(c, t),
         t.op = "DELETE_ATT", ~written[c] => node(c)' = node(c),
         written[c] => node(c)' = Effect(t, node(c)), written'[c] = written[c],
         backend = "JSON" \/ ~t \in TasksOf(c)'
  PROVE  CompInv(c)'
<1> USE DEF CompInv
<1>1. t.comp = c /\ c \in components /\ TaskFact(c, t) /\ t \in Outstanding(c)
  BY DEF Ahead, TasksOf, TasksInv, Outstanding
<1>2. \A u \in TasksOf(c) : u = t \/ u.op \notin Deletions
  BY <1>1 DEF Ahead, InOrder, Outstanding, TasksOf
<1>3. \A o : o # "DELETE_ATT" /\ Queued(o, c) => Queued(o, c)'
  BY DEF Queued, Done
<1>4. node(c) \in Node
  BY NodeType DEF TypeOK
<1>5. /\ node(c)'.cells = node(c).cells /\ node(c)'.kind = node(c).kind
      /\ node(c)'.value = node(c).value /\ node(c)'.box = node(c).box
      /\ node(c)'.att = node(c).att \/ (written[c] /\ backend = "HDF5" /\ node(c)'.att = 0)
      /\ backend = "JSON" \/ ~written[c] => node(c)' = node(c)
      /\ backend = "HDF5" => node(c)'.att = 0
  <2>1. backend \in {"JSON", "HDF5"}
    BY DEF TypeOK, HandlersTypeOK, Backend
  <2>2. CASE ~written[c]
    BY <2>1, <2>2, NoNodeFields DEF NodeInv
  <2>3. CASE written[c]
    BY <1>4, <2>1, <2>3 DEF Effect, Node
  <2> QED
    BY <2>2, <2>3
<1>6. TasksInv(c)'
  <2>1. \A u \in TasksOf(c)' : TaskFact(c, u)'
    <3> TAKE u \in TasksOf(c)'
    <3>1. u \in TasksOf(c) /\ TaskFact(c, u)
      BY DEF Done, TasksInv
    <3>2. u.op = "WRITE_ATT" => node(c)'.att <= u.ver
      <4>1. u.ver \in Nat
        BY <3>1, Numbers DEF Outstanding
      <4> QED
        BY <1>5, <3>1, <4>1 DEF TaskFact
    <3>3. backend = "HDF5" => u.op \notin Deletions
      BY <1>2, <3>1
    <3>4. CASE backend = "HDF5"
      BY <3>1, <3>2, <3>3, <3>4 DEF TaskFact, Kept, fixed, Deletions
    <3>5. CASE backend # "HDF5"
      BY <3>1, <3>2, <3>5 DEF TaskFact, Kept, fixed
    <3> QED
      BY <3>4, <3>5
  <2> QED
    BY <1>5, <2>1, ChunksKept DEF TasksInv
<1>7. NodeInv(c)'
  <2>1. \A u \in TasksOf(c) : u.op # "DELETE_PATH"
    BY <1>2 DEF Deletions
  <2> QED
    BY <1>3, <1>5, <2>1 DEF NodeInv, Declared, Queued, Kept
<1>8. CellInv(c)'
  BY <1>5, CellInvKept, OutstandingKept
<1>9. AttInv(c)'
  <2>1. changes \in Nat /\ changes' \in Nat /\ rc[c].att \in Nat /\ node(c).att \in Nat
    BY Numbers DEF TypeOK
  <2>2. Lost(c)' \/ Deleting(c)'
    BY <1>1 DEF TaskFact, Kept
  <2> QED
    BY <1>5, <2>1, <2>2 DEF AttInv, Kept, fixed
<1>10. DeletionInv(c)'
  <2>1. ~Erasing(c)
    BY DEF DeletionInv, Ahead
  <2> QED
    BY <1>5, <2>1 DEF DeletionInv, Kept, Done, fixed
<1>11. CleanInv(c)'
  BY <1>3 DEF CleanInv, Kept, fixed, Creators
<1> QED
  BY <1>6, <1>7, <1>8, <1>9, <1>10, <1>11

-----------------------------------------------------------------------------
(* The task at the head of the queue.                                      *)

LEMMA HeadFacts ==
  ASSUME TypeOK, QueueInv, phase # "gone", m_work # <<>>
  PROVE  LET t == Head(m_work)
         IN /\ t \in IOTask /\ t \in Tasks(m_work) /\ HandlersTypeOK
            /\ t.op \notin Openers \cup {"DELETE_ATT"} => isOpen
            /\ t.op \in Data \cup Attributes => written[t.comp]
            /\ t.op = "CREATE_GROUP" => /\ Queued("WRITE_VALUE", t.comp)
                                        /\ Queued("WRITE_SHAPE", t.comp)
            /\ t.comp \in Comp =>
                 /\ CompInv(t.comp) /\ Ahead(t.comp, t)
                 /\ t.comp \in components /\ TaskFact(t.comp, t) /\ ChunkFact(t.comp, t)
            /\ isOpen \/ access # "CREATE" => Legible
            /\ t.op \in Writers => access # "READ_ONLY"
            /\ t.op = "CREATE_FILE" => access = "CREATE"
            /\ t.op = "OPEN_FILE" => access # "CREATE"
            /\ t.op \in {"CLOSE_FILE", "READ_ATT"} => call.op = "construct"
<1> DEFINE t == Head(m_work)
<1>1. OrderInv /\ ReadyInv /\ FileInv /\ FileTaskInv /\ \A c \in Comp : CompInv(c)
  BY DEF QueueInv
<1>2. m_work \in Seq(IOTask) /\ HandlersTypeOK
  BY DEF TypeOK, HandlersTypeOK
<1>3. /\ t \in IOTask /\ t \in Tasks(m_work) /\ Tasks(m_work) = {t} \cup Tasks(Tail(m_work))
      /\ \A u \in Tasks(Tail(m_work)) : InOrder(t, u)
  BY <1>1, <1>2, TailTasks DEF OrderInv
<1>4. 1 \in DOMAIN m_work /\ m_work[1] = t /\ ReadyAt(m_work, 1)
  BY <1>1, <1>2 DEF ReadyInv
<1>5. t.op \notin Openers \cup {"DELETE_ATT"} => isOpen
  BY <1>4 DEF ReadyAt, OpenAt
<1>6. t.op \in Data \cup Attributes => written[t.comp]
  BY <1>4 DEF ReadyAt, CreatedAt
<1>7. ASSUME t.op = "CREATE_GROUP" PROVE Queued("WRITE_VALUE", t.comp) /\ Queued("WRITE_SHAPE", t.comp)
  <2>1. \A i \in 1 + 1 .. Len(m_work) : i \in DOMAIN m_work
    BY <1>2
  <2>2. FollowedBy(m_work, 1, "WRITE_VALUE") /\ FollowedBy(m_work, 1, "WRITE_SHAPE")
    BY <1>4, <1>7 DEF ReadyAt
  <2> QED
    BY <1>4, <2>1, <2>2 DEF FollowedBy, Queued, TasksOf, Tasks
<1>8. ASSUME t.comp \in Comp
      PROVE  /\ CompInv(t.comp) /\ Ahead(t.comp, t)
             /\ t.comp \in components /\ TaskFact(t.comp, t) /\ ChunkFact(t.comp, t)
  <2>1. t \in TasksOf(t.comp) /\ CompInv(t.comp)
    BY <1>1, <1>3, <1>8 DEF TasksOf
  <2>2. t.comp \in components /\ TaskFact(t.comp, t) /\ ChunkFact(t.comp, t)
    BY <2>1 DEF CompInv, TasksInv
  <2>3. \A u \in Tasks(rc[t.comp].chunks) : InOrder(t, u)
    BY <1>1, <1>3, <2>2 DEF OrderInv, AllInOrder
  <2> QED
    BY <1>3, <2>1, <2>2, <2>3 DEF Ahead, Outstanding, TasksOf
<1>9. isOpen \/ access # "CREATE" => Legible
  BY <1>1 DEF FileInv
<1>10. /\ t.op \in Writers => access # "READ_ONLY"
       /\ t.op = "CREATE_FILE" => access = "CREATE"
       /\ t.op = "OPEN_FILE" => access # "CREATE"
       /\ t.op \in {"CLOSE_FILE", "READ_ATT"} => call.op = "construct"
  BY <1>1, <1>3 DEF FileTaskInv
<1> QED
  BY <1>2, <1>3, <1>5, <1>6, <1>7, <1>8, <1>9, <1>10

\* A load comes when the file holds what it wants.
LEMMA HeadLoads ==
  ASSUME TypeOK, QueueInv, phase # "gone", m_work # <<>>, Head(m_work).op = "READ_DATASET",
         NEW k \in Cell
  PROVE  LET t == Head(m_work)
         IN /\ k \in t.box => contents[t.comp].cells[k] = t.want[k] /\ contents[t.comp].cells[k] # 0
            /\ k \notin t.box => t.want[k] = 0
<1> DEFINE t == Head(m_work)
           c == t.comp
<1>1. /\ t \in IOTask /\ t \in Tasks(m_work) /\ HandlersTypeOK
      /\ t.op \notin Openers \cup {"DELETE_ATT"} => isOpen
      /\ t.comp \in Comp =>
           /\ CompInv(t.comp) /\ Ahead(t.comp, t)
           /\ t.comp \in components /\ TaskFact(t.comp, t) /\ ChunkFact(t.comp, t)
      /\ isOpen \/ access # "CREATE" => Legible
  BY HeadFacts
<1>2. t.op = "READ_DATASET"
  OBVIOUS
<1> HIDE DEF t
<1>3. Legible /\ c \in Comp
  BY <1>1, <1>2, TaskFields DEF Openers, FileTasks
<1>4. LoadFact(c, t)
  BY <1>1, <1>2, <1>3 DEF ChunkFact
<1>5. ASSUME k \in t.box PROVE contents[c].cells[k] = t.want[k] /\ contents[c].cells[k] # 0
  <2>1. t \in Outstanding(c) /\ \A u \in Outstanding(c) : u = t \/ InOrder(t, u)
    BY <1>1, <1>3 DEF Ahead, Outstanding
  <2>2. \A u \in Outstanding(c) : u.comp = c
    BY <1>1, <1>3 DEF Outstanding, TasksOf, CompInv, TasksInv
  <2>3. t.want[k] \in Nat /\ \A u \in Outstanding(c) : u.ver \in Nat
    BY <1>3, <1>4, <2>1, Numbers
  <2>4. \A u \in Outstanding(c) : ~Stores(u, k, t.want[k])
    BY <1>2, <1>5, <2>1, <2>2, <2>3 DEF InOrder, Stores
  <2>5. node(c).cells[k] = t.want[k] /\ 0 < t.want[k]
    BY <1>4, <1>5, <2>4 DEF LoadFact
  <2> QED
    BY <1>3, <2>3, <2>5 DEF node
<1>6. k \notin t.box => t.want[k] = 0
  BY <1>4 DEF LoadFact
<1> QED
  BY <1>5, <1>6 DEF t

\* No handler refuses it.
LEMMA HeadNotRefused ==
  ASSUME TypeOK, QueueInv, phase # "gone", m_work # <<>>
  PROVE  ~Refused(Head(m_work))
<1> DEFINE t == Head(m_work)
           c == t.comp
<1>1. /\ t \in IOTask /\ t \in Tasks(m_work) /\ HandlersTypeOK
      /\ t.op \notin Openers \cup {"DELETE_ATT"} => isOpen
      /\ t.op \in Data \cup Attributes => written[t.comp]
      /\ t.comp \in Comp =>
           /\ CompInv(t.comp) /\ Ahead(t.comp, t)
           /\ t.comp \in components /\ TaskFact(t.comp, t) /\ ChunkFact(t.comp, t)
      /\ isOpen \/ access # "CREATE" => Legible
      /\ t.op \in Writers => access # "READ_ONLY"
      /\ t.op = "OPEN_FILE" => access # "CREATE"
  BY HeadFacts
<1>2. t.op \in Operation /\ (t.op \notin FileTasks => t.comp \in Comp)
  BY <1>1, TaskFields
<1> SUFFICES ~Refused(t)
  OBVIOUS
<1> HIDE DEF t
<1>3. CASE t.op \in {"CREATE_FILE", "OPEN_FILE", "CLOSE_FILE", "READ_ATT", "CREATE_PATH"}
           \cup Attributes \cup {"CREATE_GROUP"}
  BY <1>1, <1>3 DEF Refused, Openers, Attributes
<1>4. CASE t.op = "CREATE_DATASET"
  <2>1. Legible /\ isOpen /\ c \in Comp
    BY <1>1, <1>2, <1>4 DEF Openers, FileTasks
  <2>2. ~written[c] => contents[c].kind = "none"
    BY <1>1, <2>1, NoNodeFields DEF CompInv, NodeInv, node
  <2> QED
    BY <1>1, <1>4, <2>1, <2>2 DEF Refused, Skipped
<1>5. ASSUME t.op \in Data PROVE ~Refused(t)
  <2>1. Legible /\ isOpen /\ c \in Comp /\ written[c]
    BY <1>1, <1>2, <1>5 DEF Openers, FileTasks, Data
  <2>2. \A u \in TasksOf(c) : u.op # "DELETE_PATH"
    BY <1>1, <1>5, <2>1, NothingDeletes DEF Data, Deletions
  <2>3. node(c).kind = "dataset" /\ node(c).box = rc[c].box /\ t.box \subseteq rc[c].box
    BY <1>1, <1>5, <2>1, <2>2 DEF CompInv, NodeInv, Declared, Queued, ChunkFact
  <2>4. Fits(t)
    BY <2>1, <2>3 DEF Fits, node
  <2>5. ASSUME t.op = "READ_DATASET", NEW k \in t.box PROVE contents[c].cells[k] # 0
    <3>1. k \in Cell
      BY <1>1, <2>5, TaskFields
    <3> QED
      BY <2>5, <3>1, HeadLoads DEF t
  <2> QED
    BY <1>1, <1>5, <2>1, <2>4, <2>5 DEF Refused, Data, Writers, Readers
<1>6. CASE t.op = "DELETE_ATT"
  <2>1. c \in Comp /\ TaskFact(c, t)
    BY <1>1, <1>2, <1>6 DEF FileTasks
  <2>2. written[c] => isOpen /\ Legible /\ (backend = "HDF5" => contents[c].att # 0)
    BY <1>1, <1>6, <2>1 DEF TaskFact, node
  <2> QED
    BY <1>1, <1>6, <2>2 DEF Refused, Skipped
<1>7. CASE t.op = "DELETE_PATH"
  <2>1. c \in Comp /\ TaskFact(c, t) /\ isOpen /\ Legible
    BY <1>1, <1>2, <1>7 DEF FileTasks, Openers
  <2>2. backend = "HDF5" => contents[c].kind # "none"
    BY <1>7, <2>1 DEF TaskFact, node
  <2> QED
    BY <1>1, <1>7, <2>1, <2>2 DEF Refused, Skipped
<1>8. CASE t.op = "AVAILABLE_CHUNKS"
  <2>1. c \in Comp /\ TaskFact(c, t) /\ isOpen /\ Legible
    BY <1>1, <1>2, <1>8 DEF FileTasks, Openers
  <2>2. \A u \in TasksOf(c) : u.op # "DELETE_PATH"
    BY <1>1, <1>8, <2>1, NothingDeletes DEF Deletions
  <2>3. contents[c].kind = "dataset"
    BY <1>1, <1>8, <2>1, <2>2 DEF CompInv, NodeInv, Declared, Queued, TaskFact, node
  <2> QED
    BY <1>1, <1>8, <2>1, <2>3 DEF Refused, Writers, Readers
<1> QED
  BY <1>2, <1>3, <1>4, <1>5, <1>6, <1>7, <1>8 DEF Operation, Attributes, Data

-----------------------------------------------------------------------------
(* One turn of the loop.                                                   *)

\* The queue of the constructor.
LEMMA ParseTasks ==
  parseTasks = IF encoding = "fileBased"
               THEN <<FileTask("OPEN_FILE"), FileTask("READ_ATT"), FileTask("CLOSE_FILE")>>
               ELSE <<FileTask("OPEN_FILE"), FileTask("READ_ATT")>>
<1>1. ASSUME NEW x, NEW y, NEW z
      PROVE  <<x, y>> \o <<z>> = <<x, y, z>> /\ <<x, y>> \o <<>> = <<x, y>>
  <2> DEFINE s == <<x, y>> \o <<z>>
  <2>1. <<x, y>> \in Seq({x, y, z}) /\ <<z>> \in Seq({x, y, z})
    OBVIOUS
  <2>2. s \in Seq({x, y, z}) /\ Len(s) = 3 /\ s[1] = x /\ s[2] = y /\ s[3] = z
    BY <2>1
  <2>3. <<x, y>> \o <<>> = <<x, y>>
    BY <2>1
  <2> HIDE DEF s
  <2>4. s = <<x, y, z>>
    BY <2>2
  <2> QED
    BY <2>3, <2>4 DEF s
<1> DEFINE o == FileTask("OPEN_FILE")
           r == FileTask("READ_ATT")
           x == FileTask("CLOSE_FILE")
<1>2. parseTasks = <<o, r>> \o IF encoding = "fileBased" THEN <<x>> ELSE <<>>
  BY DEF parseTasks
<1> HIDE DEF o, r, x
<1>3. parseTasks = IF encoding = "fileBased" THEN <<o, r, x>> ELSE <<o, r>>
  BY <1>1, <1>2
<1> QED
  BY <1>3 DEF o, r, x

\* A file is closed at the end of the constructor, when nothing else is queued.
LEMMA ClosingTail ==
  ASSUME TypeOK, QueueInv, phase # "gone", m_work # <<>>, Head(m_work).op = "CLOSE_FILE"
  PROVE  /\ call.op = "construct" /\ access # "CREATE" /\ encoding = "fileBased"
         /\ Tail(m_work) = <<>> /\ \A c \in Comp : TasksOf(c) = {}
<1>1. call.op = "construct"
  BY HeadFacts
<1>2. access # "CREATE" /\ m_work \in {parseTasks, Tail(parseTasks), Tail(Tail(parseTasks))}
  BY <1>1 DEF QueueInv, FileTaskInv
<1> DEFINE o == FileTask("OPEN_FILE")
           r == FileTask("READ_ATT")
           x == FileTask("CLOSE_FILE")
<1>3. o.op = "OPEN_FILE" /\ r.op = "READ_ATT" /\ x.op = "CLOSE_FILE" /\ x.comp = None
  BY DEF FileTask, Task
<1> HIDE DEF o, r, x
<1>4. CASE encoding = "fileBased"
  <2>1. parseTasks = <<o, r, x>>
    BY <1>4, ParseTasks DEF o, r, x
  <2>2. m_work = <<x>>
    BY <1>2, <1>3, <2>1
  <2>3. Tasks(m_work) = {x} /\ Tail(m_work) = <<>>
    BY <2>2, SmallQueues
  <2> QED
    BY <1>1, <1>2, <1>3, <1>4, <2>3, CompAssumption DEF TasksOf
<1>5. CASE encoding # "fileBased"
  <2>1. parseTasks = <<o, r>>
    BY <1>5, ParseTasks DEF o, r
  <2> QED
    BY <1>2, <1>3, <2>1
<1> QED
  BY <1>4, <1>5

\* A component keeps its invariant whatever the task at the head does.
LEMMA ComponentProcessed ==
  ASSUME TypeOK, TypeOK', QueueInv, phase # "gone", ProcessTask,
         UNCHANGED <<frontend, control, counters>>, NEW c \in Comp
  PROVE  CompInv(c)'
<1> DEFINE t == Head(m_work)
<1>1. /\ t \in IOTask /\ t \in Tasks(m_work) /\ HandlersTypeOK
      /\ t.op \notin Openers \cup {"DELETE_ATT"} => isOpen
      /\ t.op \in Data \cup Attributes => written[t.comp]
      /\ t.op = "CREATE_GROUP" => Queued("WRITE_VALUE", t.comp) /\ Queued("WRITE_SHAPE", t.comp)
      /\ t.comp \in Comp =>
           /\ CompInv(t.comp) /\ Ahead(t.comp, t)
           /\ t.comp \in components /\ TaskFact(t.comp, t) /\ ChunkFact(t.comp, t)
      /\ t.op \in Writers => access # "READ_ONLY"
      /\ t.op = "CREATE_FILE" => access = "CREATE"
  BY HeadFacts DEF ProcessTask
<1>2. /\ Execute(t) /\ ~Refused(t) /\ m_work' = Tail(m_work) /\ UNCHANGED fixed
      /\ m_work # <<>> /\ FileInv /\ OrderInv /\ m_work \in Seq(IOTask) /\ CompInv(c)
  BY DEF ProcessTask, QueueInv, TypeOK, HandlersTypeOK
<1>3. /\ Tasks(m_work) = {t} \cup Tasks(m_work')
      /\ \A u \in Tasks(m_work') : InOrder(t, u)
  BY <1>2, TailTasks DEF OrderInv
<1>4. Done(c, t)
  BY <1>3 DEF Done, TasksOf
<1>5. /\ \A d \in Comp : node(d)' = IF Affects(t, d) THEN Effect(t, node(d)) ELSE node(d)
  BY <1>1, <1>2, ExecuteNodes
<1>6. /\ ~Affects(t, c) => written'[c] = written[c]
      /\ Affects(t, t.comp) /\ t.comp \in Comp =>
           /\ t.op \in Creators => written'[t.comp]
           /\ t.op \in Attributes \cup {"WRITE_DATASET"} =>
                written'[t.comp] = (written[t.comp] \/ backend = "JSON")
           /\ t.op = "DELETE_PATH" => ~written'[t.comp]
           /\ t.op \in {"DELETE_ATT"} \cup Readers => written'[t.comp] = written[t.comp]
      /\ t.op # "CLOSE_FILE" /\ isOpen => isOpen'
  BY <1>1, <1>2, ExecuteFlags
<1>7. t.op = "CLOSE_FILE" => TasksOf(c) = {}
  BY <1>2, ClosingTail
<1>8. t.op \in Operation /\ (t.op \in FileTasks => t.comp = None)
  BY <1>1 DEF IOTask
<1>9. UNCHANGED <<components, rc, stored, doomed, call, changes>>
  BY DEF frontend, control, counters
<1>10. Kept(c)
  <2>1. changes \in Nat
    BY Numbers
  <2> QED
    BY <1>2, <1>6, <1>7, <1>9, <2>1 DEF Kept, Lost, Erasing, Deleting
<1> HIDE DEF t
<1>11. CASE c # t.comp
  <2>1. t \notin TasksOf(c) /\ ~Affects(t, c)
    BY <1>11 DEF TasksOf, Affects
  <2> QED
    BY <1>2, <1>4, <1>5, <1>6, <1>10, <2>1, Unaffected
<1>12. CASE c = t.comp
  <2> USE <1>12
  <2>1. t.op \notin FileTasks /\ Ahead(c, t) /\ TaskFact(c, t) /\ c \in components
    BY <1>1, <1>8, CompAssumption
  <2>2. Affects(t, c) <=> ~Skipped(t)
    BY DEF Affects
  <2>3. \A u \in TasksOf(c)' : InOrder(t, u) /\ u.comp = c
    BY <1>3 DEF TasksOf
  <2>4. CASE t.op \in Readers
    <3>1. Effect(t, node(c)) = node(c) /\ written'[c] = written[c]
      BY <1>6, <2>2, <2>4 DEF Effect, Readers
    <3> QED
      BY <1>2, <1>4, <1>5, <1>10, <2>4, <3>1, Unaffected
  <2>5. CASE t.op \in Creators
    <3>1. CASE ~Skipped(t)
      <4>1. t.op = "CREATE_DATASET" => ~written[c]
        BY <3>1 DEF Skipped
      <4> QED
        BY <1>1, <1>2, <1>4, <1>5, <1>6, <1>10, <2>1, <2>2, <2>5, <3>1, <4>1, ComponentCreated
    <3>2. CASE Skipped(t)
      <4>1. written[c]
        BY <2>5, <3>2 DEF Skipped, Creators
      <4> QED
        BY <1>2, <1>4, <1>5, <1>6, <1>10, <2>1, <2>2, <2>5, <3>2, <4>1, CreationSkipped
    <3> QED
      BY <3>1, <3>2
  <2>6. CASE t.op \in Attributes \cup {"WRITE_DATASET"}
    <3>1. ~Skipped(t) /\ written[c] /\ written'[c]
      BY <1>1, <1>6, <2>2, <2>6 DEF Skipped, Attributes, Data
    <3>2. CASE t.op \in Attributes
      BY <1>2, <1>4, <1>5, <1>10, <2>1, <2>2, <3>1, <3>2, AttributeWritten
    <3>3. CASE t.op = "WRITE_DATASET"
      BY <1>2, <1>4, <1>5, <1>10, <2>1, <2>2, <3>1, <3>3, ChunkWritten
    <3> QED
      BY <2>6, <3>2, <3>3
  <2>7. CASE t.op = "DELETE_PATH"
    <3>1. ~Skipped(t) /\ access # "READ_ONLY"
      BY <1>1, <2>1, <2>7 DEF TaskFact, Skipped, Writers, Readers, Operation
    <3>2. ~written'[c] /\ node(c)' = NoNode
      BY <1>5, <1>6, <2>2, <2>7, <3>1 DEF Effect
    <3>3. TasksOf(c)' = {}
      BY <2>3, <2>7 DEF InOrder
    <3> QED
      BY <1>2, <1>4, <1>10, <2>1, <2>7, <3>1, <3>2, <3>3, ComponentDeleted
  <2>8. CASE t.op = "DELETE_ATT"
    <3>1. Skipped(t) <=> ~written[c]
      BY <2>8 DEF Skipped
    <3>2. written'[c] = written[c]
      BY <1>6, <2>2, <2>8
    <3>3. t \notin TasksOf(c)'
      BY <2>3, <2>8 DEF InOrder, Deletions
    <3> QED
      BY <1>2, <1>4, <1>5, <1>10, <2>1, <2>2, <2>8, <3>1, <3>2, <3>3, AttributeDeleted
  <2> QED
    BY <1>8, <2>1, <2>4, <2>5, <2>6, <2>7, <2>8
       DEF Operation, FileTasks, Readers, Creators, Attributes
<1> QED
  BY <1>11, <1>12

\* ... and so do the file and what is said of the whole queue.
LEMMA FileProcessed ==
  ASSUME TypeOK, QueueInv, phase # "gone", ProcessTask, UNCHANGED <<frontend, control, counters>>
  PROVE  FileInv'
<1> DEFINE t == Head(m_work)
<1>1. /\ t \in IOTask /\ HandlersTypeOK
      /\ t.op \notin Openers \cup {"DELETE_ATT"} => isOpen
      /\ t.comp \in Comp => TaskFact(t.comp, t)
      /\ t.op = "CREATE_FILE" => access = "CREATE"
      /\ t.op = "OPEN_FILE" => access # "CREATE"
  BY HeadFacts DEF ProcessTask
<1>2. /\ Execute(t) /\ ~Refused(t) /\ m_work' = Tail(m_work) /\ UNCHANGED fixed
      /\ m_work # <<>> /\ FileInv
  BY DEF ProcessTask, QueueInv
<1>3. t.op = "CLOSE_FILE" => access # "CREATE"
  BY <1>2, ClosingTail
<1>4. /\ Legible => Legible'
      /\ t.op = "CREATE_FILE" /\ ~Skipped(t) => Legible'
  BY <1>1, <1>2, ExecuteNodes
<1>5. /\ t.op = "CREATE_FILE" /\ ~Skipped(t) => isOpen' /\ fileWritten'
      /\ t.op \notin {"OPEN_FILE", "CREATE_FILE"} => fileWritten' = fileWritten
      /\ t.op \notin {"OPEN_FILE", "CREATE_FILE", "CLOSE_FILE"} => isOpen' = isOpen
      /\ Skipped(t) => isOpen' = isOpen /\ fileWritten' = fileWritten
  BY <1>1, <1>2, ExecuteFlags
<1>6. /\ ~Skipped(t) /\ t.op \notin FileTasks => t.comp \in Comp
      /\ t.op = "DELETE_ATT" /\ ~Skipped(t) => isOpen
  <2>1. t.op \notin FileTasks => t.comp \in Comp
    BY <1>1, TaskFields
  <2> QED
    BY <1>1, <2>1 DEF TaskFact, Skipped, FileTasks
<1>7. \/ /\ UNCHANGED file
         /\ Skipped(t) \/ t.op = "OPEN_FILE" \/ (t.op = "CLOSE_FILE" /\ m_jsonVals = None)
      \/ t.op \notin Putters /\ \E K \in Contents : markDirty(K)
      \/ t.op \in Putters /\ \E K \in Contents : putJsonContents(K)
      \/ t.op \in Readers /\ obtainJsonContents /\ Legible
  BY <1>1, <1>2, ExecuteCases
<1>8. \A K \in Contents : K # None /\ K # Torn
  BY FileAssumption
<1> HIDE DEF t
<1>9. ASSUME access = "CREATE"
      PROVE  encoding = "groupBased" /\ isOpen' = fileWritten'
             /\ (~fileWritten' => m_jsonVals' = None /\ disk' = None)
  <2>1. encoding = "groupBased" /\ isOpen = fileWritten
        /\ (~fileWritten => m_jsonVals = None /\ disk = None)
    BY <1>2, <1>9 DEF FileInv
  <2>2. isOpen' = fileWritten'
    <3>1. isOpen' \in BOOLEAN /\ fileWritten' \in BOOLEAN
      BY <1>1, <1>2, ExecuteRest
    <3> QED
      BY <1>1, <1>3, <1>5, <1>9, <2>1, <3>1
  <2>3. ASSUME ~fileWritten' PROVE UNCHANGED <<m_jsonVals, disk>> /\ ~fileWritten
    <3>1. ~fileWritten /\ Skipped(t)
      BY <1>1, <1>5, <1>6, <1>9, <2>1, <2>3 DEF Openers, Skipped
    <3> QED
      BY <1>2, <3>1 DEF Execute, file
  <2> QED
    BY <2>1, <2>2, <2>3
<1>10. access # "CREATE" \/ fileWritten' => Legible'
  BY <1>1, <1>2, <1>4, <1>5 DEF FileInv, Skipped
<1>11. ASSUME backend = "HDF5" PROVE m_jsonVals' = None /\ disk' # Torn
  <2>1. m_jsonVals = None /\ disk # Torn
    BY <1>2, <1>11 DEF FileInv
  <2> QED
    BY <1>7, <1>8, <1>11, <2>1 DEF file, markDirty, putJsonContents, obtainJsonContents
<1>12. ASSUME m_jsonVals' # None, ~m_dirty' PROVE disk' = m_jsonVals' \/ Pending'
  <2>1. backend = "JSON"
    BY <1>1, <1>11, <1>12 DEF HandlersTypeOK, Backend
  <2>2. CASE UNCHANGED file /\ (Skipped(t) \/ t.op = "OPEN_FILE")
    <3>1. ~Pending
      BY <2>2 DEF Pending, Putters, t
    <3> QED
      BY <1>2, <1>12, <2>2, <3>1 DEF FileInv, file
  <2>3. CASE t.op \in Readers /\ obtainJsonContents /\ Legible
    <3>1. ~Pending
      BY <2>3 DEF Pending, Putters, Readers, t
    <3> QED
      BY <1>2, <1>12, <2>1, <2>3, <3>1 DEF FileInv, obtainJsonContents, contents
  <2> QED
    BY <1>7, <1>8, <1>12, <2>1, <2>2, <2>3 DEF file, markDirty, putJsonContents
<1> QED
  BY <1>2, <1>9, <1>10, <1>11, <1>12 DEF FileInv, fixed

LEMMA TasksProcessed ==
  ASSUME TypeOK, QueueInv, phase = "drain", ProcessTask, UNCHANGED <<frontend, control, counters>>
  PROVE  OrderInv' /\ FileTaskInv' /\ PhaseInv'
<1> DEFINE t == Head(m_work)
<1>1. t \in IOTask /\ t \in Tasks(m_work) /\ HandlersTypeOK
  BY HeadFacts DEF ProcessTask
<1>2. /\ Execute(t) /\ ~Refused(t) /\ m_work' = Tail(m_work) /\ UNCHANGED fixed
      /\ m_work # <<>> /\ OrderInv /\ FileTaskInv /\ PhaseInv /\ m_work \in Seq(IOTask)
  BY DEF ProcessTask, QueueInv, TypeOK, HandlersTypeOK
<1>3. /\ Tasks(m_work) = {t} \cup Tasks(m_work') /\ Ordered(m_work')
  BY <1>2, TailTasks DEF OrderInv
<1>4. UNCHANGED <<components, rc, phase, call, todo, result>> /\ phase = "drain"
  BY DEF frontend, control
<1>5. /\ t.op # "CLOSE_FILE" /\ isOpen => isOpen'
      /\ t.op = "OPEN_FILE" => isOpen'
      /\ t.op = "CREATE_FILE" /\ ~Skipped(t) => fileWritten'
      /\ fileWritten => fileWritten'
  BY <1>1, <1>2, ExecuteFlags
<1>6. t.op = "CLOSE_FILE" => encoding = "fileBased"
  BY <1>2, <1>4, ClosingTail
<1>7. OrderInv'
  <2>1. Ordered(m_work)'
    BY <1>3 DEF Ordered
  <2>2. ASSUME NEW c \in components'
        PROVE  Ordered(rc[c].chunks)' /\ AllInOrder(Tasks(m_work), Tasks(rc[c].chunks))'
    <3>1. Ordered(rc[c].chunks) /\ AllInOrder(Tasks(m_work), Tasks(rc[c].chunks))
      BY <1>2, <1>4, <2>2 DEF OrderInv
    <3>2. rc'[c].chunks = rc[c].chunks
      BY <1>4
    <3>3. Ordered(rc[c].chunks)'
      BY <3>1, <3>2 DEF Ordered
    <3>4. Tasks(rc[c].chunks)' = Tasks(rc[c].chunks) /\ Tasks(m_work)' \subseteq Tasks(m_work)
      BY <1>3, <3>2 DEF Tasks
    <3>5. AllInOrder(Tasks(m_work), Tasks(rc[c].chunks))'
      BY <3>1, <3>4 DEF AllInOrder
    <3> QED
      BY <3>3, <3>5
  <2> QED
    BY <2>1, <2>2 DEF OrderInv
<1>8. FileTaskInv'
  <2> DEFINE o == FileTask("OPEN_FILE")
             r == FileTask("READ_ATT")
             x == FileTask("CLOSE_FILE")
  <2>1. parseTasks' = parseTasks
    BY <1>2 DEF parseTasks, fixed
  <2>2. o.op = "OPEN_FILE"
    BY DEF FileTask, Task
  <2> HIDE DEF o, r, x
  <2>3. parseTasks = IF encoding = "fileBased" THEN <<o, r, x>> ELSE <<o, r>>
    BY ParseTasks DEF o, r, x
  <2>4. m_work = parseTasks => t.op = "OPEN_FILE"
    BY <2>2, <2>3
  <2>5. m_work \in {parseTasks, Tail(parseTasks), Tail(Tail(parseTasks))} =>
          Tail(m_work) \in {Tail(parseTasks), Tail(Tail(parseTasks)), <<>>}
    <3>1. Tail(<<o, r, x>>) = <<r, x>> /\ Tail(<<r, x>>) = <<x>> /\ Tail(<<x>>) = <<>>
      OBVIOUS
    <3>2. Tail(<<o, r>>) = <<r>> /\ Tail(<<r>>) = <<>>
      OBVIOUS
    <3>3. CASE encoding = "fileBased"
      BY <1>2, <2>3, <3>1, <3>3
    <3>4. CASE encoding # "fileBased"
      BY <1>2, <2>3, <3>2, <3>4
    <3> QED
      BY <3>3, <3>4
  <2>6. \A u \in Tasks(m_work)' :
          /\ u.op = "CREATE_FILE" => access = "CREATE"
          /\ u.op = "OPEN_FILE" => access # "CREATE"
          /\ u.op \in {"CLOSE_FILE", "READ_ATT"} => call.op = "construct"
          /\ u.op \in Writers => access # "READ_ONLY"
    BY <1>2, <1>3 DEF FileTaskInv, Tasks
  <2>7. access # "CREATE" /\ encoding = "groupBased" => isOpen'
    BY <1>2, <1>5, <1>6, <2>4 DEF FileTaskInv
  <2>8. call.op = "construct" =>
          /\ access # "CREATE"
          /\ m_work' \in {Tail(parseTasks), Tail(Tail(parseTasks)), <<>>}
    BY <1>2, <2>5 DEF FileTaskInv
  <2> QED
    BY <1>2, <1>4, <2>1, <2>6, <2>7, <2>8 DEF FileTaskInv, fixed
<1>9. PhaseInv'
  <2>1. Visits /\ access = "CREATE" => fileWritten' \/ \E u \in Tasks(m_work)' : u.op = "CREATE_FILE"
    <3>1. CASE t.op = "CREATE_FILE"
      BY <1>5, <3>1 DEF Skipped
    <3>2. CASE t.op # "CREATE_FILE"
      BY <1>2, <1>3, <1>5, <3>2 DEF PhaseInv, Tasks
    <3> QED
      BY <3>1, <3>2
  <2> QED
    BY <1>2, <1>4, <2>1 DEF PhaseInv, Visits, fixed
<1> QED
  BY <1>7, <1>8, <1>9

\* What the task was to do for those behind it, it has done.
LEMMA ReadyProcessed ==
  ASSUME TypeOK, QueueInv, phase = "drain", ProcessTask, UNCHANGED <<frontend, control, counters>>
  PROVE  ReadyInv'
<1> PICK q : q = Tail(m_work)
  OBVIOUS
<1> DEFINE t == Head(m_work)
<1>1. /\ t \in IOTask /\ t \in Tasks(m_work) /\ HandlersTypeOK
      /\ t.op = "CREATE_FILE" => access = "CREATE"
      /\ t.comp \in Comp => TaskFact(t.comp, t)
      /\ t.op \notin Openers \cup {"DELETE_ATT"} => isOpen
  BY HeadFacts DEF ProcessTask
<1>2. /\ Execute(t) /\ ~Refused(t) /\ m_work' = q /\ UNCHANGED fixed
      /\ m_work # <<>> /\ m_work \in Seq(IOTask) /\ FileInv /\ ReadyInv /\ OrderInv
  BY DEF ProcessTask, QueueInv, TypeOK, HandlersTypeOK
<1>3. /\ DOMAIN q = 1 .. Len(q) /\ Len(m_work) = Len(q) + 1 /\ Len(q) \in Nat
      /\ \A i \in 1 .. Len(q) : q[i] = m_work[i + 1] /\ i + 1 \in DOMAIN m_work
      /\ \A i \in 2 .. Len(m_work) : i - 1 \in 1 .. Len(q) /\ q[i - 1] = m_work[i]
      /\ m_work[1] = t
  BY <1>2
<1>4. \A u \in Tasks(q) : InOrder(t, u)
  BY <1>2, TailTasks DEF OrderInv
<1>5. /\ \A c \in Comp : ~Affects(t, c) => written'[c] = written[c]
      /\ Affects(t, t.comp) /\ t.comp \in Comp =>
           /\ t.op \in Creators => written'[t.comp]
           /\ t.op \in Attributes \cup {"WRITE_DATASET"} =>
                written'[t.comp] = (written[t.comp] \/ backend = "JSON")
           /\ t.op = "DELETE_PATH" => ~written'[t.comp]
           /\ t.op \in {"DELETE_ATT"} \cup Readers => written'[t.comp] = written[t.comp]
      /\ t.op # "CLOSE_FILE" /\ isOpen => isOpen'
      /\ t.op = "OPEN_FILE" => isOpen'
      /\ t.op = "CREATE_FILE" /\ ~Skipped(t) => isOpen' /\ fileWritten'
  BY <1>1, <1>2, ExecuteFlags
<1>6. t.op = "CLOSE_FILE" => q = <<>>
  BY <1>2, ClosingTail
<1>7. t.op \in Operation /\ (t.op \notin FileTasks => t.comp \in Comp)
  BY <1>1, TaskFields
<1> HIDE DEF t
<1> SUFFICES ASSUME NEW p \in DOMAIN q PROVE ReadyAt(q, p)'
  BY <1>2 DEF ReadyInv, ReadyAt, OpenAt, CreatedAt, FollowedBy
<1> DEFINE c == q[p].comp
<1>8. /\ p \in 1 .. Len(q) /\ p + 1 \in DOMAIN m_work /\ m_work[p + 1] = q[p]
      /\ ReadyAt(m_work, p + 1) /\ q[p] \in Tasks(q) /\ q # <<>>
  BY <1>2, <1>3 DEF ReadyInv, Tasks
<1>9. OpenAt(m_work, p + 1) => OpenAt(q, p)'
  <2> SUFFICES ASSUME OpenAt(m_work, p + 1) PROVE isOpen' \/ \E j \in 1 .. p - 1 : q[j].op \in Openers
    BY <1>2 DEF OpenAt
  <2>1. CASE isOpen
    BY <1>5, <1>6, <1>8, <2>1
  <2>2. ASSUME NEW j \in 1 .. p, m_work[j].op \in Openers
        PROVE  isOpen' \/ \E i \in 1 .. p - 1 : q[i].op \in Openers
    <3>1. CASE j = 1
      <4>1. t.op = "CREATE_FILE" /\ Skipped(t) => isOpen
        BY <1>1, <1>2 DEF Skipped, FileInv
      <4> QED
        BY <1>3, <1>5, <2>2, <3>1, <4>1 DEF Openers
    <3>2. CASE j # 1
      <4>1. j - 1 \in 1 .. p - 1 /\ j \in 2 .. Len(m_work)
        BY <1>3, <1>8, <3>2
      <4> QED
        BY <1>3, <2>2, <4>1
    <3> QED
      BY <3>1, <3>2
  <2> QED
    BY <1>8, <2>1, <2>2 DEF OpenAt
<1>10. ASSUME c \in Comp, CreatedAt(m_work, p + 1)
       PROVE  written'[c] \/ \E j \in 1 .. p - 1 : q[j].op \in Creators /\ q[j].comp = c
  <2>1. CASE written[c]
    <3>1. CASE Affects(t, c)
      <4>1. t.comp = c /\ t.op # "DELETE_PATH"
        BY <1>4, <1>8, <3>1 DEF Affects, InOrder
      <4>2. t.op \in FileTasks => t.comp = None
        BY <1>1 DEF IOTask
      <4> QED
        BY <1>5, <1>7, <1>10, <2>1, <3>1, <4>1, <4>2, CompAssumption
           DEF Operation, FileTasks, Creators, Attributes, Readers
    <3>2. CASE ~Affects(t, c)
      BY <1>5, <1>10, <2>1, <3>2
    <3> QED
      BY <3>1, <3>2
  <2>2. ASSUME NEW j \in 1 .. p, m_work[j].op \in Creators, m_work[j].comp = c
        PROVE  written'[c] \/ \E i \in 1 .. p - 1 : q[i].op \in Creators /\ q[i].comp = c
    <3>1. CASE j = 1
      <4>1. t.comp = c /\ t.op \in Creators
        BY <1>3, <2>2, <3>1
      <4>2. Skipped(t) => written[c]
        BY <4>1 DEF Skipped, Creators
      <4> QED
        BY <1>5, <1>10, <2>1, <4>1, <4>2 DEF Affects
    <3>2. CASE j # 1
      <4>1. j - 1 \in 1 .. p - 1 /\ j \in 2 .. Len(m_work)
        BY <1>3, <1>8, <3>2
      <4> QED
        BY <1>3, <2>2, <4>1
    <3> QED
      BY <3>1, <3>2
  <2> QED
    BY <1>8, <1>10, <2>1, <2>2 DEF CreatedAt
<1>11. ASSUME NEW o, FollowedBy(m_work, p + 1, o) PROVE FollowedBy(q, p, o)
  <2>1. PICK i \in p + 1 + 1 .. Len(m_work) : m_work[i].op = o /\ m_work[i].comp = c
    BY <1>8, <1>11 DEF FollowedBy
  <2>2. i - 1 \in p + 1 .. Len(q) /\ q[i - 1] = m_work[i]
    BY <1>3, <1>8
  <2> QED
    BY <2>1, <2>2 DEF FollowedBy
<1>12. q[p].op \in Data \cup Attributes => c \in Comp
  <2>1. q[p] \in IOTask
    BY <1>2, <1>8
  <2> QED
    BY <2>1, TaskFields DEF Data, Attributes, FileTasks
<1> QED
  <2>1. q[p].op \notin Openers \cup {"DELETE_ATT"} => OpenAt(q, p)'
    BY <1>8, <1>9 DEF ReadyAt
  <2>2. q[p].op \in Data \cup Attributes => CreatedAt(q, p)'
    BY <1>8, <1>10, <1>12 DEF ReadyAt, CreatedAt
  <2>3. q[p].op = "CREATE_GROUP" =>
          FollowedBy(q, p, "WRITE_VALUE")' /\ FollowedBy(q, p, "WRITE_SHAPE")'
    BY <1>8, <1>11 DEF ReadyAt, FollowedBy
  <2> QED
    BY <2>1, <2>2, <2>3 DEF ReadyAt

\* The copy is written when the queue is empty.
LEMMA DirtyFlushed ==
  ASSUME TypeOK, TypeOK', QueueInv, phase = "drain", FlushDirty,
         UNCHANGED <<frontend, control, counters>>
  PROVE  QueueInv'
<1>1. /\ OrderInv /\ ReadyInv /\ FileInv /\ FileTaskInv /\ PhaseInv /\ HandlersTypeOK
      /\ \A c \in Comp : CompInv(c)
  BY DEF QueueInv, TypeOK
<1>2. UNCHANGED <<fixed, m_work, flags, isOpen, components, rc, stored, doomed, phase, call, todo,
                  result, changes>> /\ m_work = <<>>
  BY DEF FlushDirty, frontend, control, counters
<1>3. contents' = contents /\ Legible' = Legible /\ FileInv'
  <2>1. CASE m_jsonVals # None
    <3>1. putJsonContents(contents) /\ contents \in Contents /\ contents # None /\ contents # Torn
      BY <1>1, <2>1, LegibleContents, FileAssumption DEF FlushDirty
    <3>2. Legible
      BY <3>1 DEF Legible
    <3>3. Legible' /\ contents' = contents
      BY <1>1, <1>2, <3>1, WrittenContents DEF fixed
    <3>4. backend = "JSON"
      BY <1>1, <2>1 DEF FileInv, HandlersTypeOK, Backend
    <3>5. m_jsonVals' = None
      BY <3>1, <3>4 DEF putJsonContents
    <3> QED
      BY <1>1, <1>2, <2>1, <3>2, <3>3, <3>4, <3>5 DEF FileInv, fixed, flags
  <2>2. CASE m_jsonVals = None
    <3>1. UNCHANGED <<m_jsonVals, disk>>
      BY <2>2 DEF FlushDirty
    <3> QED
      BY <1>1, <1>2, <2>2, <3>1, SameContents DEF FileInv, fixed, flags
  <2> QED
    BY <2>1, <2>2
<1>4. OrderInv'
  BY <1>1, <1>2 DEF OrderInv, Ordered, AllInOrder, Tasks
<1>5. ReadyInv'
  BY <1>2 DEF ReadyInv
<1>6. FileTaskInv' /\ PhaseInv'
  BY <1>1, <1>2 DEF FileTaskInv, PhaseInv, Visits, Tasks, fixed, flags, parseTasks
<1>7. ASSUME NEW c \in Comp PROVE CompInv(c)'
  <2>1. Kept(c)
    <3>1. changes \in Nat
      BY <1>7, Numbers
    <3> QED
      BY <1>2, <3>1 DEF Kept, Lost, Erasing, Deleting
  <2>2. Done(c, NoNode) /\ NoNode \notin TasksOf(c)
    BY <1>2 DEF Done, TasksOf, Tasks
  <2>3. node(c)' = node(c) /\ written'[c] = written[c]
    BY <1>2, <1>3 DEF node, flags
  <2> QED
    BY <1>1, <2>1, <2>2, <2>3, Unaffected
<1> QED
  BY <1>3, <1>4, <1>5, <1>6, <1>7 DEF QueueInv

LEMMA DrainKeeps ==
  ASSUME TypeOK, TypeOK', QueueInv, Drain
  PROVE  QueueInv'
<1>1. phase = "drain" /\ UNCHANGED <<frontend, control, counters>>
  BY DEF Drain
<1>2. CASE ProcessTask
  BY <1>1, <1>2, ComponentProcessed, FileProcessed, TasksProcessed, ReadyProcessed DEF QueueInv
<1>3. CASE FlushDirty
  BY <1>1, <1>3, DirtyFlushed
<1> QED
  BY <1>2, <1>3 DEF Drain

-----------------------------------------------------------------------------
(* Handlers that throw.                                                    *)

\* Neither the component nor what is queued for it changes.
LEMMA Undisturbed ==
  ASSUME TypeOK, TypeOK', NEW c \in Comp, CompInv(c), Kept(c), TasksOf(c)' = TasksOf(c),
         node(c)' = node(c), written'[c] = written[c]
  PROVE  CompInv(c)'
<1> DEFINE t == Task("READ_DATASET", c, {}, 0)
<1>1. t.op \in Readers
  BY DEF Task, Readers
<1> HIDE DEF t
<1>2. Done(c, t)
  BY DEF Done
<1> QED
  BY <1>1, <1>2, Unaffected

\* The queue as a whole stays.
LEMMA QueueStays ==
  ASSUME QueueInv, phase # "gone", UNCHANGED <<m_work, flags, isOpen>>
  PROVE  /\ ReadyInv' /\ \A c \in Comp : TasksOf(c)' = TasksOf(c)
         /\ Tasks(m_work)' = Tasks(m_work)
         /\ (\A c \in components' : c \in components /\ rc'[c].chunks = rc[c].chunks) => OrderInv'
<1>1. ReadyInv /\ OrderInv
  BY DEF QueueInv
<1>2. ReadyInv'
  BY <1>1 DEF ReadyInv, ReadyAt, OpenAt, CreatedAt, FollowedBy, flags
<1>3. Tasks(m_work)' = Tasks(m_work) /\ \A c \in Comp : TasksOf(c)' = TasksOf(c)
  BY DEF Tasks, TasksOf
<1>4. ASSUME \A c \in components' : c \in components /\ rc'[c].chunks = rc[c].chunks
      PROVE  OrderInv'
  <2>1. Ordered(m_work)'
    BY <1>1 DEF OrderInv, Ordered
  <2>2. ASSUME NEW c \in components'
        PROVE  Ordered(rc[c].chunks)' /\ AllInOrder(Tasks(m_work), Tasks(rc[c].chunks))'
    <3>1. Ordered(rc[c].chunks) /\ AllInOrder(Tasks(m_work), Tasks(rc[c].chunks))
          /\ rc'[c].chunks = rc[c].chunks
      BY <1>1, <1>4, <2>2 DEF OrderInv
    <3>2. Tasks(rc[c].chunks)' = Tasks(rc[c].chunks)
      BY <3>1 DEF Tasks
    <3> QED
      BY <1>3, <3>1, <3>2 DEF Ordered, AllInOrder
  <2> QED
    BY <2>1, <2>2 DEF OrderInv
<1> QED
  BY <1>2, <1>3, <1>4

\* An exception leaves queue and components alone.
LEMMA ThrowKeeps ==
  ASSUME TypeOK, QueueInv, phase = "drain", Throw, UNCHANGED untouched, phase' # "gone"
  PROVE  /\ OrderInv' /\ ReadyInv' /\ FileTaskInv' /\ PhaseInv'
         /\ \A c \in Comp : Kept(c) /\ TasksOf(c)' = TasksOf(c) /\ written'[c] = written[c]
<1>1. /\ UNCHANGED <<components, rc, m_closed, stored, todo, changes>>
      /\ UNCHANGED <<fixed, m_work, flags, isOpen>>
      /\ FileTaskInv /\ PhaseInv
  BY DEF Throw, untouched, QueueInv
<1>2. /\ ReadyInv' /\ OrderInv' /\ Tasks(m_work)' = Tasks(m_work)
      /\ \A c \in Comp : TasksOf(c)' = TasksOf(c)
  BY <1>1, QueueStays
<1>3. /\ call' = call \/ call'.op = "none"
      /\ call.op = "construct" => call' = call
      /\ phase' = "idle" \/ (phase' = "drain" /\ call' = call /\ result' = "threw")
      /\ phase' = phase \/ call.op # "construct"
  BY DEF Throw, NoCall, Call
<1>4. FileTaskInv'
  <2>1. parseTasks' = parseTasks
    BY <1>1 DEF parseTasks, fixed
  <2> QED
    BY <1>1, <1>2, <1>3, <2>1 DEF FileTaskInv, fixed
<1>5. PhaseInv'
  BY <1>1, <1>2, <1>3 DEF PhaseInv, Visits, fixed, flags
<1>6. ASSUME NEW c \in Comp PROVE Kept(c)
  <2>1. changes \in Nat
    BY Numbers
  <2>2. Lost(c) \/ Deleting(c) => Lost(c)'
    BY DEF Throw, Lost, Erasing, Deleting
  <2>3. (Deleting(c)' => Deleting(c)) /\ (Erasing(c)' => Erasing(c))
    BY <1>3 DEF Erasing, Deleting
  <2> QED
    BY <1>1, <2>1, <2>2, <2>3 DEF Kept
<1> QED
  BY <1>1, <1>2, <1>4, <1>5, <1>6 DEF flags

LEMMA HandlerThrowsKeeps ==
  ASSUME TypeOK, TypeOK', QueueInv, HandlerThrows
  PROVE  QueueInv'
<1> SUFFICES ASSUME phase' # "gone" PROVE QueueInv'
  BY DEF QueueInv
<1>1. phase = "drain" /\ Throw /\ UNCHANGED untouched /\ UNCHANGED file
  BY DEF HandlerThrows
<1>2. /\ OrderInv' /\ ReadyInv' /\ FileTaskInv' /\ PhaseInv'
      /\ \A c \in Comp : Kept(c) /\ TasksOf(c)' = TasksOf(c) /\ written'[c] = written[c]
  BY <1>1, ThrowKeeps
<1>3. contents' = contents /\ Legible' = Legible /\ \A c \in Comp : node(c)' = node(c)
  BY <1>1, SameContents DEF file
<1>4. FileInv'
  <2>1. FileInv /\ (Pending => Pending')
    BY <1>1, SeqTypes, PendingStays DEF QueueInv, untouched
  <2> QED
    BY <1>1, <1>3, <2>1 DEF FileInv, untouched, fixed, flags, file
<1>5. ASSUME NEW c \in Comp PROVE CompInv(c)'
  BY <1>1, <1>2, <1>3, Undisturbed DEF QueueInv
<1> QED
  BY <1>2, <1>4, <1>5 DEF QueueInv

\* JSON's copy is as the task at the head has made it.
LEMMA WriteThrowsKeeps ==
  ASSUME TypeOK, TypeOK', QueueInv, WriteThrows
  PROVE  QueueInv'
<1> SUFFICES ASSUME phase' # "gone" PROVE QueueInv'
  BY DEF QueueInv
<1> DEFINE t == Head(m_work)
<1>1. /\ phase = "drain" /\ Throw /\ UNCHANGED untouched /\ PutFails /\ HandlersTypeOK /\ FileInv
      /\ \A c \in Comp : CompInv(c)
  BY DEF WriteThrows, QueueInv, TypeOK
<1>2. /\ OrderInv' /\ ReadyInv' /\ FileTaskInv' /\ PhaseInv'
      /\ \A c \in Comp : Kept(c) /\ TasksOf(c)' = TasksOf(c) /\ written'[c] = written[c]
  BY <1>1, ThrowKeeps
<1>3. /\ m_jsonVals' \in Contents /\ m_jsonVals' # None /\ m_jsonVals' # Torn
      /\ m_dirty' = m_dirty /\ disk' = Torn /\ backend = "JSON"
  BY <1>1, PutFailsTypes, FileAssumption DEF PutFails
<1>4. contents' = m_jsonVals' /\ Legible'
  BY <1>3 DEF contents, Legible
<1>5. FileInv'
  <2>1. UNCHANGED <<fixed, flags, isOpen, m_work>>
    BY <1>1 DEF untouched
  <2>2. m_dirty \/ Pending
    BY <1>1 DEF PutFails, Pending
  <2>3. Pending => Pending'
    BY <2>1, SeqTypes, PendingStays
  <2>4. access = "CREATE" => fileWritten
    <3>1. CASE m_work = <<>>
      BY <1>1, <3>1 DEF PutFails, FileInv
    <3>2. ASSUME m_work # <<>>, access = "CREATE" PROVE isOpen
      <4>1. t.op \in Putters /\ ~Skipped(t) /\ ~Refused(t)
        BY <1>1, <3>2 DEF PutFails
      <4>2. t.op = "CLOSE_FILE" => access # "CREATE"
        BY <1>1, <3>2, ClosingTail
      <4> QED
        BY <3>2, <4>1, <4>2 DEF Refused, Putters
    <3> QED
      BY <1>1, <3>1, <3>2 DEF FileInv
  <2> QED
    BY <1>1, <1>3, <1>4, <2>1, <2>2, <2>3, <2>4 DEF FileInv, fixed, flags
<1>6. CASE m_work = <<>> \/ t.op = "CLOSE_FILE"
  <2>1. m_jsonVals # None /\ contents = m_jsonVals /\ contents \in Contents /\ m_jsonVals' = contents
    <3>1. m_jsonVals # None
      BY <1>1, <1>6 DEF PutFails
    <3>2. contents = m_jsonVals /\ contents \in Contents
      BY <1>1, <3>1, LegibleContents
    <3> QED
      BY <1>1, <1>6, <3>1, <3>2 DEF PutFails, Result
  <2>2. Legible
    BY <2>1, FileAssumption DEF Legible
  <2>3. \A c \in Comp : node(c)' = node(c)
    BY <1>4, <2>1, <2>2 DEF node
  <2>4. ASSUME NEW c \in Comp PROVE CompInv(c)'
    BY <1>1, <1>2, <2>3, Undisturbed
  <2> QED
    BY <1>2, <1>5, <2>4 DEF QueueInv
<1>7. CASE m_work # <<>> /\ t.op # "CLOSE_FILE"
  <2>1. /\ t.op \in {"WRITE_DATASET", "DELETE_PATH", "DELETE_ATT"}
        /\ ~Skipped(t) /\ ~Refused(t) /\ m_jsonVals' = Result(t)
    BY <1>1, <1>7 DEF PutFails, Putters
  <2>2. /\ t \in IOTask
        /\ t.op \in Data \cup Attributes => written[t.comp]
        /\ t.comp \in Comp =>
             Ahead(t.comp, t) /\ t.comp \in components /\ TaskFact(t.comp, t)
        /\ t.op \in Writers => access # "READ_ONLY"
    BY <1>1, <1>7, HeadFacts
  <2> HIDE DEF t
  <2>3. Legible /\ t.comp \in Comp
    BY <2>1, <2>2, NotRefused, TaskFields DEF FileTasks
  <2> DEFINE n == Effect(t, contents[t.comp])
  <2>4. contents' = [contents EXCEPT ![t.comp] = n]
    BY <1>1, <1>4, <2>1, <2>2, <2>3, ResultEffect
  <2>5. \A d \in Comp : node(d)' = IF Affects(t, d) THEN Effect(t, node(d)) ELSE node(d)
    BY <1>1, <1>4, <2>1, <2>2, <2>3, <2>4, ChangedNode
  <2> SUFFICES ASSUME NEW c \in Comp PROVE CompInv(c)'
    BY <1>2, <1>5 DEF QueueInv
  <2>6. CASE c # t.comp
    BY <1>1, <1>2, <2>5, <2>6, Undisturbed DEF Affects
  <2>7. ASSUME c = t.comp
        PROVE  node(c)' = Effect(t, node(c)) /\ Done(c, t) /\ Kept(c) /\ written'[c] = written[c]
    BY <1>2, <2>1, <2>5, <2>7 DEF Affects, Done
  <2>8. CASE c = t.comp
    <3>1. CASE t.op = "WRITE_DATASET"
      <4>1. written[c] /\ written'[c]
        BY <2>2, <2>7, <2>8, <3>1 DEF Data
      <4> QED
        BY <1>1, <2>2, <2>3, <2>7, <2>8, <3>1, <4>1, ChunkWritten
    <3>2. CASE t.op = "DELETE_PATH"
      <4>1. written'[c] /\ access # "READ_ONLY" /\ t \in TasksOf(c)'
        BY <1>2, <2>2, <2>3, <2>7, <2>8, <3>2 DEF TaskFact, Ahead, Writers, Readers, Operation
      <4>2. node(c)' = NoNode
        BY <2>7, <2>8, <3>2 DEF Effect
      <4> QED
        BY <1>1, <1>3, <2>2, <2>3, <2>7, <2>8, <3>2, <4>1, <4>2, ComponentDeleted
    <3>3. CASE t.op = "DELETE_ATT"
      <4>1. written[c]
        BY <2>1, <2>8, <3>3 DEF Skipped
      <4> QED
        BY <1>1, <1>3, <2>2, <2>3, <2>7, <2>8, <3>3, <4>1, AttributeDeleted
    <3> QED
      BY <2>1, <3>1, <3>2, <3>3
  <2> QED
    BY <2>6, <2>8
<1> QED
  BY <1>6, <1>7

-----------------------------------------------------------------------------
(* The user changes the object model.                                      *)

\* Steps at rest that change one component only.
Others(c) ==
  \A d \in Comp \ {c} :
    /\ rc'[d] = rc[d] /\ stored'[d] = stored[d]
    /\ d \in components' <=> d \in components
    /\ d \in doomed' <=> d \in doomed
AtRest(c) ==
  /\ phase = "idle" /\ UNCHANGED <<backendVars, phase, call, todo>>
  /\ changes <= changes' /\ Others(c)

LEMMA RestFacts ==
  ASSUME TypeOK, CallInv, QueueInv, NEW c \in Comp, AtRest(c)
  PROVE  /\ TasksOf(c)' = TasksOf(c) /\ node(c)' = node(c) /\ written' = written
         /\ ~Erasing(c) /\ ~Deleting(c) /\ ~Erasing(c)' /\ ~Deleting(c)'
         /\ UNCHANGED <<fixed, isOpen, m_work>> /\ call.op # "construct" /\ CompInv(c)
         /\ changes \in Nat /\ stored[c] \in [Cell -> Version] /\ rc[c] \in RecordComponent
         /\ doomed \subseteq components
<1>1. UNCHANGED <<fixed, isOpen, m_work, written, m_jsonVals, disk, call>> /\ phase = "idle"
  BY DEF AtRest, backendVars, flags, file
<1>2. TasksOf(c)' = TasksOf(c)
  BY <1>1 DEF TasksOf, Tasks
<1>3. node(c)' = node(c)
  BY <1>1, SameContents
<1>4. call.op \notin {"erase", "deleteAttribute", "construct"} /\ CompInv(c)
  BY <1>1 DEF CallInv, QueueInv, FileTaskInv
<1>5. changes \in Nat
  BY Numbers
<1> QED
  BY <1>1, <1>2, <1>3, <1>4, <1>5 DEF Erasing, Deleting, TypeOK

LEMMA RestKeeps ==
  ASSUME TypeOK, TypeOK', CallInv, QueueInv, NEW c \in Comp, AtRest(c), CompInv(c)',
         c \in components' =>
           Ordered(rc'[c].chunks) /\ AllInOrder(Tasks(m_work), Tasks(rc'[c].chunks))
  PROVE  QueueInv'
<1>1. UNCHANGED <<fixed, isOpen, m_work, flags, file, phase, call, todo>> /\ phase = "idle"
  BY DEF AtRest, backendVars
<1>2. /\ ReadyInv' /\ Tasks(m_work)' = Tasks(m_work)
      /\ \A d \in Comp : TasksOf(d)' = TasksOf(d)
  BY <1>1, QueueStays
<1>3. contents' = contents /\ Legible' = Legible /\ \A d \in Comp : node(d)' = node(d)
  BY <1>1, SameContents DEF file
<1>4. FileInv'
  <2>1. FileInv /\ (Pending => Pending')
    BY <1>1, SeqTypes, PendingStays DEF QueueInv
  <2> QED
    BY <1>1, <1>3, <2>1 DEF FileInv, fixed, flags, file
<1>5. FileTaskInv' /\ PhaseInv'
  <2>1. parseTasks' = parseTasks
    BY <1>1 DEF parseTasks, fixed
  <2> QED
    BY <1>1, <1>2, <2>1 DEF QueueInv, FileTaskInv, PhaseInv, Visits, fixed
<1>6. OrderInv'
  <2>1. OrderInv /\ components' \subseteq Comp
    BY <1>1 DEF QueueInv, TypeOK
  <2>2. Ordered(m_work)'
    BY <1>1, <2>1 DEF OrderInv, Ordered
  <2>3. ASSUME NEW d \in components'
        PROVE  Ordered(rc'[d].chunks) /\ AllInOrder(Tasks(m_work), Tasks(rc'[d].chunks))
    BY <2>1, <2>3 DEF OrderInv, AtRest, Others
  <2>4. ASSUME NEW d \in components'
        PROVE  Ordered(rc[d].chunks)' /\ AllInOrder(Tasks(m_work), Tasks(rc[d].chunks))'
    BY <1>2, <2>3, <2>4 DEF Ordered, AllInOrder, Tasks
  <2> QED
    BY <2>2, <2>4 DEF OrderInv
<1>7. ASSUME NEW d \in Comp, d # c PROVE CompInv(d)'
  <2>1. Kept(d)
    BY <1>1, <1>7 DEF Kept, AtRest, Others, Lost, Erasing, Deleting
  <2> QED
    BY <1>1, <1>2, <1>3, <1>7, <2>1, Undisturbed DEF QueueInv, flags
<1> QED
  BY <1>2, <1>4, <1>5, <1>6, <1>7 DEF QueueInv

\* Nothing is queued for a component and nothing of it is in the file.
LEMMA FreshComponent ==
  ASSUME TypeOK, CallInv, QueueInv, NEW c \in Comp, AtRest(c), TasksOf(c) = {}, ~written[c],
         c \in components' =>
           /\ rc'[c].chunks = <<>> /\ access # "READ_ONLY" /\ (rc'[c].dirty \/ c \in doomed')
           /\ rc'[c].att <= changes' + 1
           /\ \A k \in Cell : \/ stored'[c][k] = 0
                              \/ c \in components /\ stored'[c][k] = stored[c][k]
                                 /\ rc[c].chunks = <<>> /\ (c \in doomed => c \in doomed'),
         \A k \in Cell : stored'[c][k] \in {0, stored[c][k]},
         TypeOK'
  PROVE  CompInv(c)' /\ (c \in components' =>
           Ordered(rc'[c].chunks) /\ AllInOrder(Tasks(m_work), Tasks(rc'[c].chunks)))
<1>1. /\ TasksOf(c)' = {} /\ node(c)' = node(c) /\ written' = written
      /\ ~Erasing(c) /\ ~Erasing(c)' /\ ~Deleting(c)' /\ access' = access /\ CompInv(c)
      /\ changes \in Nat /\ backend' = backend
  BY RestFacts DEF fixed
<1>2. node(c) = NoNode
  BY <1>1 DEF CompInv, NodeInv
<1>3. c \in components' => Tasks(rc'[c].chunks) = {} /\ Ordered(rc'[c].chunks)
  BY SmallQueues
<1>4. c \in components' => Tasks(rc[c].chunks)' = {}
  BY <1>3 DEF Tasks
<1>5. TasksInv(c)'
  BY <1>1, <1>4 DEF TasksInv
<1>6. NodeInv(c)'
  BY <1>1, <1>2 DEF NodeInv, CompInv
<1>7. \A k \in Cell : /\ node(c)'.cells[k] = 0 /\ node(c).cells[k] = 0
                      /\ stored[c][k] \in Nat /\ stored[c][k] <= changes + 1
                      /\ changes <= changes' /\ changes' \in Nat
  BY <1>1, <1>2, NoNodeFields, Numbers DEF CompInv, CellInv, AtRest, TypeOK
<1>8. CellInv(c)'
  <2> SUFFICES ASSUME NEW k \in Cell
               PROVE  (/\ stored[c][k] <= changes + 1
                       /\ c \in components => node(c).cells[k] <= stored[c][k]
                       /\ c \in components /\ ~Lost(c) =>
                            \/ node(c).cells[k] = stored[c][k]
                            \/ \E u \in Outstanding(c) : Stores(u, k, stored[c][k]))'
    BY DEF CellInv
  <2>1. stored'[c][k] <= changes' + 1 /\ 0 <= stored'[c][k]
    <3>1. stored'[c][k] = 0 \/ stored'[c][k] = stored[c][k]
      OBVIOUS
    <3>2. stored[c][k] \in Nat /\ stored[c][k] <= changes + 1 /\ changes <= changes'
          /\ changes \in Nat /\ changes' \in Nat
      BY <1>1, <1>7
    <3> QED
      BY <3>1, <3>2
  <2>2. ASSUME c \in components', ~Lost(c)' PROVE stored'[c][k] = 0
    <3> SUFFICES ASSUME c \in components, stored'[c][k] = stored[c][k], rc[c].chunks = <<>>,
                        c \in doomed => c \in doomed'
                 PROVE  stored[c][k] = 0
      BY <2>2
    <3>1. ~Lost(c)
      BY <1>1, <2>2 DEF Lost
    <3>2. Outstanding(c) = {}
      BY SmallQueues DEF Outstanding
    <3> QED
      BY <1>1, <1>7, <3>1, <3>2 DEF CompInv, CellInv
  <2> QED
    BY <1>7, <2>1, <2>2
<1>9. AttInv(c)'
  <2>1. node(c)'.att = 0
    BY <1>1, <1>2, NoNodeFields
  <2>2. c \in components' => rc'[c].att \in Nat /\ changes' \in Nat
    BY <1>7, Numbers DEF TypeOK, RecordComponent, Version
  <2> QED
    BY <1>1, <2>1, <2>2 DEF AttInv, Lost
<1>10. DeletionInv(c)'
  BY <1>1 DEF DeletionInv
<1>11. CleanInv(c)'
  BY <1>1 DEF CleanInv, Lost
<1> QED
  BY <1>3, <1>5, <1>6, <1>8, <1>9, <1>10, <1>11 DEF CompInv, AllInOrder

\* A component that is new, declared or erased before it was written.
LEMMA DeclarationKeeps ==
  ASSUME TypeOK, TypeOK', CallInv, QueueInv, NEW c \in Comp,
         \/ Component(c) \/ makeConstant(c) \/ EraseUnwritten(c)
         \/ \E e \in 0 .. MaxExtent : resetDataset(c, e)
  PROVE  QueueInv'
<1>1. /\ phase = "idle" /\ UNCHANGED <<backendVars, phase, call, todo>>
      /\ changes \in Nat /\ (changes' = changes \/ changes' = changes + 1)
      /\ rc \in [Comp -> RecordComponent] /\ stored \in [Comp -> [Cell -> Version]]
      /\ rc[c].att \in Nat /\ doomed \subseteq components
  BY Numbers DEF Component, makeConstant, EraseUnwritten, resetDataset, Idle, Change, TypeOK
<1>2. /\ TasksOf(c) = {} /\ ~written[c] /\ CompInv(c)
  <2>1. CompInv(c)
    BY <1>1 DEF QueueInv
  <2>2. CASE Component(c)
    BY <2>1, <2>2 DEF Component, CompInv, NodeInv, TasksInv
  <2>3. CASE makeConstant(c) \/ EraseUnwritten(c) \/ \E e \in 0 .. MaxExtent : resetDataset(c, e)
    <3>1. ~QueuedFor(c) /\ ~written[c]
      BY <2>3 DEF makeConstant, EraseUnwritten, resetDataset, Undeclared, Settled
    <3> QED
      BY <2>1, <3>1 DEF QueuedFor, TasksOf, Tasks
  <2> QED
    BY <2>1, <2>2, <2>3
<1>3. /\ \A d \in Comp \ {c} : /\ rc'[d] = rc[d] /\ stored'[d] = stored[d]
                               /\ d \in components' <=> d \in components
                               /\ d \in doomed' <=> d \in doomed
      /\ \A k \in Cell : stored'[c][k] \in {0, stored[c][k]}
  <2>1. CASE Component(c)
    <3>1. \A k \in Cell : stored'[c][k] = 0
      BY <1>1, <2>1 DEF Component, Nothing
    <3> QED
      BY <1>1, <2>1, <3>1 DEF Component
  <2>2. CASE makeConstant(c)
    BY <1>1, <2>2 DEF makeConstant
  <2>3. CASE EraseUnwritten(c)
    BY <1>1, <2>3 DEF EraseUnwritten
  <2>4. CASE \E e \in 0 .. MaxExtent : resetDataset(c, e)
    BY <1>1, <2>4 DEF resetDataset
  <2> QED
    BY <2>1, <2>2, <2>3, <2>4
<1>4. AtRest(c)
  BY <1>1, <1>3 DEF AtRest, Others
<1>5. c \in components' =>
        /\ rc'[c].chunks = <<>> /\ access # "READ_ONLY" /\ (rc'[c].dirty \/ c \in doomed')
        /\ rc'[c].att <= changes' + 1
        /\ \A k \in Cell : \/ stored'[c][k] = 0
                           \/ c \in components /\ stored'[c][k] = stored[c][k]
                              /\ rc[c].chunks = <<>> /\ (c \in doomed => c \in doomed')
  <2>1. CASE Component(c)
    <3>1. \A k \in Cell : stored'[c][k] = 0
      BY <1>1, <2>1 DEF Component, Nothing
    <3>2. rc'[c] = NewComponent
      BY <1>1, <2>1 DEF Component
    <3>3. rc'[c].chunks = <<>> /\ rc'[c].dirty /\ rc'[c].att = 0
      BY <3>2 DEF NewComponent
    <3>4. access # "READ_ONLY" /\ 0 <= changes' + 1
      BY <1>1, <2>1 DEF Component
    <3> QED
      BY <3>1, <3>3, <3>4
  <2>2. CASE EraseUnwritten(c)
    BY <2>2 DEF EraseUnwritten
  <2>3. ASSUME \/ makeConstant(c) \/ \E e \in 0 .. MaxExtent : resetDataset(c, e)
        PROVE  /\ rc'[c].chunks = rc[c].chunks /\ rc'[c].att = rc[c].att
               /\ rc[c].dirty => rc'[c].dirty
               /\ UNCHANGED <<stored, components, doomed>> /\ Undeclared(c)
    <3>1. CASE makeConstant(c)
      <4>1. rc' = [rc EXCEPT ![c].constant = TRUE, ![c].value = newest]
        BY <3>1 DEF makeConstant
      <4>2. rc'[c].chunks = rc[c].chunks /\ rc'[c].att = rc[c].att /\ rc'[c].dirty = rc[c].dirty
        BY <1>1, <4>1 DEF RecordComponent
      <4> QED
        BY <3>1, <4>2 DEF makeConstant
    <3>2. ASSUME NEW e \in 0 .. MaxExtent, resetDataset(c, e)
          PROVE  /\ rc'[c].chunks = rc[c].chunks /\ rc'[c].att = rc[c].att /\ rc'[c].dirty
                 /\ UNCHANGED <<stored, components, doomed>> /\ Undeclared(c)
      <4>1. rc'[c] = IF e = 0
                     THEN [rc[c] EXCEPT !.box = {}, !.empty = TRUE, !.constant = TRUE,
                                        !.value = 1, !.dirty = TRUE]
                     ELSE [rc[c] EXCEPT !.box = 1 .. e, !.dirty = TRUE]
        BY <1>1, <3>2 DEF resetDataset
      <4>2. rc'[c].chunks = rc[c].chunks /\ rc'[c].att = rc[c].att /\ rc'[c].dirty
        BY <1>1, <4>1 DEF RecordComponent
      <4> QED
        BY <3>2, <4>2 DEF resetDataset
    <3> QED
      BY <2>3, <3>1, <3>2
  <2>4. CASE \/ makeConstant(c) \/ \E e \in 0 .. MaxExtent : resetDataset(c, e)
    <3>1. /\ c \in components \ doomed /\ access # "READ_ONLY" /\ rc[c].chunks = <<>>
      BY <2>3, <2>4 DEF Undeclared, Writable
    <3>2. rc[c].att <= changes + 1 /\ rc[c].dirty
      <4>1. ~Lost(c)
        BY <1>1, <3>1 DEF Lost, Erasing, CallInv
      <4>2. rc[c].dirty
        BY <1>2, <3>1, <4>1 DEF CompInv, CleanInv, Queued
      <4> QED
        BY <1>2, <3>1, <4>2 DEF CompInv, AttInv
    <3> QED
      BY <1>1, <2>3, <2>4, <3>1, <3>2
  <2> QED
    BY <2>1, <2>2, <2>4
<1>6. CompInv(c)' /\ (c \in components' =>
        Ordered(rc'[c].chunks) /\ AllInOrder(Tasks(m_work), Tasks(rc'[c].chunks)))
  BY <1>2, <1>3, <1>4, <1>5, FreshComponent
<1> QED
  BY <1>4, <1>6, RestKeeps

\* A component in use, to which no deletion refers.
LEMMA UsedComponent ==
  ASSUME TypeOK, CallInv, QueueInv, NEW c \in Comp, AtRest(c), c \in components \ doomed
  PROVE  /\ \A u \in TasksOf(c) : u.op \notin Deletions
         /\ ~Lost(c) /\ ~Deleting(c) /\ CompInv(c)
         /\ \A u \in Outstanding(c) : u.comp = c /\ u \in IOTask /\ ChunkFact(c, u)
<1>1. CompInv(c) /\ ~Lost(c) /\ ~Deleting(c)
  BY RestFacts DEF Lost
<1>2. \A u \in TasksOf(c) : u.op \notin Deletions /\ u.comp = c /\ ChunkFact(c, u)
  BY <1>1 DEF CompInv, TasksInv, TaskFact, Deletions, TasksOf
<1>3. \A u \in Tasks(rc[c].chunks) : u.comp = c /\ ChunkFact(c, u)
  BY <1>1 DEF CompInv, TasksInv
<1>4. \A u \in Outstanding(c) : u \in IOTask
  BY Numbers
<1> QED
  BY <1>1, <1>2, <1>3, <1>4 DEF Outstanding

LEMMA SetAttributeKeeps ==
  ASSUME TypeOK, TypeOK', CallInv, QueueInv, NEW c \in Comp, setAttribute(c)
  PROVE  QueueInv'
<1>1. /\ phase = "idle" /\ UNCHANGED <<backendVars, phase, call, todo>>
      /\ changes \in Nat /\ changes' = changes + 1 /\ UNCHANGED <<components, stored, doomed>>
      /\ c \in components \ doomed /\ access # "READ_ONLY"
      /\ rc' = [rc EXCEPT ![c].att = newest, ![c].dirty = TRUE]
      /\ rc \in [Comp -> RecordComponent]
  BY Numbers DEF setAttribute, Idle, Change, Writable, TypeOK
<1>2. /\ rc'[c].chunks = rc[c].chunks /\ rc'[c].constant = rc[c].constant
      /\ rc'[c].box = rc[c].box /\ rc'[c].value = rc[c].value
      /\ rc'[c].att = changes + 2 /\ rc'[c].dirty
      /\ \A d \in Comp \ {c} : rc'[d] = rc[d]
  BY <1>1 DEF RecordComponent, newest
<1>3. AtRest(c)
  BY <1>1, <1>2 DEF AtRest, Others
<1>4. /\ TasksOf(c)' = TasksOf(c) /\ node(c)' = node(c) /\ written' = written
      /\ ~Erasing(c)' /\ ~Deleting(c)' /\ UNCHANGED <<fixed, isOpen, m_work>> /\ CompInv(c)
  BY <1>3, RestFacts
<1>5. /\ \A u \in TasksOf(c) : u.op \notin Deletions
      /\ ~Lost(c) /\ ~Deleting(c)
  BY <1>1, <1>3, UsedComponent
<1>6. Tasks(rc[c].chunks)' = Tasks(rc[c].chunks) /\ Outstanding(c)' = Outstanding(c)
  BY <1>2, <1>4 DEF Tasks, Outstanding
<1>7. rc[c].att <= changes + 1 /\ node(c).att <= changes + 1 /\ rc[c].att \in Nat /\ node(c).att \in Nat
  BY <1>1, <1>4, Numbers DEF CompInv, AttInv
<1>8. \A u : ChunkFact(c, u) => ChunkFact(c, u)'
  BY <1>1, <1>2, <1>4, <1>6 DEF ChunkFact, StoreFact, LoadFact, fixed, Stores
<1>9. TasksInv(c)'
  <2>1. ASSUME NEW u \in TasksOf(c) PROVE TaskFact(c, u)'
    <3>1. TaskFact(c, u) /\ u.op \notin Deletions
      BY <1>4, <1>5 DEF CompInv, TasksInv
    <3>2. u.op = "WRITE_ATT" => u.ver <= rc'[c].att
      <4>1. u.ver \in Nat
        BY Numbers DEF Outstanding
      <4> QED
        BY <1>1, <1>2, <1>7, <3>1, <4>1 DEF TaskFact
    <3> QED
      BY <1>1, <1>2, <1>4, <3>1, <3>2 DEF TaskFact, Deletions
  <2> QED
    BY <1>1, <1>4, <1>6, <1>8, <2>1 DEF TasksInv, CompInv
<1>10. NodeInv(c)'
  BY <1>1, <1>2, <1>4 DEF NodeInv, Declared, CompInv, Queued, fixed
<1>11. CellInv(c)'
  <2>1. \A k \in Cell : stored[c][k] \in Nat
    BY Numbers
  <2> QED
    BY <1>1, <1>4, <1>5, <1>6, <2>1 DEF CellInv, CompInv, Stores
<1>12. AttInv(c)'
  BY <1>1, <1>2, <1>4, <1>7 DEF AttInv
<1>13. DeletionInv(c)' /\ CleanInv(c)'
  BY <1>1, <1>2, <1>4 DEF DeletionInv, CleanInv, fixed
<1>14. Ordered(rc'[c].chunks) /\ AllInOrder(Tasks(m_work), Tasks(rc'[c].chunks))
  BY <1>1, <1>2 DEF QueueInv, OrderInv
<1> QED
  BY <1>3, <1>9, <1>10, <1>11, <1>12, <1>13, <1>14, RestKeeps DEF CompInv

\* What storeChunk and loadChunk give to the newest versions and to the task.
StoredBy(c, w) ==
  \A k \in Cell : stored'[c][k] = IF w.op = "WRITE_DATASET" /\ k \in w.box
                                  THEN w.ver ELSE stored[c][k]
WantedBy(c, w) ==
  /\ w.op = "WRITE_DATASET" => w.ver = changes + 2 /\ access # "READ_ONLY"
  /\ w.op = "READ_DATASET" =>
       \A k \in Cell : /\ k \notin w.box => w.want[k] = 0
                       /\ k \in w.box => w.want[k] = stored[c][k] /\ 0 < w.want[k]

\* A chunk is stored or asked for.
LEMMA ChunkAdded ==
  ASSUME TypeOK, TypeOK', CallInv, QueueInv, NEW c \in Comp, AtRest(c),
         changes' = changes + 1, c \in components \ doomed, c \in components', c \notin doomed',
         NEW w \in IOTask, w.comp = c, w.op \in Data, w.box # {}, w.box \subseteq rc[c].box,
         ~rc[c].constant, rc' = [rc EXCEPT ![c].chunks = Append(@, w)],
         StoredBy(c, w), WantedBy(c, w)
  PROVE  QueueInv'
<1>0. /\ \A k \in Cell : stored'[c][k] = IF w.op = "WRITE_DATASET" /\ k \in w.box
                                          THEN w.ver ELSE stored[c][k]
      /\ w.op = "WRITE_DATASET" => w.ver = changes + 2 /\ access # "READ_ONLY"
      /\ w.op = "READ_DATASET" =>
           \A k \in Cell : /\ k \notin w.box => w.want[k] = 0
                           /\ k \in w.box => w.want[k] = stored[c][k] /\ 0 < w.want[k]
  BY DEF StoredBy, WantedBy
<1>1. rc \in [Comp -> RecordComponent] /\ changes \in Nat /\ rc[c].chunks \in Seq(IOTask)
  BY Numbers, ComponentFields DEF TypeOK
<1>2. /\ rc'[c].chunks = Append(rc[c].chunks, w) /\ rc'[c].constant = rc[c].constant
      /\ rc'[c].box = rc[c].box /\ rc'[c].value = rc[c].value
      /\ rc'[c].att = rc[c].att /\ rc'[c].dirty = rc[c].dirty
  BY <1>1 DEF RecordComponent
<1>3. /\ TasksOf(c)' = TasksOf(c) /\ node(c)' = node(c) /\ written' = written
      /\ ~Erasing(c)' /\ ~Deleting(c)' /\ UNCHANGED <<fixed, isOpen, m_work>> /\ CompInv(c)
  BY RestFacts
<1>4. /\ \A u \in TasksOf(c) : u.op \notin Deletions
      /\ ~Lost(c) /\ ~Deleting(c)
      /\ \A u \in Outstanding(c) : u.comp = c /\ u \in IOTask /\ ChunkFact(c, u)
  BY UsedComponent
<1>5. Tasks(rc'[c].chunks) = Tasks(rc[c].chunks) \cup {w}
      /\ (Ordered(rc[c].chunks) /\ AllInOrder(Tasks(rc[c].chunks), {w}) => Ordered(rc'[c].chunks))
  <2>1. PICK q : q = rc[c].chunks
    OBVIOUS
  <2>2. q \in Seq(IOTask) /\ rc'[c].chunks = Append(q, w)
    BY <1>1, <1>2, <2>1
  <2>3. /\ Tasks(Append(q, w)) = Tasks(q) \cup {w}
        /\ Ordered(q) /\ AllInOrder(Tasks(q), {w}) => Ordered(Append(q, w))
    BY <2>2, AppendTasks
  <2> QED
    BY <2>1, <2>2, <2>3
<1>6. /\ Tasks(rc[c].chunks)' = Tasks(rc[c].chunks) \cup {w}
      /\ Outstanding(c)' = Outstanding(c) \cup {w}
  BY <1>3, <1>5 DEF Tasks, Outstanding
<1>7. \A k \in Cell : /\ node(c).cells[k] \in Nat /\ stored[c][k] \in Nat
                      /\ stored[c][k] <= changes + 1 /\ node(c).cells[k] <= stored[c][k]
                      /\ \/ node(c).cells[k] = stored[c][k]
                         \/ \E u \in Outstanding(c) : Stores(u, k, stored[c][k])
  BY <1>3, <1>4, Numbers DEF CompInv, CellInv
<1>8. \A k \in Cell : stored[c][k] <= stored'[c][k] /\ stored'[c][k] <= changes' + 1
  BY <1>0, <1>1, <1>7
<1>9. w.box \subseteq Cell /\ w.ver \in Nat
  BY TaskFields, BoundAssumption DEF Version
<1>10. ASSUME NEW u \in Outstanding(c) PROVE ChunkFact(c, u)'
  <2>1. ChunkFact(c, u) /\ u.box \subseteq Cell /\ u.ver \in Nat /\ \A k \in Cell : u.want[k] \in Nat
    BY <1>4, Numbers, TaskFields
  <2>2. u.op = "WRITE_DATASET" => StoreFact(c, u)'
    <3> SUFFICES ASSUME u.op = "WRITE_DATASET", NEW k \in u.box
                 PROVE  access # "READ_ONLY" /\ node(c).cells[k] <= u.ver /\ u.ver <= stored'[c][k]
      BY <1>3, <2>1 DEF StoreFact, ChunkFact, fixed
    <3>1. StoreFact(c, u)
      BY <2>1 DEF ChunkFact
    <3>2. access # "READ_ONLY" /\ node(c).cells[k] <= u.ver /\ u.ver <= stored[c][k] /\ k \in Cell
      BY <2>1, <3>1 DEF StoreFact
    <3>3. stored'[c][k] \in Nat
      BY <1>0, <1>7, <1>9, <3>2
    <3> QED
      BY <1>7, <1>8, <2>1, <3>2, <3>3
  <2>3. u.op = "READ_DATASET" => LoadFact(c, u)'
    <3> SUFFICES ASSUME u.op = "READ_DATASET", LoadFact(c, u), NEW k \in Cell
                 PROVE  (/\ k \notin u.box => u.want[k] = 0
                         /\ k \in u.box =>
                              /\ 0 < u.want[k] /\ u.want[k] <= stored[c][k]
                              /\ node(c).cells[k] <= u.want[k]
                              /\ \/ node(c).cells[k] = u.want[k]
                                 \/ \E v \in Outstanding(c) : Stores(v, k, u.want[k]))'
      BY <2>1 DEF LoadFact, ChunkFact
    <3>1. k \in u.box => u.want[k] <= stored'[c][k]
      <4>1. stored'[c][k] \in Nat /\ stored[c][k] <= stored'[c][k]
        BY <1>0, <1>7, <1>8, <1>9
      <4> QED
        BY <1>7, <2>1, <4>1 DEF LoadFact
    <3> QED
      BY <1>3, <1>6, <3>1 DEF LoadFact, Stores
  <2> QED
    BY <1>2, <2>1, <2>2, <2>3 DEF ChunkFact
<1>11. ChunkFact(c, w)'
  <2>1. w.op = "WRITE_DATASET" => StoreFact(c, w)'
    <3> SUFFICES ASSUME w.op = "WRITE_DATASET", NEW k \in w.box
                 PROVE  access # "READ_ONLY" /\ node(c).cells[k] <= w.ver /\ w.ver <= stored'[c][k]
      BY <1>3 DEF StoreFact, fixed
    <3> QED
      BY <1>0, <1>1, <1>7, <1>9
  <2>2. w.op = "READ_DATASET" => LoadFact(c, w)'
    BY <1>0, <1>3, <1>6, <1>7 DEF LoadFact, Stores
  <2> QED
    BY <1>2, <2>1, <2>2 DEF ChunkFact
<1>12. TasksInv(c)'
  <2>1. ASSUME NEW u \in TasksOf(c) PROVE TaskFact(c, u)'
    <3>1. TaskFact(c, u) /\ u.op \notin Deletions
      BY <1>3, <1>4 DEF CompInv, TasksInv
    <3> QED
      BY <1>2, <1>3, <3>1 DEF TaskFact, Deletions
  <2>2. \A u \in TasksOf(c) : ChunkFact(c, u)'
    BY <1>10 DEF Outstanding
  <2>3. \A u \in Tasks(rc[c].chunks)' : (u.op \in Data /\ u.comp = c /\ ChunkFact(c, u))'
    <3>1. \A u \in Tasks(rc[c].chunks) : u.op \in Data /\ u.comp = c /\ u \in Outstanding(c)
      BY <1>3 DEF CompInv, TasksInv, Outstanding
    <3> QED
      BY <1>6, <1>10, <1>11, <3>1
  <2> QED
    BY <1>3, <2>1, <2>2, <2>3 DEF TasksInv
<1>13. NodeInv(c)'
  BY <1>2, <1>3 DEF NodeInv, Declared, CompInv, Queued, fixed
<1>14. CellInv(c)'
  <2> SUFFICES ASSUME NEW k \in Cell
               PROVE  (/\ stored[c][k] <= changes + 1
                       /\ c \in components => node(c).cells[k] <= stored[c][k]
                       /\ c \in components /\ ~Lost(c) =>
                            \/ node(c).cells[k] = stored[c][k]
                            \/ \E u \in Outstanding(c) : Stores(u, k, stored[c][k]))'
    BY DEF CellInv
  <2>1. CASE w.op = "WRITE_DATASET" /\ k \in w.box
    <3>1. stored'[c][k] = w.ver /\ Stores(w, k, w.ver) /\ w \in Outstanding(c)'
      BY <1>0, <1>6, <2>1 DEF Stores
    <3>2. node(c)'.cells[k] <= w.ver /\ w.ver <= changes' + 1
      BY <1>0, <1>1, <1>3, <1>7, <2>1
    <3> QED
      BY <3>1, <3>2 DEF Stores
  <2>2. CASE ~(w.op = "WRITE_DATASET" /\ k \in w.box)
    <3>1. stored'[c][k] = stored[c][k]
      BY <1>0, <2>2
    <3> QED
      BY <1>1, <1>3, <1>6, <1>7, <3>1 DEF Stores
  <2> QED
    BY <2>1, <2>2
<1>15. AttInv(c)'
  <2>1. rc[c].att \in Nat /\ node(c).att \in Nat
    BY Numbers
  <2> QED
    BY <1>1, <1>2, <1>3, <1>4, <2>1 DEF AttInv, CompInv, fixed
<1>16. DeletionInv(c)' /\ CleanInv(c)'
  BY <1>2, <1>3, <1>4 DEF DeletionInv, CleanInv, CompInv, fixed, Queued
<1>17. \A u \in Outstanding(c) : u.op \notin {"DELETE_PATH"} /\ InOrder(u, w)
  <2> TAKE u \in Outstanding(c)
  <2>1. u.op # "DELETE_PATH"
    BY <1>3, <1>4 DEF Outstanding, CompInv, TasksInv, Data, Deletions
  <2>2. ChunkFact(c, u) /\ u.box \subseteq Cell /\ u.ver \in Nat /\ \A k \in Cell : u.want[k] \in Nat
    BY <1>4, Numbers, TaskFields
  <2>3. u.op = "WRITE_DATASET" => \A k \in u.box : u.ver <= stored[c][k]
    BY <2>2 DEF ChunkFact, StoreFact
  <2>4. u.op = "READ_DATASET" => \A k \in u.box : u.want[k] <= stored[c][k]
    BY <2>2 DEF ChunkFact, LoadFact
  <2>5. w.op = "WRITE_DATASET" => \A k \in Cell : stored[c][k] < w.ver
    BY <1>0, <1>1, <1>7
  <2>6. ASSUME u.op = "WRITE_DATASET", w.op = "WRITE_DATASET", NEW k \in u.box \cap w.box
        PROVE  u.ver <= w.ver
    BY <1>0, <1>7, <1>9, <2>2, <2>3, <2>5, <2>6
  <2>7. ASSUME u.op = "WRITE_DATASET", w.op = "READ_DATASET", NEW k \in u.box \cap w.box
        PROVE  u.ver <= w.want[k]
    BY <1>0, <1>9, <2>3, <2>7
  <2>8. ASSUME u.op = "READ_DATASET", w.op = "WRITE_DATASET", NEW k \in u.box \cap w.box
        PROVE  u.want[k] < w.ver
    BY <1>0, <1>7, <1>9, <2>2, <2>4, <2>5, <2>8
  <2> QED
    BY <2>1, <2>6, <2>7, <2>8 DEF InOrder, Data, Deletions
<1>18. Ordered(rc'[c].chunks) /\ AllInOrder(Tasks(m_work), Tasks(rc'[c].chunks))
  <2>1. Ordered(rc[c].chunks) /\ AllInOrder(Tasks(m_work), Tasks(rc[c].chunks))
    BY DEF AtRest, QueueInv, OrderInv
  <2>2. AllInOrder(Tasks(rc[c].chunks), {w})
    BY <1>17 DEF AllInOrder, Outstanding
  <2>3. AllInOrder(Tasks(m_work), {w})
    BY <1>17 DEF AllInOrder, Outstanding, TasksOf, InOrder
  <2> QED
    BY <1>5, <2>1, <2>2, <2>3 DEF AllInOrder
<1> QED
  BY <1>12, <1>13, <1>14, <1>15, <1>16, <1>18, RestKeeps DEF CompInv

LEMMA ChunkKeeps ==
  ASSUME TypeOK, TypeOK', CallInv, QueueInv, NEW c \in Comp, NEW b \in SUBSET Cell,
         storeChunk(c, b) \/ loadChunk(c, b)
  PROVE  QueueInv'
<1>1. /\ phase = "idle" /\ UNCHANGED <<backendVars, phase, call, todo, components, doomed>>
      /\ changes \in Nat /\ changes' = changes + 1 /\ changes < MaxChanges
      /\ c \in components \ doomed /\ ~rc[c].constant /\ b # {} /\ b \subseteq rc[c].box
      /\ changes \in 0 .. MaxChanges
      /\ rc \in [Comp -> RecordComponent] /\ stored \in [Comp -> [Cell -> Version]]
  BY Numbers DEF storeChunk, loadChunk, Idle, Change, Writable, TypeOK
<1>2. CASE storeChunk(c, b)
  <2> PICK w : w = Task("WRITE_DATASET", c, b, changes + 2)
    OBVIOUS
  <2>1. w.comp = c /\ w.op = "WRITE_DATASET" /\ w.box = b /\ w.ver = changes + 2
    BY DEF Task
  <2>2. w \in IOTask
    <3>1. changes + 2 \in Version /\ c # None
      BY <1>1, VersionTypes, CompAssumption
    <3> QED
      BY <3>1, TaskType DEF Operation, FileTasks
  <2>3. rc' = [rc EXCEPT ![c].chunks = Append(@, w)] /\ access # "READ_ONLY"
    BY <1>2 DEF storeChunk, newest, Writable
  <2>4. \A k \in Cell : stored'[c][k] = IF k \in b THEN changes + 2 ELSE stored[c][k]
    BY <1>1, <1>2 DEF storeChunk, newest
  <2>5. \A d \in Comp \ {c} : stored'[d] = stored[d]
    BY <1>1, <1>2 DEF storeChunk
  <2>7. StoredBy(c, w)
    BY <2>1, <2>4 DEF StoredBy
  <2>8. WantedBy(c, w)
    BY <2>1, <2>3 DEF WantedBy
  <2>9. /\ w.op \in Data /\ w.box # {} /\ w.box \subseteq rc[c].box
        /\ c \in components' /\ c \notin doomed'
    BY <1>1, <2>1 DEF Data
  <2>6. AtRest(c)
    BY <1>1, <2>3, <2>5 DEF AtRest, Others
  <2> QED
    BY <1>1, <2>1, <2>2, <2>3, <2>6, <2>7, <2>8, <2>9, ChunkAdded
<1>3. CASE loadChunk(c, b)
  <2> DEFINE x == [k \in Cell |-> IF k \in b THEN stored[c][k] ELSE 0]
             w == [Task("READ_DATASET", c, b, 0) EXCEPT !.want = x]
  <2>1. w.comp = c /\ w.op = "READ_DATASET" /\ w.box = b /\ w.want = x
    BY DEF Task
  <2>2. w \in IOTask
    <3>1. x \in [Cell -> Version] /\ 0 \in Version
      BY <1>1, VersionTypes
    <3>2. Task("READ_DATASET", c, b, 0) \in IOTask
      BY <3>1, TaskType, CompAssumption DEF Operation, FileTasks
    <3> HIDE DEF x
    <3> QED
      BY <3>1, <3>2 DEF IOTask
  <2>3. rc' = [rc EXCEPT ![c].chunks = Append(@, w)] /\ stored' = stored
    BY <1>3 DEF loadChunk
  <2>4. \A k \in Cell : /\ k \notin b => w.want[k] = 0
                        /\ k \in b => w.want[k] = stored[c][k] /\ 0 < w.want[k]
    <3>1. \A k \in Cell : stored[c][k] \in Nat
      BY Numbers
    <3>2. \A k \in b : stored[c][k] # 0
      BY <1>3 DEF loadChunk
    <3> QED
      BY <2>1, <3>1, <3>2
  <2> HIDE DEF w
  <2>5. AtRest(c)
    BY <1>1, <2>3 DEF AtRest, Others
  <2> QED
    <3>1. StoredBy(c, w) /\ WantedBy(c, w)
      BY <2>1, <2>3, <2>4 DEF StoredBy, WantedBy
    <3> QED
      BY <1>1, <2>1, <2>2, <2>3, <2>5, <3>1, ChunkAdded DEF Data
<1> QED
  BY <1>2, <1>3

-----------------------------------------------------------------------------
(* Calls add tasks to the queue.                                           *)

\* What task i of s finds when s is enqueued behind q.
ReadyBehind(q, s, i) ==
  /\ s[i].op \notin Openers \cup {"DELETE_ATT"} =>
       \/ isOpen
       \/ \E t \in Tasks(q) : t.op \in Openers
       \/ \E j \in 1 .. i - 1 : s[j].op \in Openers
  /\ s[i].op \in Data \cup Attributes =>
       \/ written[s[i].comp]
       \/ \E t \in Tasks(q) : t.op \in Creators /\ t.comp = s[i].comp
       \/ \E j \in 1 .. i - 1 : s[j].op \in Creators /\ s[j].comp = s[i].comp
  /\ s[i].op = "CREATE_GROUP" =>
       FollowedBy(s, i, "WRITE_VALUE") /\ FollowedBy(s, i, "WRITE_SHAPE")

LEMMA ReadyConcat ==
  ASSUME NEW q \in Seq(IOTask), NEW s \in Seq(IOTask),
         \A p \in DOMAIN q : ReadyAt(q, p), \A i \in DOMAIN s : ReadyBehind(q, s, i)
  PROVE  \A p \in DOMAIN (q \o s) : ReadyAt(q \o s, p)
<1> PICK r : r = q \o s
  OBVIOUS
<1>1. /\ DOMAIN q = 1 .. Len(q) /\ DOMAIN s = 1 .. Len(s)
      /\ DOMAIN r = 1 .. Len(q) + Len(s) /\ Len(q) \in Nat /\ Len(s) \in Nat
      /\ Len(r) = Len(q) + Len(s)
      /\ \A i \in 1 .. Len(q) : r[i] = q[i]
      /\ \A i \in 1 .. Len(s) : r[Len(q) + i] = s[i]
  OBVIOUS
<1> SUFFICES ASSUME NEW p \in DOMAIN r PROVE ReadyAt(r, p)
  OBVIOUS
<1>2. CASE p <= Len(q)
  <2>1. p \in DOMAIN q /\ r[p] = q[p] /\ ReadyAt(q, p)
    BY <1>1, <1>2
  <2>2. \A j \in 1 .. p - 1 : r[j] = q[j]
    BY <1>1, <1>2
  <2>3. \A j \in p + 1 .. Len(q) : j \in p + 1 .. Len(r) /\ r[j] = q[j]
    BY <1>1, <2>1
  <2>4. OpenAt(q, p) => OpenAt(r, p)
    BY <2>2 DEF OpenAt
  <2>5. CreatedAt(q, p) => CreatedAt(r, p)
    BY <2>1, <2>2 DEF CreatedAt
  <2>6. \A o : FollowedBy(q, p, o) => FollowedBy(r, p, o)
    BY <2>1, <2>3 DEF FollowedBy
  <2> QED
    BY <2>1, <2>4, <2>5, <2>6 DEF ReadyAt
<1>3. CASE p > Len(q)
  <2>1. PICK i \in 1 .. Len(s) : p = Len(q) + i
    <3>1. p - Len(q) \in 1 .. Len(s) /\ p = Len(q) + (p - Len(q))
      BY <1>1, <1>3
    <3> QED
      BY <3>1
  <2>2. r[p] = s[i] /\ ReadyBehind(q, s, i)
    BY <1>1, <2>1
  <2>3. \A j \in 1 .. i - 1 : Len(q) + j \in 1 .. p - 1 /\ r[Len(q) + j] = s[j]
    BY <1>1, <2>1
  <2>4. \A t \in Tasks(q) : \E j \in 1 .. p - 1 : r[j] = t
    <3> TAKE t \in Tasks(q)
    <3>1. PICK j \in 1 .. Len(q) : q[j] = t
      BY <1>1 DEF Tasks
    <3>2. j \in 1 .. p - 1 /\ r[j] = t
      BY <1>1, <1>3, <3>1
    <3> QED
      BY <3>2
  <2>5. \A j \in i + 1 .. Len(s) : Len(q) + j \in p + 1 .. Len(r) /\ r[Len(q) + j] = s[j]
    BY <1>1, <2>1
  <2>6. s[i].op \notin Openers \cup {"DELETE_ATT"} => OpenAt(r, p)
    BY <2>2, <2>3, <2>4 DEF ReadyBehind, OpenAt
  <2>7. s[i].op \in Data \cup Attributes => CreatedAt(r, p)
    <3> SUFFICES ASSUME s[i].op \in Data \cup Attributes, ~written[s[i].comp]
                 PROVE  \E j \in 1 .. p - 1 : r[j].op \in Creators /\ r[j].comp = s[i].comp
      BY <2>2 DEF CreatedAt
    <3>1. CASE \E t \in Tasks(q) : t.op \in Creators /\ t.comp = s[i].comp
      BY <2>4, <3>1
    <3>2. CASE \E j \in 1 .. i - 1 : s[j].op \in Creators /\ s[j].comp = s[i].comp
      BY <2>3, <3>2
    <3> QED
      BY <2>2, <3>1, <3>2 DEF ReadyBehind
  <2>8. \A o : FollowedBy(s, i, o) => FollowedBy(r, p, o)
    BY <2>2, <2>5 DEF FollowedBy
  <2> QED
    BY <2>2, <2>6, <2>7, <2>8 DEF ReadyBehind, ReadyAt
<1> QED
  BY <1>1, <1>2, <1>3

\* Tasks s are enqueued; handlers do nothing.
Enqueued(s) ==
  /\ s \in Seq(IOTask) /\ m_work' = m_work \o s /\ UNCHANGED <<fixed, flags, isOpen, file>>
  /\ Ordered(s) /\ AllInOrder(Tasks(m_work), Tasks(s))
  /\ \A i \in DOMAIN s : ReadyBehind(m_work, s, i)
  /\ components' = components
  /\ \A c \in components : \/ rc'[c].chunks = <<>>
                           \/ rc'[c].chunks = rc[c].chunks /\ AllInOrder(Tasks(s), Tasks(rc[c].chunks))

LEMMA EnqueuedKeeps ==
  ASSUME TypeOK, QueueInv, phase # "gone", NEW s, Enqueued(s)
  PROVE  /\ OrderInv' /\ ReadyInv' /\ FileInv'
         /\ Tasks(m_work)' = Tasks(m_work) \cup Tasks(s)
         /\ \A c \in Comp : /\ node(c)' = node(c) /\ written'[c] = written[c]
                            /\ TasksOf(c)' = TasksOf(c) \cup {t \in Tasks(s) : t.comp = c}
<1>1. /\ OrderInv /\ ReadyInv /\ FileInv /\ m_work \in Seq(IOTask) /\ s \in Seq(IOTask)
      /\ m_work' = m_work \o s /\ UNCHANGED <<fixed, flags, isOpen, file>>
  BY DEF QueueInv, TypeOK, HandlersTypeOK, Enqueued
<1> PICK q : q = m_work
  OBVIOUS
<1> PICK r : r = q \o s
  OBVIOUS
<1>2. /\ Tasks(r) = Tasks(q) \cup Tasks(s)
      /\ Ordered(r) <=> Ordered(q) /\ Ordered(s) /\ AllInOrder(Tasks(q), Tasks(s))
  BY <1>1, ConcatTasks
<1>3. Tasks(m_work)' = Tasks(m_work) \cup Tasks(s) /\ Ordered(r) /\ m_work' = r
  <2>1. m_work' = r
    BY <1>1
  <2>2. Tasks(m_work)' = Tasks(r)
    BY <2>1 DEF Tasks
  <2>3. Ordered(q) /\ Ordered(s) /\ AllInOrder(Tasks(q), Tasks(s))
    BY <1>1 DEF OrderInv, Enqueued
  <2> QED
    BY <1>2, <2>1, <2>2, <2>3
<1>4. OrderInv'
  <2>1. Ordered(m_work)'
    BY <1>3 DEF Ordered
  <2>2. ASSUME NEW c \in components'
        PROVE  Ordered(rc[c].chunks)' /\ AllInOrder(Tasks(m_work), Tasks(rc[c].chunks))'
    <3>1. c \in components
      BY DEF Enqueued
    <3>2. CASE rc'[c].chunks = <<>>
      <4>1. Tasks(rc[c].chunks)' = {}
        BY <3>2, SmallQueues DEF Tasks
      <4>2. Ordered(rc[c].chunks)'
        BY <3>2, SmallQueues DEF Ordered
      <4> QED
        BY <4>1, <4>2 DEF AllInOrder
    <3>3. CASE rc'[c].chunks = rc[c].chunks /\ AllInOrder(Tasks(s), Tasks(rc[c].chunks))
      <4>1. Ordered(rc[c].chunks) /\ AllInOrder(Tasks(m_work), Tasks(rc[c].chunks))
        BY <1>1, <3>1 DEF OrderInv
      <4>2. Tasks(rc[c].chunks)' = Tasks(rc[c].chunks)
        BY <3>3 DEF Tasks
      <4>3. Ordered(rc[c].chunks)'
        BY <3>3, <4>1 DEF Ordered
      <4> QED
        BY <1>3, <3>3, <4>1, <4>2, <4>3 DEF AllInOrder
    <3> QED
      BY <3>1, <3>2, <3>3 DEF Enqueued
  <2> QED
    BY <2>1, <2>2 DEF OrderInv
<1>5. ReadyInv'
  <2> SUFFICES ASSUME NEW p \in DOMAIN r PROVE ReadyAt(r, p)'
    BY <1>3 DEF ReadyInv, ReadyAt, OpenAt, CreatedAt, FollowedBy
  <2>1. ReadyAt(r, p)
    BY <1>1, ReadyConcat DEF ReadyInv, Enqueued
  <2>2. UNCHANGED <<isOpen, written>>
    BY <1>1 DEF flags
  <2>3. OpenAt(r, p)' = OpenAt(r, p) /\ CreatedAt(r, p)' = CreatedAt(r, p)
    BY <2>2 DEF OpenAt, CreatedAt
  <2> QED
    BY <2>1, <2>3 DEF ReadyAt, FollowedBy
<1>6. contents' = contents /\ Legible' = Legible /\ \A c \in Comp : node(c)' = node(c)
  BY <1>1, SameContents DEF file
<1>7. FileInv'
  <2>1. Pending => Pending'
    BY <1>1, PendingStays
  <2> QED
    BY <1>1, <1>6, <2>1 DEF FileInv, fixed, flags, file
<1> QED
  BY <1>1, <1>3, <1>4, <1>5, <1>6, <1>7 DEF TasksOf, flags

\* A call about component c enqueues task w and runs the queue.
Asks(c, w) ==
  /\ phase = "idle" /\ phase' = "drain"
  /\ m_work' = m_work \o <<w>> /\ UNCHANGED <<fixed, flags, isOpen, file>>
  /\ UNCHANGED <<components, rc, stored, doomed, todo>> /\ changes <= changes'
  /\ call'.comp = c /\ call'.op \in {"erase", "deleteAttribute", "availableChunks"}
  /\ result' = "none"
  /\ w \in IOTask /\ w.comp = c /\ c \in components
  /\ w.op \in {"DELETE_PATH", "DELETE_ATT", "AVAILABLE_CHUNKS"}
  /\ w.op # "DELETE_ATT" => isOpen
  /\ w.op # "AVAILABLE_CHUNKS" => access # "READ_ONLY" /\ TasksOf(c) = {}
  /\ w.op = "AVAILABLE_CHUNKS" => c \notin doomed
  /\ w.op = "DELETE_PATH" => rc[c].chunks = <<>>

LEMMA AskKeeps ==
  ASSUME TypeOK, TypeOK', CallInv, QueueInv, NEW c \in Comp, NEW w, Asks(c, w)
  PROVE  /\ TasksOf(c)' = TasksOf(c) \cup {w} /\ node(c)' = node(c) /\ written'[c] = written[c]
         /\ ~Erasing(c) /\ ~Deleting(c) /\ CompInv(c)
         /\ CompInv(c)' => QueueInv'
<1> PICK s : s = <<w>>
  OBVIOUS
<1>1. /\ Tasks(s) = {w} /\ Ordered(s) /\ s \in Seq(IOTask) /\ DOMAIN s = {1} /\ s[1] = w
      /\ Len(s) = 1
  BY SmallQueues DEF Asks
<1>2. /\ ~Erasing(c) /\ ~Deleting(c) /\ CompInv(c) /\ call.op # "construct"
      /\ call.op \notin {"erase", "deleteAttribute"} /\ phase # "gone"
  BY DEF Asks, CallInv, QueueInv, FileTaskInv, Erasing, Deleting
<1>3. AllInOrder(Tasks(m_work), Tasks(s))
  <2> SUFFICES ASSUME NEW t \in TasksOf(c) PROVE InOrder(t, w)
    BY <1>1 DEF AllInOrder, TasksOf, InOrder, Asks
  <2>1. w.op = "AVAILABLE_CHUNKS" /\ ~Lost(c)
    BY <1>2 DEF Asks, Lost
  <2>2. t.op # "DELETE_PATH"
    BY <1>2, <2>1 DEF CompInv, TasksInv, TaskFact
  <2> QED
    BY <2>1, <2>2 DEF InOrder, Deletions
<1>4. AllInOrder(Tasks(s), Tasks(rc[c].chunks))
  <2>1. CASE w.op = "DELETE_PATH"
    BY <2>1, SmallQueues DEF Asks, AllInOrder
  <2>2. CASE w.op # "DELETE_PATH"
    <3>1. \A u \in Tasks(rc[c].chunks) : u.op \in Data
      BY <1>2 DEF CompInv, TasksInv, Asks
    <3> QED
      BY <1>1, <2>2, <3>1 DEF Asks, AllInOrder, InOrder, Data, Deletions
  <2> QED
    BY <2>1, <2>2
<1>5. \A d \in components : AllInOrder(Tasks(s), Tasks(rc[d].chunks))
  <2> SUFFICES ASSUME NEW d \in components, d # c PROVE AllInOrder(Tasks(s), Tasks(rc[d].chunks))
    BY <1>4
  <2>1. \A u \in Tasks(rc[d].chunks) : u.comp = d
    BY DEF Asks, QueueInv, CompInv, TasksInv, TypeOK
  <2> QED
    BY <1>1, <2>1 DEF AllInOrder, InOrder, Asks
<1>6. \A i \in DOMAIN s : ReadyBehind(m_work, s, i)
  BY <1>1 DEF ReadyBehind, Asks, Data, Attributes
<1>7. Enqueued(s)
  BY <1>1, <1>3, <1>5, <1>6 DEF Enqueued, Asks
<1>8. /\ OrderInv' /\ ReadyInv' /\ FileInv'
      /\ Tasks(m_work)' = Tasks(m_work) \cup {w}
      /\ \A d \in Comp : /\ node(d)' = node(d) /\ written'[d] = written[d]
                         /\ TasksOf(d)' = TasksOf(d) \cup {t \in {w} : t.comp = d}
  BY <1>1, <1>2, <1>7, EnqueuedKeeps
<1>9. \A d \in Comp : d # c => CompInv(d)'
  <2> TAKE d \in Comp
  <2> HAVE d # c
  <2>1. Kept(d)
    BY <1>2 DEF Kept, Asks, Lost, Erasing, Deleting
  <2>2. TasksOf(d)' = TasksOf(d)
    <3>1. w.comp # d
      BY DEF Asks
    <3>2. {t \in {w} : t.comp = d} = {}
      BY <3>1
    <3>3. TasksOf(d)' = TasksOf(d) \cup {t \in {w} : t.comp = d}
      BY <1>8
    <3> QED
      BY <3>2, <3>3
  <2> QED
    BY <1>8, <2>1, <2>2, Undisturbed DEF QueueInv, Asks
<1>10. FileTaskInv'
  <2>1. FileTaskInv
    BY <1>2 DEF QueueInv
  <2>2. (w.op \in Writers => access # "READ_ONLY") /\ w.op \notin Openers \cup {"CLOSE_FILE", "READ_ATT"}
    BY DEF Asks, Writers, Readers, Operation, Openers
  <2>3. UNCHANGED <<access, encoding, isOpen>>
    BY DEF Asks, fixed
  <2>4. call'.op # "construct"
    BY DEF Asks
  <2> QED
    BY <1>2, <1>8, <2>1, <2>2, <2>3, <2>4 DEF FileTaskInv, Openers
<1>11. PhaseInv'
  BY DEF PhaseInv, Visits, Asks
<1>12. TasksOf(c)' = TasksOf(c) \cup {w}
  BY <1>8 DEF Asks
<1>13. CompInv(c)' => QueueInv'
  BY <1>8, <1>9, <1>10, <1>11 DEF QueueInv
<1> QED
  BY <1>2, <1>8, <1>12, <1>13 DEF Lost

\* erase: the whole component is to be deleted.
LEMMA EraseKeeps ==
  ASSUME TypeOK, TypeOK', CallInv, QueueInv, NEW c \in Comp, EraseWritten(c)
  PROVE  QueueInv'
<1> PICK w : w = Task("DELETE_PATH", c, {}, 0)
  OBVIOUS
<1>1. w.op = "DELETE_PATH" /\ w.comp = c /\ w \in IOTask
  BY TaskType, VersionTypes, CompAssumption DEF Task, Operation, FileTasks
<1>2. /\ phase = "idle" /\ phase' = "drain" /\ m_work' = m_work \o <<w>>
      /\ UNCHANGED <<fixed, flags, isOpen, file, components, rc, stored, doomed, todo>>
      /\ changes \in Nat /\ changes' = changes + 1 /\ call' = Call("erase", c) /\ result' = "none"
      /\ access # "READ_ONLY" /\ c \in components /\ Settled(c) /\ written[c] /\ isOpen
  BY Numbers DEF EraseWritten, Begin, Change, enqueue
<1>3. TasksOf(c) = {} /\ rc[c].chunks = <<>> /\ ~rc[c].dirty
  BY <1>2 DEF Settled, QueuedFor, TasksOf, Tasks
<1>4. call'.comp = c /\ call'.op = "erase"
  BY <1>2 DEF Call
<1>5. Asks(c, w)
  BY <1>1, <1>2, <1>3, <1>4 DEF Asks
<1>6. /\ TasksOf(c)' = {w} /\ node(c)' = node(c) /\ written'[c] = written[c]
      /\ ~Erasing(c) /\ ~Deleting(c) /\ CompInv(c) /\ (CompInv(c)' => QueueInv')
  BY <1>3, <1>5, AskKeeps
<1>7. Erasing(c)' /\ Lost(c)' /\ ~Deleting(c)' /\ Queued("DELETE_PATH", c)'
  BY <1>1, <1>4, <1>6 DEF Erasing, Lost, Deleting, Queued
<1>8. Tasks(rc[c].chunks)' = {}
  BY <1>2, <1>3, SmallQueues DEF Tasks
<1>9. Declared(c) /\ NodeInv(c)
  BY <1>2, <1>3, <1>6 DEF CompInv, NodeInv, Queued
<1>10. TasksInv(c)'
  <2>1. backend' = "HDF5" => node(c)'.kind # "none"
    BY <1>2, <1>6, <1>9 DEF Declared, fixed
  <2>2. TaskFact(c, w)'
    BY <1>1, <1>2, <1>3, <1>6, <1>7, <2>1 DEF TaskFact
  <2>3. ChunkFact(c, w)'
    BY <1>1 DEF ChunkFact, Data
  <2> QED
    BY <1>2, <1>6, <1>8, <2>2, <2>3 DEF TasksInv
<1>11. NodeInv(c)'
  BY <1>2, <1>3, <1>6, <1>9 DEF NodeInv, Declared, Queued
<1>12. CellInv(c)'
  <2>1. \A k \in Cell : stored[c][k] \in Nat
    BY Numbers
  <2> QED
    BY <1>2, <1>6, <1>7, <2>1 DEF CellInv, CompInv
<1>13. AttInv(c)'
  <2>1. node(c).att \in Nat /\ rc[c].att \in Nat
    BY Numbers
  <2> QED
    BY <1>2, <1>6, <1>7, <2>1 DEF AttInv, CompInv
<1>14. DeletionInv(c)' /\ CleanInv(c)'
  BY <1>1, <1>2, <1>6, <1>7 DEF DeletionInv, CleanInv, CompInv, fixed
<1> QED
  BY <1>6, <1>10, <1>11, <1>12, <1>13, <1>14 DEF CompInv

\* deleteAttribute, of a component that may have chunks if it is not written.
LEMMA DeleteAttributeKeeps ==
  ASSUME TypeOK, TypeOK', CallInv, QueueInv, NEW c \in Comp, DeleteAttribute(c)
  PROVE  QueueInv'
<1> PICK w : w = Task("DELETE_ATT", c, {}, 0)
  OBVIOUS
<1>1. w.op = "DELETE_ATT" /\ w.comp = c /\ w \in IOTask
  BY TaskType, VersionTypes, CompAssumption DEF Task, Operation, FileTasks
<1>2. /\ phase = "idle" /\ phase' = "drain" /\ m_work' = m_work \o <<w>>
      /\ UNCHANGED <<fixed, flags, isOpen, file, components, rc, stored, doomed, todo>>
      /\ changes \in Nat /\ changes' = changes + 1 /\ result' = "none"
      /\ call' = Call("deleteAttribute", c)
      /\ access # "READ_ONLY" /\ c \in components \ doomed /\ Settled(c)
      /\ rc[c].att # 0 /\ (written[c] => isOpen)
  BY Numbers DEF DeleteAttribute, Begin, Change, enqueue, Writable
<1>3. TasksOf(c) = {} /\ (written[c] => rc[c].chunks = <<>> /\ ~rc[c].dirty)
  BY <1>2 DEF Settled, QueuedFor, TasksOf, Tasks
<1>4. call'.comp = c /\ call'.op = "deleteAttribute"
  BY <1>2 DEF Call
<1>5. Asks(c, w)
  BY <1>1, <1>2, <1>3, <1>4 DEF Asks
<1>6. /\ TasksOf(c)' = {w} /\ node(c)' = node(c) /\ written'[c] = written[c]
      /\ ~Erasing(c) /\ ~Deleting(c) /\ CompInv(c) /\ (CompInv(c)' => QueueInv')
  BY <1>3, <1>5, AskKeeps
<1>7. ~Erasing(c)' /\ ~Lost(c)' /\ ~Lost(c) /\ Deleting(c)' /\ Queued("DELETE_ATT", c)'
  BY <1>1, <1>2, <1>4, <1>6 DEF Erasing, Lost, Deleting, Queued
<1>8. /\ Tasks(rc[c].chunks)' = Tasks(rc[c].chunks)
      /\ Outstanding(c)' = Outstanding(c) \cup {w}
  BY <1>2, <1>3, <1>6 DEF Tasks, Outstanding
<1>9. \A t : ChunkFact(c, t) => ChunkFact(c, t)'
  BY <1>2, <1>6, <1>8 DEF ChunkFact, StoreFact, LoadFact, Stores, fixed
<1>10. TasksInv(c)'
  <2>1. written[c] => isOpen /\ (backend = "HDF5" => node(c).att # 0)
    <3>1. rc[c].dirty \/ node(c).att = rc[c].att
      BY <1>2, <1>3, <1>6, <1>7 DEF CompInv, AttInv
    <3> QED
      BY <1>2, <1>3, <3>1
  <2>2. TaskFact(c, w)'
    BY <1>1, <1>2, <1>6, <1>7, <2>1 DEF TaskFact, fixed
  <2>3. ChunkFact(c, w)'
    BY <1>1 DEF ChunkFact, Data
  <2> QED
    BY <1>2, <1>6, <1>8, <1>9, <2>2, <2>3 DEF TasksInv, CompInv
<1>11. NodeInv(c)'
  BY <1>2, <1>3, <1>6 DEF NodeInv, Declared, Queued, CompInv
<1>12. CellInv(c)'
  <2>1. \A k \in Cell : stored[c][k] \in Nat
    BY Numbers
  <2> QED
    BY <1>2, <1>6, <1>7, <1>8, <2>1 DEF CellInv, CompInv, Stores
<1>13. AttInv(c)'
  <2>1. node(c).att \in Nat /\ rc[c].att \in Nat
    BY Numbers
  <2> QED
    BY <1>2, <1>6, <1>7, <2>1 DEF AttInv, CompInv
<1>14. DeletionInv(c)'
  BY <1>1, <1>6, <1>7 DEF DeletionInv
<1>15. CleanInv(c)'
  BY <1>2, <1>3, <1>6, <1>7 DEF CleanInv, CompInv, Queued, fixed
<1> QED
  BY <1>6, <1>10, <1>11, <1>12, <1>13, <1>14, <1>15 DEF CompInv

\* availableChunks changes nothing of the component.
LEMMA AvailableChunksKeeps ==
  ASSUME TypeOK, TypeOK', CallInv, QueueInv, NEW c \in Comp, AvailableChunks(c)
  PROVE  QueueInv'
<1> PICK w : w = Task("AVAILABLE_CHUNKS", c, {}, 0)
  OBVIOUS
<1>1. w.op = "AVAILABLE_CHUNKS" /\ w.comp = c /\ w \in IOTask
  BY TaskType, VersionTypes, CompAssumption DEF Task, Operation, FileTasks
<1>2. /\ phase = "idle" /\ phase' = "drain" /\ m_work' = m_work \o <<w>>
      /\ UNCHANGED <<fixed, flags, isOpen, file, components, rc, stored, doomed, todo, changes>>
      /\ changes \in Nat /\ result' = "none" /\ call' = Call("availableChunks", c)
      /\ c \in components \ doomed /\ ~rc[c].constant /\ written[c] /\ isOpen
  BY Numbers DEF AvailableChunks, Begin, enqueue
<1>3. call'.comp = c /\ call'.op = "availableChunks"
  BY <1>2 DEF Call
<1>4. Asks(c, w)
  BY <1>1, <1>2, <1>3 DEF Asks
<1>5. /\ TasksOf(c)' = TasksOf(c) \cup {w} /\ node(c)' = node(c) /\ written'[c] = written[c]
      /\ ~Erasing(c) /\ ~Deleting(c) /\ CompInv(c) /\ (CompInv(c)' => QueueInv')
  BY <1>4, AskKeeps
<1>6. ~Erasing(c)' /\ ~Deleting(c)' /\ ~Lost(c)' /\ ~Lost(c)
  BY <1>2, <1>3, <1>5 DEF Erasing, Deleting, Lost
<1>7. Tasks(rc[c].chunks)' = Tasks(rc[c].chunks) /\ Outstanding(c)' = Outstanding(c) \cup {w}
  BY <1>2, <1>5 DEF Tasks, Outstanding
<1>8. \A t : ChunkFact(c, t) => ChunkFact(c, t)'
  BY <1>2, <1>5, <1>7 DEF ChunkFact, StoreFact, LoadFact, Stores, fixed
<1>9. \A t \in TasksOf(c) : TaskFact(c, t) => TaskFact(c, t)'
  BY <1>2, <1>5, <1>6 DEF TaskFact, fixed
<1>10. TasksInv(c)'
  <2>1. TaskFact(c, w)' /\ ChunkFact(c, w)'
    BY <1>1, <1>2, <1>5 DEF TaskFact, ChunkFact, Data
  <2> QED
    BY <1>2, <1>5, <1>7, <1>8, <1>9, <2>1 DEF TasksInv, CompInv
<1>11. NodeInv(c)' /\ CleanInv(c)' /\ DeletionInv(c)'
  BY <1>2, <1>5, <1>6 DEF NodeInv, Declared, Queued, CleanInv, DeletionInv, CompInv, fixed
<1>12. CellInv(c)' /\ AttInv(c)'
  BY <1>2, <1>5, <1>6, <1>7 DEF CellInv, AttInv, CompInv, Stores, fixed
<1> QED
  BY <1>5, <1>10, <1>11, <1>12 DEF CompInv

-----------------------------------------------------------------------------
(* A flush begins.                                                         *)

\* Tasks that come before those of the components: the file is opened first.
Opening(s) ==
  /\ s \in Seq(IOTask)
  /\ \A t \in Tasks(s) :
       /\ t.op \in Openers \cup {"CREATE_PATH"} /\ t.comp = None
       /\ t.op = "CREATE_FILE" => access = "CREATE"
       /\ t.op = "OPEN_FILE" => access # "CREATE"
       /\ t.op = "CREATE_PATH" => access # "READ_ONLY"
  /\ \A i \in DOMAIN s :
       s[i].op = "CREATE_PATH" => isOpen \/ \E j \in 1 .. i - 1 : s[j].op \in Openers
  /\ isOpen \/ \E t \in Tasks(s) : t.op \in Openers
  /\ access = "CREATE" => fileWritten \/ \E t \in Tasks(s) : t.op = "CREATE_FILE"

LEMMA FlushOpens ==
  ASSUME TypeOK, QueueInv, phase = "idle"
  PROVE  Opening(flushTasks) /\ Opening(flushTasks \o recordTasks)
<1>1. /\ FileInv /\ FileTaskInv /\ call.op # "construct" /\ isOpen \in BOOLEAN
      /\ fileWritten \in BOOLEAN /\ encoding \in Encoding
  BY DEF QueueInv, FileTaskInv, TypeOK, HandlersTypeOK
<1>2. access = "CREATE" => encoding = "groupBased" /\ isOpen = fileWritten
  BY <1>1 DEF FileInv
<1>3. access # "CREATE" /\ encoding = "groupBased" => isOpen
  BY <1>1 DEF FileTaskInv
<1> PICK o : o = FileTask(IF encoding = "fileBased" THEN "OPEN_FILE" ELSE "CREATE_FILE")
  OBVIOUS
<1> PICK p : p = FileTask("CREATE_PATH")
  OBVIOUS
<1>4. /\ o.op = (IF encoding = "fileBased" THEN "OPEN_FILE" ELSE "CREATE_FILE") /\ o.comp = None
      /\ p.op = "CREATE_PATH" /\ p.comp = None /\ o \in IOTask /\ p \in IOTask
  BY FileTaskType DEF FileTask, Task, FileTasks
<1>5. \/ flushTasks = <<o>> /\ (access = "CREATE" <=> o.op = "CREATE_FILE")
      \/ flushTasks = <<>> /\ isOpen /\ (access = "CREATE" => fileWritten)
  <2>1. CASE encoding = "fileBased"
    BY <1>2, <1>4, <2>1 DEF flushTasks
  <2>2. CASE encoding # "fileBased"
    <3>1. encoding = "groupBased"
      BY <1>1, <2>2 DEF Encoding
    <3>2. CASE access = "CREATE" /\ ~fileWritten
      BY <1>4, <3>1, <3>2 DEF flushTasks
    <3>3. CASE ~(access = "CREATE" /\ ~fileWritten)
      BY <1>1, <1>2, <1>3, <3>1, <3>3 DEF flushTasks
    <3> QED
      BY <3>2, <3>3
  <2> QED
    BY <2>1, <2>2
<1>6. recordTasks = <<>> \/ (recordTasks = <<p>> /\ access # "READ_ONLY")
  BY DEF recordTasks
<1>7. ASSUME NEW x, NEW y
      PROVE  /\ <<x>> \o <<y>> = <<x, y>> /\ <<x>> \o <<>> = <<x>> /\ <<>> \o <<y>> = <<y>>
             /\ <<>> \o <<>> = <<>>
  <2>1. <<x>> \in Seq({x, y}) /\ <<y>> \in Seq({x, y}) /\ <<>> \in Seq({x, y})
    OBVIOUS
  <2>2. <<x>> \o <<y>> = <<x, y>>
    <3> DEFINE q == <<x>> \o <<y>>
    <3>1. q \in Seq({x, y}) /\ Len(q) = 2 /\ q[1] = x /\ q[2] = y
      BY <2>1
    <3> HIDE DEF q
    <3>2. q = <<x, y>>
      BY <3>1
    <3> QED
      BY <3>2 DEF q
  <2>3. \A q \in Seq({x, y}) : q \o <<>> = q /\ <<>> \o q = q
    OBVIOUS
  <2> QED
    BY <2>1, <2>2, <2>3
<1>8. o.op \in Openers /\ p.op \notin Openers /\ o.op # "CREATE_PATH"
      /\ o.op \in {"CREATE_FILE", "OPEN_FILE"}
  BY <1>4 DEF Openers
<1>9. ASSUME flushTasks = <<o>>, access = "CREATE" <=> o.op = "CREATE_FILE"
      PROVE  Opening(<<o>>) /\ (access # "READ_ONLY" => Opening(<<o, p>>))
  <2>1. Opening(<<o>>)
    <3>1. <<o>> \in Seq(IOTask) /\ Tasks(<<o>>) = {o} /\ DOMAIN <<o>> = {1} /\ <<o>>[1] = o
      BY <1>4, SmallQueues
    <3> QED
      BY <1>4, <1>8, <1>9, <3>1 DEF Opening
  <2>2. ASSUME access # "READ_ONLY" PROVE Opening(<<o, p>>)
    <3> PICK s : s = <<o, p>>
      OBVIOUS
    <3>1. s \in Seq(IOTask) /\ DOMAIN s = {1, 2} /\ s[1] = o /\ s[2] = p
      BY <1>4
    <3>2. Tasks(s) = {o, p}
      BY <3>1 DEF Tasks
    <3>3. \A i \in DOMAIN s :
            s[i].op = "CREATE_PATH" => \E j \in 1 .. i - 1 : s[j].op \in Openers
      <4> SUFFICES 1 \in 1 .. 2 - 1
        BY <1>8, <3>1
      <4> QED
        OBVIOUS
    <3> QED
      BY <1>4, <1>8, <1>9, <2>2, <3>1, <3>2, <3>3 DEF Opening
  <2> QED
    BY <2>1, <2>2
<1>10. ASSUME flushTasks = <<>>, isOpen, access = "CREATE" => fileWritten
       PROVE  Opening(<<>>) /\ (access # "READ_ONLY" => Opening(<<p>>))
  <2>1. Tasks(<<>>) = {} /\ DOMAIN <<>> = {} /\ <<>> \in Seq(IOTask)
    BY SmallQueues
  <2>2. <<p>> \in Seq(IOTask) /\ Tasks(<<p>>) = {p}
    BY <1>4, SmallQueues
  <2> QED
    BY <1>4, <1>8, <1>10, <2>1, <2>2 DEF Opening
<1>11. CASE flushTasks = <<o>> /\ (access = "CREATE" <=> o.op = "CREATE_FILE")
  BY <1>6, <1>7, <1>9, <1>11
<1>12. CASE flushTasks = <<>> /\ isOpen /\ (access = "CREATE" => fileWritten)
  BY <1>6, <1>7, <1>10, <1>12
<1> QED
  BY <1>5, <1>11, <1>12

LEMMA OpeningKeeps ==
  ASSUME TypeOK, TypeOK', CallInv, QueueInv, phase = "idle", NEW s, Opening(s),
         m_work' = m_work \o s, UNCHANGED <<fixed, flags, isOpen, file>>,
         UNCHANGED <<components, rc, stored, doomed, changes>>,
         call'.op \notin {"construct", "erase", "deleteAttribute"}
  PROVE  /\ OrderInv' /\ ReadyInv' /\ FileInv' /\ FileTaskInv'
         /\ \A c \in Comp : CompInv(c)'
         /\ isOpen' \/ \E t \in Tasks(m_work)' : t.op \in Openers
         /\ access' = "CREATE" => fileWritten' \/ \E t \in Tasks(m_work)' : t.op = "CREATE_FILE"
<1>1. /\ call.op \notin {"erase", "deleteAttribute", "construct"} /\ FileTaskInv
      /\ m_work \in Seq(IOTask)
  BY DEF CallInv, QueueInv, FileTaskInv, TypeOK, HandlersTypeOK
<1>2. \A t \in Tasks(s) : t.comp = None /\ t.op \notin Data \cup Attributes \cup Deletions \cup Creators
  BY DEF Opening, Openers, Data, Attributes, Deletions, Creators
<1>3. Ordered(s)
  <2>1. \A i \in DOMAIN s : s[i] \in Tasks(s)
    BY DEF Tasks
  <2> QED
    BY <1>2, <2>1 DEF Ordered, InOrder, Data, Attributes, Deletions
<1>4. AllInOrder(Tasks(m_work), Tasks(s))
  <2>1. \A t \in Tasks(m_work) : t.comp = None => t.op # "DELETE_PATH"
    <3>1. Tasks(m_work) \subseteq IOTask
      BY <1>1, TasksType
    <3> QED
      BY <3>1 DEF IOTask, FileTasks
  <2> QED
    BY <1>2, <2>1 DEF AllInOrder, InOrder, Data, Attributes
<1>5. \A d \in components : AllInOrder(Tasks(s), Tasks(rc[d].chunks))
  <2> SUFFICES ASSUME NEW d \in components PROVE AllInOrder(Tasks(s), Tasks(rc[d].chunks))
    OBVIOUS
  <2>1. d \in Comp /\ d # None
    BY CompAssumption DEF TypeOK
  <2>2. \A u \in Tasks(rc[d].chunks) : u.comp = d
    BY <2>1 DEF QueueInv, CompInv, TasksInv
  <2> QED
    BY <1>2, <2>1, <2>2 DEF AllInOrder, InOrder
<1>6. \A i \in DOMAIN s : ReadyBehind(m_work, s, i)
  <2> TAKE i \in DOMAIN s
  <2>1. s[i] \in Tasks(s)
    BY DEF Tasks
  <2>2. s[i].op \in Openers \cup {"CREATE_PATH"}
    BY <2>1 DEF Opening
  <2>3. s[i].op = "CREATE_PATH" => isOpen \/ \E j \in 1 .. i - 1 : s[j].op \in Openers
    BY DEF Opening
  <2> QED
    BY <1>2, <2>1, <2>2, <2>3 DEF ReadyBehind, Creators
<1>7. Enqueued(s)
  BY <1>3, <1>4, <1>5, <1>6 DEF Enqueued, Opening
<1>8. /\ OrderInv' /\ ReadyInv' /\ FileInv'
      /\ Tasks(m_work)' = Tasks(m_work) \cup Tasks(s)
      /\ \A d \in Comp : /\ node(d)' = node(d) /\ written'[d] = written[d]
                         /\ TasksOf(d)' = TasksOf(d) \cup {t \in Tasks(s) : t.comp = d}
  BY <1>7, EnqueuedKeeps
<1>9. ASSUME NEW d \in Comp PROVE CompInv(d)'
  <2>1. Kept(d)
    <3>1. changes \in Nat
      BY Numbers, <1>9
    <3> QED
      BY <1>1, <3>1 DEF Kept, Lost, Erasing, Deleting
  <2>2. TasksOf(d)' = TasksOf(d)
    <3>1. {t \in Tasks(s) : t.comp = d} = {}
      BY <1>2, CompAssumption
    <3>2. TasksOf(d)' = TasksOf(d) \cup {t \in Tasks(s) : t.comp = d}
      BY <1>8
    <3> QED
      BY <3>1, <3>2
  <2> QED
    BY <1>8, <2>1, <2>2, Undisturbed DEF QueueInv
<1>10. UNCHANGED <<access, encoding, isOpen, fileWritten>>
  BY DEF fixed, flags
<1>11. FileTaskInv'
  <2>1. \A t \in Tasks(s) : /\ t.op = "CREATE_FILE" => access = "CREATE"
                            /\ t.op = "OPEN_FILE" => access # "CREATE"
                            /\ t.op \notin {"CLOSE_FILE", "READ_ATT"}
                            /\ t.op \in Writers => access # "READ_ONLY"
    BY DEF Opening, Openers, Writers
  <2> QED
    BY <1>1, <1>8, <1>10, <2>1 DEF FileTaskInv
<1>12. /\ isOpen' \/ \E t \in Tasks(m_work)' : t.op \in Openers
       /\ access' = "CREATE" => fileWritten' \/ \E t \in Tasks(m_work)' : t.op = "CREATE_FILE"
  BY <1>8, <1>10 DEF Opening
<1> QED
  BY <1>8, <1>9, <1>11, <1>12

\* flush, the destructor.
LEMMA FlushKeeps ==
  ASSUME TypeOK, TypeOK', CallInv, QueueInv, flush \/ Destroy \/ FlushEmpty
  PROVE  QueueInv'
<1>1. /\ phase = "idle" /\ UNCHANGED <<fixed, flags, isOpen, file, stored, doomed>>
      /\ UNCHANGED <<components, rc, changes>> /\ result' = "none"
      /\ call' \in {Call("flush", None), Call("destroy", None)}
  BY DEF flush, Destroy, Flush, FlushEmpty, Begin
<1>2. call'.op \in {"flush", "destroy"}
  BY <1>1 DEF Call
<1>3. \/ m_work' = m_work /\ phase' = "drain" /\ ~dirtyRecursive /\ encoding = "fileBased"
      \/ m_work' = m_work \o (flushTasks \o recordTasks) /\ phase' = "flush" /\ todo' = components
      \/ m_work' = m_work \o flushTasks /\ phase' = phase
  BY DEF flush, Destroy, Flush, FlushEmpty, enqueue
<1>4. Opening(flushTasks) /\ Opening(flushTasks \o recordTasks)
  BY <1>1, FlushOpens
<1>5. ASSUME NEW s, Opening(s), m_work' = m_work \o s,
             phase' = phase \/ (phase' = "flush" /\ todo' = components)
      PROVE  QueueInv'
  <2>1. /\ OrderInv' /\ ReadyInv' /\ FileInv' /\ FileTaskInv'
        /\ \A c \in Comp : CompInv(c)'
        /\ isOpen' \/ \E t \in Tasks(m_work)' : t.op \in Openers
        /\ access' = "CREATE" => fileWritten' \/ \E t \in Tasks(m_work)' : t.op = "CREATE_FILE"
    BY <1>1, <1>2, <1>5, OpeningKeeps
  <2>2. PhaseInv'
    BY <1>1, <1>5, <2>1 DEF PhaseInv, Visits
  <2> QED
    BY <2>1, <2>2 DEF QueueInv
<1>6. CASE m_work' = m_work /\ phase' = "drain" /\ ~dirtyRecursive /\ encoding = "fileBased"
  <2>1. /\ call.op \notin {"erase", "deleteAttribute", "construct"} /\ FileTaskInv /\ FileInv
    BY <1>1 DEF CallInv, QueueInv, FileTaskInv
  <2>2. /\ ReadyInv' /\ OrderInv' /\ Tasks(m_work)' = Tasks(m_work)
        /\ \A c \in Comp : TasksOf(c)' = TasksOf(c)
    BY <1>1, <1>6, QueueStays
  <2>3. contents' = contents /\ Legible' = Legible /\ \A d \in Comp : node(d)' = node(d)
    BY <1>1, SameContents DEF file
  <2>4. FileInv'
    <3>1. Pending => Pending'
      BY <1>1, <1>6, SeqTypes, PendingStays DEF QueueInv
    <3> QED
      BY <1>1, <2>1, <2>3, <3>1 DEF FileInv, fixed, flags, file
  <2>5. ASSUME NEW d \in Comp PROVE CompInv(d)'
    <3>1. changes \in Nat
      BY Numbers, <2>5
    <3>2. Kept(d)
      BY <1>1, <1>2, <2>1, <3>1 DEF Kept, Lost, Erasing, Deleting
    <3> QED
      BY <1>1, <2>2, <2>3, <3>2, Undisturbed DEF QueueInv, flags
  <2>6. FileTaskInv'
    BY <1>1, <1>2, <1>6, <2>1, <2>2 DEF FileTaskInv, fixed
  <2>7. PhaseInv'
    <3>1. \A c \in components : ~rc[c].dirty /\ rc[c].chunks = <<>>
      BY <1>6 DEF dirtyRecursive
    <3>2. access # "CREATE"
      BY <1>6, <2>1 DEF FileInv
    <3> QED
      BY <1>1, <1>6, <3>1, <3>2 DEF PhaseInv, fixed
  <2> QED
    BY <2>2, <2>4, <2>5, <2>6, <2>7 DEF QueueInv
<1> QED
  BY <1>3, <1>4, <1>5, <1>6

-----------------------------------------------------------------------------
(* A flush visits a component.                                             *)

\* What is behind the first tasks of a queue.
ThreeFacts(p, q, a, s) ==
  /\ s \in Seq(IOTask) /\ Tasks(s) = Tasks(p) \cup Tasks(q) \cup Tasks(a)
  /\ Len(p) \in Nat /\ Len(s) \in Nat /\ Len(p) <= Len(s)
  /\ DOMAIN s = 1 .. Len(s) /\ DOMAIN p = 1 .. Len(p)
  /\ \A i \in 1 .. Len(p) : s[i] = p[i]
  /\ \A i \in 1 .. Len(s) : i > Len(p) => s[i] \in Tasks(q) \cup Tasks(a)
  /\ Ordered(p) /\ Ordered(q) /\ Ordered(a) /\ AllInOrder(Tasks(p), Tasks(q))
     /\ AllInOrder(Tasks(p) \cup Tasks(q), Tasks(a)) => Ordered(s)

LEMMA ThreeQueues ==
  ASSUME NEW p \in Seq(IOTask), NEW q \in Seq(IOTask), NEW a \in Seq(IOTask)
  PROVE  ThreeFacts(p, q, a, (p \o q) \o a)
<1> PICK s : s = (p \o q) \o a
  OBVIOUS
<1> PICK r : r = p \o q
  OBVIOUS
<1>1. r \in Seq(IOTask) /\ s = r \o a /\ s \in Seq(IOTask)
  OBVIOUS
<1>2. /\ Tasks(r) = Tasks(p) \cup Tasks(q)
      /\ Ordered(r) <=> Ordered(p) /\ Ordered(q) /\ AllInOrder(Tasks(p), Tasks(q))
  BY ConcatTasks
<1>3. /\ Tasks(s) = Tasks(r) \cup Tasks(a)
      /\ Ordered(s) <=> Ordered(r) /\ Ordered(a) /\ AllInOrder(Tasks(r), Tasks(a))
  <2>1. /\ Tasks(r \o a) = Tasks(r) \cup Tasks(a)
        /\ Ordered(r \o a) <=> Ordered(r) /\ Ordered(a) /\ AllInOrder(Tasks(r), Tasks(a))
    BY <1>1, ConcatTasks
  <2> QED
    BY <1>1, <2>1
<1>4. /\ Len(r) = Len(p) + Len(q) /\ Len(s) = Len(r) + Len(a)
      /\ Len(p) \in Nat /\ Len(q) \in Nat /\ Len(a) \in Nat /\ Len(r) \in Nat /\ Len(s) \in Nat
      /\ DOMAIN p = 1 .. Len(p) /\ DOMAIN q = 1 .. Len(q) /\ DOMAIN a = 1 .. Len(a)
      /\ DOMAIN r = 1 .. Len(r) /\ DOMAIN s = 1 .. Len(s)
  BY <1>1
<1>5. /\ \A i \in 1 .. Len(p) : r[i] = p[i]
      /\ \A i \in 1 .. Len(q) : r[Len(p) + i] = q[i]
  OBVIOUS
<1>6. /\ \A i \in 1 .. Len(r) : s[i] = r[i]
      /\ \A i \in 1 .. Len(a) : s[Len(r) + i] = a[i]
  BY <1>1
<1>7. \A i \in 1 .. Len(p) : s[i] = p[i]
  BY <1>4, <1>5, <1>6
<1>8. ASSUME NEW i \in 1 .. Len(s), i > Len(p) PROVE s[i] \in Tasks(q) \cup Tasks(a)
  <2>1. CASE i <= Len(r)
    <3>1. i - Len(p) \in 1 .. Len(q) /\ Len(p) + (i - Len(p)) = i /\ i \in 1 .. Len(r)
      BY <1>4, <1>8, <2>1
    <3>2. s[i] = q[i - Len(p)]
      BY <1>5, <1>6, <3>1
    <3> QED
      BY <1>4, <3>1, <3>2 DEF Tasks
  <2>2. CASE i > Len(r)
    <3>1. i - Len(r) \in 1 .. Len(a) /\ Len(r) + (i - Len(r)) = i
      BY <1>4, <1>8, <2>2
    <3>2. s[i] = a[i - Len(r)]
      BY <1>6, <3>1
    <3> QED
      BY <1>4, <3>1, <3>2 DEF Tasks
  <2> QED
    BY <1>4, <2>1, <2>2
<1>9. Len(p) <= Len(s)
  BY <1>4
<1> QED
  BY <1>1, <1>2, <1>3, <1>4, <1>7, <1>8, <1>9 DEF ThreeFacts

\* The tasks that create a component.
LEMMA CreateTasks ==
  ASSUME TypeOK, NEW c \in Comp, NEW p, p = createTasks(c)
  PROVE  /\ p \in Seq(IOTask) /\ Ordered(p)
         /\ \A t \in Tasks(p) : /\ t.comp = c /\ TaskFact(c, t)
                                /\ t.op \in Creators \cup {"WRITE_VALUE", "WRITE_SHAPE"}
         /\ written[c] => p = <<>>
         /\ ~written[c] => 1 \in DOMAIN p /\ p[1].op \in Creators /\ p[1].comp = c
         /\ \A i \in DOMAIN p : p[i].op = "CREATE_GROUP" =>
              FollowedBy(p, i, "WRITE_VALUE") /\ FollowedBy(p, i, "WRITE_SHAPE")
<1> PICK g : g = Task("CREATE_GROUP", c, {}, 0)
  OBVIOUS
<1> PICK v : v = Task("WRITE_VALUE", c, {}, rc[c].value)
  OBVIOUS
<1> PICK h : h = Task("WRITE_SHAPE", c, rc[c].box, 0)
  OBVIOUS
<1> PICK d : d = Task("CREATE_DATASET", c, rc[c].box, 0)
  OBVIOUS
<1>1. /\ g.op = "CREATE_GROUP" /\ g.comp = c
      /\ v.op = "WRITE_VALUE" /\ v.comp = c /\ v.ver = rc[c].value
      /\ h.op = "WRITE_SHAPE" /\ h.comp = c /\ h.box = rc[c].box
      /\ d.op = "CREATE_DATASET" /\ d.comp = c /\ d.box = rc[c].box
  BY DEF Task
<1>2. g \in IOTask /\ v \in IOTask /\ h \in IOTask /\ d \in IOTask
  <2>1. rc[c] \in RecordComponent
    BY DEF TypeOK
  <2> QED
    BY <2>1, ComponentFields, TaskType, VersionTypes, CompAssumption DEF Operation, FileTasks
<1>3. p = IF written[c] THEN <<>> ELSE IF rc[c].constant THEN <<g, v, h>> ELSE <<d>>
  BY DEF createTasks
<1>4. CASE written[c]
  BY <1>3, <1>4, SmallQueues
<1>5. CASE ~written[c] /\ rc[c].constant
  <2>1. p \in Seq(IOTask) /\ Len(p) = 3 /\ DOMAIN p = {1, 2, 3} /\ p[1] = g /\ p[2] = v /\ p[3] = h
    BY <1>2, <1>3, <1>5
  <2>2. Tasks(p) = {g, v, h}
    BY <2>1 DEF Tasks
  <2>3. Ordered(p)
    <3>1. \A i \in DOMAIN p : p[i] \in {g, v, h}
      BY <2>1
    <3> QED
      BY <1>1, <3>1 DEF Ordered, InOrder, Deletions
  <2>4. \A t \in Tasks(p) : /\ t.comp = c /\ TaskFact(c, t)
                            /\ t.op \in Creators \cup {"WRITE_VALUE", "WRITE_SHAPE"}
    BY <1>1, <1>5, <2>2 DEF TaskFact, Creators
  <2>5. \A i \in DOMAIN p : p[i].op = "CREATE_GROUP" =>
          FollowedBy(p, i, "WRITE_VALUE") /\ FollowedBy(p, i, "WRITE_SHAPE")
    <3>1. 2 \in 1 + 1 .. Len(p) /\ 3 \in 1 + 1 .. Len(p)
      BY <2>1
    <3>2. \A i \in DOMAIN p : p[i].op = "CREATE_GROUP" => i = 1
      BY <1>1, <2>1
    <3> QED
      BY <1>1, <2>1, <3>1, <3>2 DEF FollowedBy
  <2> QED
    BY <1>1, <1>5, <2>1, <2>3, <2>4, <2>5 DEF Creators
<1>6. CASE ~written[c] /\ ~rc[c].constant
  <2>1. p = <<d>> /\ Tasks(p) = {d} /\ Ordered(p)
    BY <1>3, <1>6, SmallQueues
  <2>2. p \in Seq(IOTask) /\ DOMAIN p = {1} /\ p[1] = d
    BY <1>2, <2>1
  <2> QED
    BY <1>1, <1>6, <2>1, <2>2 DEF TaskFact, Creators
<1> QED
  BY <1>4, <1>5, <1>6

\* The task that writes the attribute.
LEMMA AttributeTasks ==
  ASSUME TypeOK, NEW c \in Comp, NEW a, a = attributeTasks(c)
  PROVE  /\ a \in Seq(IOTask) /\ Ordered(a)
         /\ \A t \in Tasks(a) : t.comp = c /\ t.op = "WRITE_ATT" /\ t.ver = rc[c].att
                                /\ rc[c].att # 0 /\ rc[c].dirty
         /\ rc[c].dirty /\ rc[c].att # 0 =>
              \E t \in Tasks(a) : t.op = "WRITE_ATT" /\ t.ver = rc[c].att
<1> PICK w : w = Task("WRITE_ATT", c, {}, rc[c].att)
  OBVIOUS
<1>1. w.op = "WRITE_ATT" /\ w.comp = c /\ w.ver = rc[c].att
  BY DEF Task
<1>2. w \in IOTask
  <2>1. rc[c] \in RecordComponent
    BY DEF TypeOK
  <2> QED
    BY <2>1, ComponentFields, TaskType, VersionTypes, CompAssumption DEF Operation, FileTasks
<1>3. a = IF rc[c].dirty /\ rc[c].att # 0 THEN <<w>> ELSE <<>>
  BY DEF attributeTasks
<1>4. CASE rc[c].dirty /\ rc[c].att # 0
  <2>1. a = <<w>> /\ Tasks(a) = {w} /\ Ordered(a)
    BY <1>3, <1>4, SmallQueues
  <2> QED
    BY <1>1, <1>2, <1>4, <2>1
<1>5. CASE ~(rc[c].dirty /\ rc[c].att # 0)
  BY <1>3, <1>5, SmallQueues
<1> QED
  BY <1>4, <1>5

\* What the visit enqueues, and in which order.
VisitFacts(c, s) ==
  /\ s \in Seq(IOTask) /\ Ordered(s)
  /\ \A t \in Tasks(s) :
       /\ t.comp = c
       /\ \/ t \in Tasks(rc[c].chunks)
          \/ access # "READ_ONLY" /\ t.op \in Creators \cup {"WRITE_VALUE", "WRITE_SHAPE"}
             /\ TaskFact(c, t) /\ ~written[c]
          \/ access # "READ_ONLY" /\ t.op = "WRITE_ATT" /\ t.ver = rc[c].att
             /\ rc[c].att # 0 /\ rc[c].dirty
  /\ Tasks(rc[c].chunks) \subseteq Tasks(s)
  /\ access # "READ_ONLY" /\ rc[c].dirty /\ rc[c].att # 0 =>
       \E t \in Tasks(s) : t.op = "WRITE_ATT" /\ t.ver = rc[c].att
  /\ ~written[c] => \E t \in Tasks(s) : t.op \in Creators
  /\ \A i \in DOMAIN s :
       /\ ~written[c] => i = 1 \/ \E j \in 1 .. i - 1 : s[j].op \in Creators /\ s[j].comp = c
       /\ ~written[c] /\ i = 1 => s[i].op \in Creators
       /\ s[i].op = "CREATE_GROUP" =>
            FollowedBy(s, i, "WRITE_VALUE") /\ FollowedBy(s, i, "WRITE_SHAPE")

LEMMA VisitTasks ==
  ASSUME TypeOK, QueueInv, phase = "flush", NEW c \in components,
         NEW s, s = componentTasks(c)
  PROVE  VisitFacts(c, s)
<1>1. /\ c \in Comp /\ CompInv(c) /\ Ordered(rc[c].chunks) /\ rc[c].chunks \in Seq(IOTask)
      /\ \A t \in Tasks(rc[c].chunks) : t.op \in Data /\ t.comp = c
  <2>1. c \in Comp /\ rc[c] \in RecordComponent
    BY DEF TypeOK
  <2> QED
    BY <2>1, ComponentFields DEF QueueInv, CompInv, TasksInv, OrderInv
<1> PICK q : q = rc[c].chunks
  OBVIOUS
<1>2. CASE access = "READ_ONLY"
  <2>1. s = q /\ written[c]
    BY <1>1, <1>2 DEF componentTasks, CompInv, CleanInv
  <2>2. \A i \in DOMAIN s : s[i] \in Tasks(q)
    BY <2>1 DEF Tasks
  <2>3. \A i \in DOMAIN s : s[i].op # "CREATE_GROUP"
    BY <1>1, <2>2 DEF Data
  <2> QED
    BY <1>1, <1>2, <2>1, <2>3 DEF VisitFacts
<1>3. CASE access # "READ_ONLY"
  <2> PICK p : p = createTasks(c)
    OBVIOUS
  <2> PICK a : a = attributeTasks(c)
    OBVIOUS
  <2>1. s = (p \o q) \o a
    BY <1>3 DEF componentTasks
  <2>2. /\ p \in Seq(IOTask) /\ Ordered(p)
        /\ \A t \in Tasks(p) : /\ t.comp = c /\ TaskFact(c, t)
                               /\ t.op \in Creators \cup {"WRITE_VALUE", "WRITE_SHAPE"}
        /\ written[c] => p = <<>>
        /\ ~written[c] => 1 \in DOMAIN p /\ p[1].op \in Creators /\ p[1].comp = c
        /\ \A i \in DOMAIN p : p[i].op = "CREATE_GROUP" =>
             FollowedBy(p, i, "WRITE_VALUE") /\ FollowedBy(p, i, "WRITE_SHAPE")
    BY <1>1, CreateTasks
  <2>3. /\ a \in Seq(IOTask) /\ Ordered(a)
        /\ \A t \in Tasks(a) : t.comp = c /\ t.op = "WRITE_ATT" /\ t.ver = rc[c].att
                               /\ rc[c].att # 0 /\ rc[c].dirty
        /\ rc[c].dirty /\ rc[c].att # 0 =>
             \E t \in Tasks(a) : t.op = "WRITE_ATT" /\ t.ver = rc[c].att
    BY <1>1, AttributeTasks
  <2>4. AllInOrder(Tasks(p), Tasks(q)) /\ AllInOrder(Tasks(p) \cup Tasks(q), Tasks(a))
    BY <1>1, <2>2, <2>3 DEF AllInOrder, InOrder, Creators, Data, Deletions
  <2>5. /\ s \in Seq(IOTask) /\ Tasks(s) = Tasks(p) \cup Tasks(q) \cup Tasks(a)
        /\ Len(p) \in Nat /\ Len(s) \in Nat /\ Len(p) <= Len(s)
        /\ DOMAIN s = 1 .. Len(s) /\ DOMAIN p = 1 .. Len(p)
        /\ \A i \in 1 .. Len(p) : s[i] = p[i]
        /\ \A i \in 1 .. Len(s) : i > Len(p) => s[i] \in Tasks(q) \cup Tasks(a)
        /\ Ordered(s)
    <3>1. p \in Seq(IOTask) /\ q \in Seq(IOTask) /\ a \in Seq(IOTask)
      BY <1>1, <2>2, <2>3
    <3>2. Ordered(p) /\ Ordered(q) /\ Ordered(a) /\ AllInOrder(Tasks(p), Tasks(q))
          /\ AllInOrder(Tasks(p) \cup Tasks(q), Tasks(a))
      BY <1>1, <2>2, <2>3, <2>4
    <3>3. ThreeFacts(p, q, a, (p \o q) \o a)
      BY <3>1, ThreeQueues
    <3>4. ThreeFacts(p, q, a, s)
      BY <2>1, <3>3
    <3> QED
      BY <3>2, <3>4 DEF ThreeFacts
  <2>6. \A t \in Tasks(p) : ~written[c]
    BY <2>2, SmallQueues
  <2>7. \A t \in Tasks(s) : t \in Tasks(p) \/ t \in Tasks(q) \/ t \in Tasks(a)
    BY <2>5
  <2>8. ~written[c] => 1 \in DOMAIN s /\ s[1].op \in Creators /\ s[1].comp = c /\ s[1] \in Tasks(s)
    BY <2>2, <2>5 DEF Tasks
  <2>9. \A i \in DOMAIN s : i = 1 \/ 1 \in 1 .. i - 1
    BY <2>5
  <2>10. ASSUME NEW i \in DOMAIN s, s[i].op = "CREATE_GROUP"
         PROVE  FollowedBy(s, i, "WRITE_VALUE") /\ FollowedBy(s, i, "WRITE_SHAPE")
    <3>1. i <= Len(p)
      <4> SUFFICES ASSUME i > Len(p) PROVE FALSE
        BY <2>5
      <4>1. s[i] \in Tasks(q) \cup Tasks(a)
        BY <2>5
      <4> QED
        BY <1>1, <2>3, <2>10, <4>1 DEF Data
    <3>2. i \in DOMAIN p /\ s[i] = p[i]
      BY <2>5, <3>1
    <3>3. FollowedBy(p, i, "WRITE_VALUE") /\ FollowedBy(p, i, "WRITE_SHAPE")
      BY <2>2, <2>10, <3>2
    <3>4. \A j \in i + 1 .. Len(p) : j \in i + 1 .. Len(s) /\ s[j] = p[j]
      BY <2>5, <3>2
    <3> QED
      BY <3>2, <3>3, <3>4 DEF FollowedBy
  <2>11. \A i \in DOMAIN s :
           ~written[c] => i = 1 \/ \E j \in 1 .. i - 1 : s[j].op \in Creators /\ s[j].comp = c
    BY <2>8, <2>9
  <2>12. ~written[c] => \E t \in Tasks(s) : t.op \in Creators
    BY <2>8
  <2>13. \A t \in Tasks(s) : t.comp = c
    BY <1>1, <2>2, <2>3, <2>7
  <2>14. \A t \in Tasks(s) :
           \/ t \in Tasks(rc[c].chunks)
           \/ t.op \in Creators \cup {"WRITE_VALUE", "WRITE_SHAPE"} /\ TaskFact(c, t) /\ ~written[c]
           \/ t.op = "WRITE_ATT" /\ t.ver = rc[c].att /\ rc[c].att # 0 /\ rc[c].dirty
    BY <2>2, <2>3, <2>6, <2>7
  <2>15. /\ Tasks(rc[c].chunks) \subseteq Tasks(s)
         /\ rc[c].dirty /\ rc[c].att # 0 =>
              \E t \in Tasks(s) : t.op = "WRITE_ATT" /\ t.ver = rc[c].att
    BY <2>3, <2>5
  <2> QED
    BY <1>3, <2>5, <2>8, <2>10, <2>11, <2>12, <2>13, <2>14, <2>15 DEF VisitFacts
<1> QED
  BY <1>2, <1>3


\* There is always a component that comes next.
LEMMA LeastExists ==
  ASSUME NEW S \in SUBSET Nat, S # {}
  PROVE  Least(S) \in S
<1>1. PICK c \in S : \A d \in S : <<d, c>> \notin OpToRel(<, Nat)
  BY WFMin, NatLessThanWellFounded, Zenon
<1>2. \A d \in S : ~(d < c)
  BY <1>1, Zenon DEF OpToRel
<1>3. \A d \in S : c <= d
  BY <1>2
<1> QED
  BY <1>3 DEF Least

\* They come behind what the queue has already.
LEMMA VisitEnqueues ==
  ASSUME TypeOK, QueueInv, NEW c \in Comp, Visit(c), NEW s, s = componentTasks(c)
  PROVE  VisitFacts(c, s) /\ Enqueued(s) /\ c \in components /\ CompInv(c)
<1>1. /\ phase = "flush" /\ c \in todo /\ c \in components /\ CompInv(c)
      /\ m_work' = m_work \o s /\ UNCHANGED <<fixed, flags, isOpen, file, components>>
      /\ rc \in [Comp -> RecordComponent]
      /\ rc' = [rc EXCEPT ![c].chunks = <<>>, ![c].dirty = @ /\ access = "READ_ONLY"]
  <2>1. c \in todo
    <3>1. todo # {} /\ c = Least(todo) /\ todo \subseteq components /\ components \subseteq Comp
      BY DEF Visit, TypeOK
    <3>2. todo \in SUBSET Nat
      BY <3>1, CompAssumption
    <3> QED
      BY <3>1, <3>2, LeastExists
  <2> QED
    BY <2>1 DEF Visit, TypeOK, enqueue, QueueInv
<1>2. VisitFacts(c, s)
  BY <1>1, VisitTasks
<1>3. AllInOrder(Tasks(m_work), Tasks(s))
  <2> SUFFICES ASSUME NEW t \in TasksOf(c), NEW u \in Tasks(s) PROVE InOrder(t, u)
    BY <1>2 DEF AllInOrder, TasksOf, InOrder, VisitFacts
  <2>1. TaskFact(c, t)
    BY <1>1 DEF CompInv, TasksInv
  <2>2. CASE u \in Tasks(rc[c].chunks)
    BY <1>1, <2>2 DEF QueueInv, OrderInv, AllInOrder, TasksOf
  <2>3. CASE u \notin Tasks(rc[c].chunks)
    <3>1. \/ u.op \in Creators \cup {"WRITE_VALUE", "WRITE_SHAPE"} /\ ~written[c]
          \/ u.op = "WRITE_ATT" /\ u.ver = rc[c].att /\ rc[c].dirty
      BY <1>2, <2>3 DEF VisitFacts
    <3>2. t.op # "DELETE_PATH"
      BY <2>1, <3>1 DEF TaskFact
    <3>3. t.op = "WRITE_ATT" /\ u.op = "WRITE_ATT" => t.ver <= u.ver
      BY <2>1, <3>1 DEF TaskFact, Creators
    <3> QED
      BY <3>1, <3>2, <3>3 DEF InOrder, Creators, Deletions
  <2> QED
    BY <2>2, <2>3
<1>4. \A d \in components : \/ rc'[d].chunks = <<>>
                            \/ rc'[d].chunks = rc[d].chunks /\ AllInOrder(Tasks(s), Tasks(rc[d].chunks))
  <2> TAKE d \in components
  <2>1. CASE d = c
    BY <1>1, <2>1 DEF RecordComponent
  <2>2. CASE d # c
    <3>1. d \in Comp /\ rc'[d] = rc[d]
      BY <1>1, <2>2 DEF TypeOK
    <3>2. \A u \in Tasks(rc[d].chunks) : u.comp = d
      BY <3>1 DEF QueueInv, CompInv, TasksInv, Visit
    <3> QED
      BY <1>2, <2>2, <3>1, <3>2 DEF AllInOrder, InOrder, VisitFacts
  <2> QED
    BY <2>1, <2>2
<1>5. \A i \in DOMAIN s : ReadyBehind(m_work, s, i)
  <2> TAKE i \in DOMAIN s
  <2>1. s[i].comp = c
    BY <1>2 DEF VisitFacts, Tasks
  <2>2. isOpen \/ \E t \in Tasks(m_work) : t.op \in Openers
    BY <1>1 DEF QueueInv, PhaseInv
  <2>3. /\ ~written[c] => i = 1 \/ \E j \in 1 .. i - 1 : s[j].op \in Creators /\ s[j].comp = c
        /\ ~written[c] /\ i = 1 => s[i].op \in Creators
        /\ s[i].op = "CREATE_GROUP" =>
             FollowedBy(s, i, "WRITE_VALUE") /\ FollowedBy(s, i, "WRITE_SHAPE")
    BY <1>2 DEF VisitFacts
  <2> QED
    BY <2>1, <2>2, <2>3 DEF ReadyBehind, Creators, Data, Attributes
<1> QED
  BY <1>1, <1>2, <1>3, <1>4, <1>5 DEF Enqueued, VisitFacts

LEMMA VisitKeeps ==
  ASSUME TypeOK, TypeOK', CallInv, QueueInv, NEW c \in Comp, Visit(c)
  PROVE  QueueInv'
<1> PICK s : s = componentTasks(c)
  OBVIOUS
<1>1. VisitFacts(c, s) /\ Enqueued(s) /\ c \in components /\ CompInv(c)
  BY VisitEnqueues
<1>2. /\ phase = "flush" /\ phase' = "flush" /\ call' = call /\ result' = result
      /\ UNCHANGED <<fixed, flags, isOpen, file, components, stored, doomed, changes>>
      /\ todo' = todo \ {c} /\ FileTaskInv /\ PhaseInv
      /\ rc \in [Comp -> RecordComponent] /\ rc[c] \in RecordComponent
      /\ rc' = [rc EXCEPT ![c].chunks = <<>>, ![c].dirty = @ /\ access = "READ_ONLY"]
  BY DEF Visit, TypeOK, counters, QueueInv
<1>3. /\ OrderInv' /\ ReadyInv' /\ FileInv'
      /\ Tasks(m_work)' = Tasks(m_work) \cup Tasks(s)
      /\ \A d \in Comp : /\ node(d)' = node(d) /\ written'[d] = written[d]
                         /\ TasksOf(d)' = TasksOf(d) \cup {t \in Tasks(s) : t.comp = d}
  BY <1>1, <1>2, EnqueuedKeeps
<1>4. /\ rc'[c].chunks = <<>> /\ (rc'[c].dirty <=> rc[c].dirty /\ access = "READ_ONLY")
      /\ rc'[c].constant = rc[c].constant /\ rc'[c].box = rc[c].box
      /\ rc'[c].value = rc[c].value /\ rc'[c].att = rc[c].att
      /\ \A d \in Comp \ {c} : rc'[d] = rc[d]
  BY <1>2 DEF RecordComponent
<1>5. ~rc'[c].dirty /\ (access = "READ_ONLY" => ~rc[c].dirty /\ written[c])
  BY <1>1, <1>4 DEF CompInv, CleanInv
<1>6. \A d \in Comp : ~Erasing(d) /\ ~Deleting(d) /\ ~Erasing(d)' /\ ~Deleting(d)'
                      /\ (Lost(d)' <=> Lost(d))
  BY <1>2 DEF CallInv, Erasing, Deleting, Lost
<1>7. TasksOf(c)' = TasksOf(c) \cup Tasks(s)
  <2>1. {t \in Tasks(s) : t.comp = c} = Tasks(s)
    BY <1>1 DEF VisitFacts
  <2> QED
    BY <1>3, <2>1
<1>8. Tasks(rc[c].chunks)' = {}
  BY <1>4, SmallQueues DEF Tasks
<1>9. Outstanding(c) \subseteq Outstanding(c)' /\ TasksOf(c) \subseteq TasksOf(c)'
  BY <1>1, <1>7 DEF Outstanding, VisitFacts
<1>10. /\ node(c)' = node(c) /\ written'[c] = written[c] /\ UNCHANGED <<access, backend, isOpen>>
       /\ \A o : Queued(o, c) => Queued(o, c)'
  BY <1>2, <1>3, <1>9 DEF Queued, fixed
<1>11. \A t : ChunkFact(c, t) => ChunkFact(c, t)'
  BY <1>2, <1>4, <1>9, <1>10 DEF ChunkFact, StoreFact, LoadFact, Stores
<1>12. \A t : TaskFact(c, t) => TaskFact(c, t)'
  BY <1>2, <1>4, <1>5, <1>6, <1>10 DEF TaskFact
<1>13. TasksInv(c)'
  <2>1. ASSUME NEW t \in TasksOf(c) PROVE TaskFact(c, t)' /\ ChunkFact(c, t)'
    BY <1>1, <1>11, <1>12 DEF CompInv, TasksInv
  <2>2. ASSUME NEW t \in Tasks(s) PROVE TaskFact(c, t)' /\ ChunkFact(c, t)'
    <3>1. CASE t \in Tasks(rc[c].chunks)
      <4>1. t.op \in Data /\ ChunkFact(c, t)
        BY <1>1, <3>1 DEF CompInv, TasksInv
      <4>2. TaskFact(c, t)
        BY <4>1 DEF TaskFact, Data
      <4> QED
        BY <1>11, <1>12, <4>1, <4>2
    <3>2. CASE t.op \in Creators \cup {"WRITE_VALUE", "WRITE_SHAPE"} /\ TaskFact(c, t)
      <4>1. ChunkFact(c, t)
        BY <3>2 DEF ChunkFact, Data, Creators
      <4> QED
        BY <1>11, <1>12, <3>2, <4>1
    <3>3. CASE t.op = "WRITE_ATT" /\ t.ver = rc[c].att /\ rc[c].att # 0
      <4>1. ChunkFact(c, t)
        BY <3>3 DEF ChunkFact, Data
      <4>2. node(c).att <= rc[c].att /\ rc[c].att \in Nat
        BY <1>1, <3>3, Numbers DEF CompInv, AttInv
      <4>3. TaskFact(c, t)
        BY <3>3, <4>2 DEF TaskFact
      <4> QED
        BY <1>11, <1>12, <4>1, <4>3
    <3> QED
      BY <1>1, <3>1, <3>2, <3>3 DEF VisitFacts
  <2> QED
    BY <1>1, <1>2, <1>7, <1>8, <2>1, <2>2 DEF TasksInv
<1>14. NodeInv(c)'
  BY <1>1, <1>2, <1>4, <1>10 DEF NodeInv, Declared, CompInv
<1>15. CellInv(c)'
  BY <1>1, <1>2, <1>6, <1>9, <1>10 DEF CellInv, CompInv
<1>16. AttInv(c)'
  <2>1. ASSUME ~Lost(c), rc[c].att # 0
        PROVE  node(c).att = rc[c].att \/ \E t \in TasksOf(c)' : t.op = "WRITE_ATT" /\ t.ver = rc[c].att
    <3>1. CASE rc[c].dirty
      BY <1>1, <1>5, <1>7, <2>1, <3>1 DEF VisitFacts
    <3>2. CASE ~rc[c].dirty
      BY <1>1, <1>6, <1>9, <2>1, <3>2 DEF CompInv, AttInv
    <3> QED
      BY <3>1, <3>2
  <2> QED
    BY <1>1, <1>2, <1>4, <1>6, <1>10, <2>1 DEF AttInv, CompInv
<1>17. DeletionInv(c)'
  BY <1>6 DEF DeletionInv
<1>18. CleanInv(c)'
  <2>1. written[c] \/ \E o \in Creators : Queued(o, c)'
    <3>1. ~written[c] => \E t \in Tasks(s) : t.op \in Creators
      BY <1>1 DEF VisitFacts
    <3> QED
      BY <1>7, <3>1 DEF Queued
  <2> QED
    BY <1>5, <1>10, <2>1 DEF CleanInv
<1>19. ASSUME NEW d \in Comp, d # c PROVE CompInv(d)'
  <2>1. changes \in Nat /\ CompInv(d)
    BY Numbers DEF QueueInv, Visit
  <2>2. Kept(d)
    BY <1>2, <1>4, <1>6, <1>19, <2>1 DEF Kept
  <2>3. TasksOf(d)' = TasksOf(d)
    <3>1. {t \in Tasks(s) : t.comp = d} = {}
      BY <1>1, <1>19 DEF VisitFacts
    <3>2. TasksOf(d)' = TasksOf(d) \cup {t \in Tasks(s) : t.comp = d}
      BY <1>3
    <3> QED
      BY <3>1, <3>2
  <2> QED
    BY <1>3, <2>1, <2>2, <2>3, Undisturbed
<1>20. FileTaskInv'
  <2>1. \A t \in Tasks(s) : t.op \notin FileTasks /\ (t.op \in Writers => access # "READ_ONLY")
    <3> TAKE t \in Tasks(s)
    <3>1. CASE t \in Tasks(rc[c].chunks)
      <4>1. t.op \in Data /\ ChunkFact(c, t)
        BY <1>1, <3>1 DEF CompInv, TasksInv
      <4> QED
        BY <4>1 DEF ChunkFact, StoreFact, Data, FileTasks, Writers, Readers
    <3>2. CASE t \notin Tasks(rc[c].chunks)
      BY <1>1, <3>2 DEF VisitFacts, FileTasks, Creators
    <3> QED
      BY <3>1, <3>2
  <2>2. call.op # "construct"
    BY <1>2 DEF FileTaskInv
  <2> QED
    BY <1>2, <1>3, <1>10, <2>1, <2>2 DEF FileTaskInv, FileTasks, fixed
<1>21. PhaseInv'
  <2>1. \A d \in components' : d \notin todo' => ~rc'[d].dirty /\ rc'[d].chunks = <<>>
    BY <1>2, <1>4, <1>5 DEF PhaseInv, TypeOK
  <2>2. UNCHANGED <<access, isOpen, fileWritten>>
    BY <1>2 DEF fixed, flags
  <2> QED
    <3>1. /\ isOpen \/ \E t \in Tasks(m_work) : t.op \in Openers
          /\ access = "CREATE" => fileWritten \/ \E t \in Tasks(m_work) : t.op = "CREATE_FILE"
          /\ result # "flushed"
      BY <1>2 DEF PhaseInv
    <3>2. /\ isOpen' \/ \E t \in Tasks(m_work)' : t.op \in Openers
          /\ access' = "CREATE" => fileWritten' \/ \E t \in Tasks(m_work)' : t.op = "CREATE_FILE"
      BY <1>3, <2>2, <3>1
    <3>3. phase' = "flush" /\ result' # "flushed" /\ ~Visits'
      BY <1>2, <3>1 DEF Visits
    <3> QED
      BY <2>1, <3>2, <3>3 DEF PhaseInv
<1> QED
  BY <1>3, <1>13, <1>14, <1>15, <1>16, <1>17, <1>18, <1>19, <1>20, <1>21 DEF QueueInv, CompInv

-----------------------------------------------------------------------------
(* A call comes to its end.                                                *)

\* Steps that leave the backend and the chunks alone.
LEMMA QuietKeeps ==
  ASSUME TypeOK, QueueInv, phase # "gone", UNCHANGED <<fixed, m_work, flags, isOpen, file>>,
         \A d \in components' : d \in components /\ rc'[d].chunks = rc[d].chunks
  PROVE  /\ OrderInv' /\ ReadyInv' /\ FileInv' /\ Tasks(m_work)' = Tasks(m_work)
         /\ \A d \in Comp : /\ node(d)' = node(d) /\ written'[d] = written[d]
                            /\ TasksOf(d)' = TasksOf(d)
<1>1. /\ ReadyInv' /\ OrderInv' /\ Tasks(m_work)' = Tasks(m_work)
      /\ \A d \in Comp : TasksOf(d)' = TasksOf(d)
  BY QueueStays
<1>2. contents' = contents /\ Legible' = Legible /\ \A d \in Comp : node(d)' = node(d)
  BY SameContents DEF file
<1>3. FileInv'
  <2>1. FileInv /\ (Pending => Pending')
    BY SeqTypes, PendingStays DEF QueueInv
  <2> QED
    BY <1>2, <2>1 DEF FileInv, fixed, flags, file
<1> QED
  BY <1>1, <1>2, <1>3 DEF flags

LEMMA VisitedKeeps ==
  ASSUME TypeOK, TypeOK', QueueInv, Visited
  PROVE  QueueInv'
<1>1. /\ phase = "flush" /\ todo = {} /\ phase' = "drain" /\ call' = call /\ result' = result
      /\ UNCHANGED <<fixed, m_work, flags, isOpen, file, components, rc, stored, doomed, changes>>
      /\ FileTaskInv /\ PhaseInv /\ call.op # "construct"
  BY DEF Visited, backendVars, frontend, counters, QueueInv, FileTaskInv
<1>2. /\ OrderInv' /\ ReadyInv' /\ FileInv' /\ Tasks(m_work)' = Tasks(m_work)
      /\ \A d \in Comp : /\ node(d)' = node(d) /\ written'[d] = written[d]
                         /\ TasksOf(d)' = TasksOf(d)
  BY <1>1, QuietKeeps
<1>3. ASSUME NEW d \in Comp PROVE CompInv(d)'
  <2>1. changes \in Nat /\ CompInv(d)
    BY <1>1, Numbers DEF QueueInv
  <2>2. Kept(d)
    BY <1>1, <2>1 DEF Kept, Lost, Erasing, Deleting
  <2> QED
    BY <1>2, <2>1, <2>2, Undisturbed
<1>4. FileTaskInv'
  BY <1>1, <1>2 DEF FileTaskInv, fixed
<1>5. PhaseInv'
  BY <1>1, <1>2 DEF PhaseInv, Visits, fixed, flags
<1> QED
  BY <1>2, <1>3, <1>4, <1>5 DEF QueueInv

\* The deletion is done: what it was about leaves the frontend, too.
LEMMA DrainedKeeps ==
  ASSUME TypeOK, TypeOK', CallInv, QueueInv, Drained
  PROVE  QueueInv'
<1> SUFFICES ASSUME phase' # "gone" PROVE QueueInv'
  BY DEF QueueInv
<1>1. /\ phase = "drain" /\ m_work = <<>> /\ phase' = "idle" /\ call'.op = "none"
      /\ UNCHANGED <<fixed, m_work, flags, isOpen, file, stored, changes>>
      /\ components' = IF call.op = "erase" THEN components \ {call.comp} ELSE components
      /\ doomed' = IF call.op = "erase" THEN doomed \ {call.comp} ELSE doomed
      /\ rc' = IF call.op = "deleteAttribute" THEN [rc EXCEPT ![call.comp].att = 0] ELSE rc
      /\ rc \in [Comp -> RecordComponent] /\ components \subseteq Comp
      /\ FileTaskInv /\ PhaseInv
  BY DEF Drained, untouched, counters, NoCall, Call, QueueInv, TypeOK
<1>2. \A d \in Comp :
        /\ rc'[d].chunks = rc[d].chunks /\ rc'[d].dirty = rc[d].dirty
        /\ rc'[d].constant = rc[d].constant /\ rc'[d].box = rc[d].box
        /\ rc'[d].value = rc[d].value
        /\ rc'[d].att = IF Deleting(d) THEN 0 ELSE rc[d].att
        /\ ~Deleting(d) => rc'[d] = rc[d]
  <2> TAKE d \in Comp
  <2>1. CASE Deleting(d)
    <3>1. rc'[d] = [rc[d] EXCEPT !.att = 0]
      BY <1>1, <2>1 DEF Deleting
    <3> QED
      BY <1>1, <2>1, <3>1 DEF RecordComponent
  <2>2. CASE ~Deleting(d)
    <3>1. rc'[d] = rc[d]
      BY <1>1, <2>2 DEF Deleting
    <3> QED
      BY <2>2, <3>1
  <2> QED
    BY <2>1, <2>2
<1>3. /\ OrderInv' /\ ReadyInv' /\ FileInv' /\ Tasks(m_work)' = Tasks(m_work)
      /\ \A d \in Comp : /\ node(d)' = node(d) /\ written'[d] = written[d]
                         /\ TasksOf(d)' = TasksOf(d)
  <2>1. \A d \in components' : d \in components /\ rc'[d].chunks = rc[d].chunks
    BY <1>1, <1>2
  <2> QED
    BY <1>1, <2>1, QuietKeeps
<1>4. \A d \in Comp : TasksOf(d) = {} /\ ~Erasing(d)' /\ ~Deleting(d)' /\ CompInv(d)
                      /\ \A o : ~Queued(o, d)
  <2>1. Tasks(m_work) = {}
    BY <1>1, SmallQueues
  <2> QED
    BY <1>1, <2>1 DEF TasksOf, Erasing, Deleting, QueueInv, Queued
<1>5. ASSUME NEW d \in Comp, Erasing(d) PROVE CompInv(d)'
  <2>1. d \notin components' /\ ~written[d] /\ TasksOf(d)' = {}
    BY <1>1, <1>3, <1>4, <1>5 DEF Erasing, CompInv, DeletionInv
  <2>2. NodeInv(d)'
    BY <1>3, <1>4, <2>1 DEF CompInv, NodeInv
  <2>3. CellInv(d)'
    BY <1>1, <1>4, <2>1 DEF CompInv, CellInv
  <2> QED
    BY <1>4, <2>1, <2>2, <2>3 DEF CompInv, TasksInv, AttInv, DeletionInv, CleanInv
<1>6. ASSUME NEW d \in Comp, Deleting(d) PROVE CompInv(d)'
  <2>1. /\ rc'[d].att = 0 /\ ~Erasing(d) /\ UNCHANGED <<access, backend, isOpen>>
        /\ (Lost(d)' <=> Lost(d)) /\ (d \in components' <=> d \in components)
    BY <1>1, <1>2, <1>4, <1>6 DEF Deleting, Erasing, Lost, fixed
  <2>2. Tasks(rc[d].chunks)' = Tasks(rc[d].chunks) /\ Outstanding(d)' = Outstanding(d)
    BY <1>2, <1>3 DEF Tasks, Outstanding
  <2>3. \A t : ChunkFact(d, t) => ChunkFact(d, t)'
    BY <1>1, <1>2, <1>3, <2>1, <2>2 DEF ChunkFact, StoreFact, LoadFact, Stores
  <2>4. TasksInv(d)'
    BY <1>3, <1>4, <2>1, <2>2, <2>3 DEF TasksInv, CompInv
  <2>5. NodeInv(d)' /\ CleanInv(d)'
    BY <1>2, <1>3, <1>4, <2>1 DEF NodeInv, Declared, CleanInv, CompInv
  <2>6. CellInv(d)'
    BY <1>1, <1>3, <1>4, <2>1, <2>2 DEF CellInv, CompInv, Stores
  <2>7. AttInv(d)'
    <3>1. backend = "HDF5" => node(d).att = 0
      BY <1>4, <1>6 DEF CompInv, DeletionInv
    <3>2. changes \in Nat
      BY Numbers, <1>6
    <3> QED
      BY <1>1, <1>3, <1>4, <2>1, <3>1, <3>2 DEF AttInv, CompInv
  <2> QED
    BY <1>4, <2>4, <2>5, <2>6, <2>7 DEF CompInv, DeletionInv
<1>7. ASSUME NEW d \in Comp, ~Erasing(d), ~Deleting(d) PROVE CompInv(d)'
  <2>1. changes \in Nat
    BY Numbers, <1>7
  <2>2. Kept(d)
    BY <1>1, <1>2, <1>4, <1>7, <2>1 DEF Kept, Lost, Erasing
  <2> QED
    BY <1>3, <1>4, <2>2, Undisturbed
<1>8. FileTaskInv'
  <2>1. parseTasks # <<>>
    BY ParseTasks
  <2> QED
    BY <1>1, <1>3, <2>1, SmallQueues DEF FileTaskInv, fixed
<1>9. PhaseInv'
  BY <1>1 DEF PhaseInv, Visits
<1> QED
  BY <1>3, <1>5, <1>6, <1>7, <1>8, <1>9 DEF QueueInv

-----------------------------------------------------------------------------
(* The invariant.                                                          *)

LEMMA QueueNext ==
  ASSUME TypeOK, TypeOK', CallInv, QueueInv, [Next]_vars
  PROVE  QueueInv'
<1>1. CASE \E c \in Comp :
             \/ Component(c) \/ makeConstant(c) \/ EraseUnwritten(c)
             \/ \E e \in 0 .. MaxExtent : resetDataset(c, e)
  BY <1>1, DeclarationKeeps
<1>2. CASE \E c \in Comp : \E b \in SUBSET Cell : storeChunk(c, b) \/ loadChunk(c, b)
  BY <1>2, ChunkKeeps
<1>3. CASE \E c \in Comp : setAttribute(c)
  BY <1>3, SetAttributeKeeps
<1>4. CASE \E c \in Comp : EraseWritten(c)
  BY <1>4, EraseKeeps
<1>5. CASE \E c \in Comp : DeleteAttribute(c)
  BY <1>5, DeleteAttributeKeeps
<1>6. CASE \E c \in Comp : AvailableChunks(c)
  BY <1>6, AvailableChunksKeeps
<1>7. CASE \E c \in Comp : Visit(c)
  BY <1>7, VisitKeeps
<1>8. CASE flush \/ Destroy \/ FlushEmpty
  BY <1>8, FlushKeeps
<1>9. CASE Visited
  BY <1>9, VisitedKeeps
<1>10. CASE Drain
  BY <1>10, DrainKeeps
<1>11. CASE Drained
  BY <1>11, DrainedKeeps
<1>12. CASE HandlerThrows
  BY <1>12, HandlerThrowsKeeps
<1>13. CASE WriteThrows
  BY <1>13, WriteThrowsKeeps
<1>14. CASE UNCHANGED vars
  <2>1. /\ UNCHANGED <<fixed, m_work, flags, isOpen, file>> /\ UNCHANGED <<phase, call, todo, result>>
        /\ UNCHANGED <<components, rc, stored, doomed, changes>>
    BY <1>14 DEF vars, backendVars, frontend, control, counters
  <2>2. CASE phase = "gone"
    BY <2>1, <2>2 DEF QueueInv
  <2>3. CASE phase # "gone"
    <3>1. FileTaskInv /\ PhaseInv
      BY <2>3 DEF QueueInv
    <3>2. /\ OrderInv' /\ ReadyInv' /\ FileInv' /\ Tasks(m_work)' = Tasks(m_work)
          /\ \A d \in Comp : /\ node(d)' = node(d) /\ written'[d] = written[d]
                             /\ TasksOf(d)' = TasksOf(d)
      BY <2>1, <2>3, QuietKeeps
    <3>3. ASSUME NEW d \in Comp PROVE CompInv(d)'
      <4>1. changes \in Nat /\ CompInv(d)
        BY <2>3, <3>3, Numbers DEF QueueInv
      <4>2. Kept(d)
        BY <2>1, <4>1 DEF Kept, Lost, Erasing, Deleting
      <4> QED
        BY <3>2, <4>1, <4>2, Undisturbed
    <3>4. FileTaskInv'
      <4>1. parseTasks' = parseTasks
        BY <2>1 DEF parseTasks, fixed
      <4> QED
        BY <2>1, <3>1, <3>2, <4>1 DEF FileTaskInv, fixed
    <3>5. PhaseInv'
      BY <2>1, <3>1, <3>2 DEF PhaseInv, Visits, fixed, flags
    <3> QED
      BY <3>2, <3>3, <3>4, <3>5 DEF QueueInv
  <2> QED
    BY <2>2, <2>3
<1> QED
  BY <1>1, <1>2, <1>3, <1>4, <1>5, <1>6, <1>7, <1>8, <1>9, <1>10, <1>11, <1>12, <1>13, <1>14
     DEF Next

\* A file that an earlier program has written is about to be parsed.
LEMMA ExistingFile ==
  ASSUME Init, TypeOK, access # "CREATE", NEW c \in Comp
  PROVE  /\ node(c) = disk[c] /\ Legible /\ node(c) \in ExistingNode
         /\ c \in components <=> node(c).kind # "none"
         /\ c \notin components => node(c) = NoNode
         /\ c \in components =>
              /\ rc[c].box = node(c).box /\ (rc[c].constant <=> node(c).kind = "group")
              /\ rc[c].value = node(c).value /\ rc[c].att = node(c).att
              /\ ~rc[c].dirty /\ rc[c].chunks = <<>>
         /\ stored[c] = node(c).cells
         /\ node(c).att <= 1 /\ \A k \in Cell : node(c).cells[k] <= 1
         /\ node(c).kind \in {"none", "dataset", "group"}
<1>1. /\ m_jsonVals = None /\ disk \in AllFiles /\ HandlersTypeOK
      /\ components = {d \in Comp : disk[d].kind # "none"}
      /\ rc = [d \in Comp |-> IF disk[d].kind = "none" THEN NewComponent ELSE Parsed(disk[d])]
      /\ stored = [d \in Comp |-> disk[d].cells]
  BY ExistingAssumption DEF Init, InitContents, TypeOK
<1>2. disk \in [Comp -> ExistingNode]
  BY <1>1 DEF AllFiles
<1>3. disk \notin {None, Torn}
  <2>1. disk \in Contents
    BY <1>2, ExistingNodes DEF Contents
  <2> QED
    BY <2>1, FileAssumption
<1>4. contents = disk /\ Legible /\ node(c) = disk[c]
  BY <1>1, <1>3 DEF contents, Legible, node
<1>5. PICK n : n = disk[c]
  OBVIOUS
<1>6. n \in ExistingNode /\ node(c) = n
  BY <1>2, <1>4, <1>5
<1>7. /\ n.kind \in {"none", "dataset", "group"} /\ (n.kind = "none" => n = NoNode)
      /\ n.att <= 1 /\ \A k \in Cell : n.cells[k] <= 1
  <2>1. CASE n = NoNode
    BY <2>1, NoNodeFields
  <2>2. CASE n = [NoNode EXCEPT !.kind = "dataset", !.box = Cell, !.att = 1,
                                !.cells = [k \in Cell |-> IF k = 1 THEN 0 ELSE 1]]
    <3>1. /\ n.kind = "dataset" /\ n.att = 1
          /\ n.cells = [k \in Cell |-> IF k = 1 THEN 0 ELSE 1]
      BY <2>2 DEF NoNode
    <3> QED
      BY <3>1
  <2>3. CASE n = [NoNode EXCEPT !.kind = "group", !.box = Cell, !.value = 1]
    <3>1. n.kind = "group" /\ n.att = 0 /\ n.cells = Nothing
      BY <2>3 DEF NoNode
    <3> QED
      BY <3>1 DEF Nothing
  <2> QED
    BY <1>6, <2>1, <2>2, <2>3 DEF ExistingNode
<1>8. n.kind # "none" => rc[c] = Parsed(n)
  BY <1>1, <1>5
<1>9. LET r == Parsed(n)
      IN /\ r.box = n.box /\ (r.constant <=> n.kind = "group") /\ r.value = n.value
         /\ r.att = n.att /\ ~r.dirty /\ r.chunks = <<>>
  BY DEF Parsed, NewComponent
<1> QED
  BY <1>1, <1>4, <1>5, <1>6, <1>7, <1>8, <1>9

LEMMA QueueInit == Init => QueueInv
<1> SUFFICES ASSUME Init PROVE QueueInv
  OBVIOUS
<1>0. TypeOK
  BY TypesInit
<1>1. /\ fileWritten = FALSE /\ isOpen = FALSE /\ m_jsonVals = None /\ m_dirty = FALSE
      /\ doomed = {} /\ todo = {} /\ result = "none" /\ changes = 0
      /\ written = [c \in Comp |-> c \in components]
      /\ access = "CREATE" => encoding = "groupBased"
  <2>1. PICK m \in AllModes : access = m[1] /\ encoding = m[3]
    BY ModesAssumption DEF Init
  <2>2. m[1] = "CREATE" => m[3] = "groupBased"
    BY DEF AllModes
  <2> QED
    BY <2>1, <2>2 DEF Init
<1>2. CASE access = "CREATE"
  <2>1. /\ disk = None /\ components = {} /\ stored = [c \in Comp |-> Nothing]
        /\ m_work = <<>> /\ phase = "idle" /\ call.op = "none" /\ encoding = "groupBased"
    BY <1>1, <1>2 DEF Init, InitContents, NoCall, Call
  <2>2. \A c \in Comp : TasksOf(c) = {} /\ node(c) = NoNode
    BY <1>1, <2>1, SmallQueues DEF TasksOf, node, Legible, contents
  <2>3. ASSUME NEW c \in Comp PROVE CompInv(c)
    <3>1. c \notin components /\ ~written[c] /\ ~Erasing(c) /\ ~Deleting(c)
      BY <1>1, <2>1, <2>3 DEF Erasing, Deleting
    <3>2. CellInv(c)
      <4>1. \A k \in Cell : stored[c][k] = 0
        BY <2>1, <2>3 DEF Nothing
      <4> QED
        BY <1>1, <3>1, <4>1 DEF CellInv
    <3> QED
      BY <2>2, <2>3, <3>1, <3>2 DEF CompInv, TasksInv, NodeInv, AttInv, DeletionInv, CleanInv
  <2>4. OrderInv /\ ReadyInv
    BY <2>1, SmallQueues DEF OrderInv, ReadyInv
  <2>5. FileTaskInv /\ PhaseInv
    BY <1>1, <1>2, <2>1, SmallQueues DEF FileTaskInv, PhaseInv, Visits
  <2>6. FileInv
    BY <1>1, <1>2, <2>1, FileAssumption DEF FileInv
  <2> QED
    BY <2>3, <2>4, <2>5, <2>6 DEF QueueInv
<1>3. CASE access # "CREATE"
  <2>1. m_work = parseTasks /\ phase = "drain" /\ call.op = "construct"
    BY <1>3 DEF Init, InitContents, Call
  <2> PICK o : o = FileTask("OPEN_FILE")
    OBVIOUS
  <2> PICK r : r = FileTask("READ_ATT")
    OBVIOUS
  <2> PICK x : x = FileTask("CLOSE_FILE")
    OBVIOUS
  <2>2. /\ o.op = "OPEN_FILE" /\ r.op = "READ_ATT" /\ x.op = "CLOSE_FILE"
        /\ o.comp = None /\ r.comp = None /\ x.comp = None
    BY DEF FileTask, Task
  <2>3. m_work = <<o, r, x>> \/ m_work = <<o, r>>
    BY <2>1, ParseTasks
  <2>4. /\ DOMAIN m_work \subseteq {1, 2, 3} /\ m_work[1] = o
        /\ \A i \in DOMAIN m_work : m_work[i] \in {o, r, x}
        /\ \A i \in DOMAIN m_work : i # 1 => m_work[i] \in {r, x} /\ 1 \in 1 .. i - 1
    BY <2>3
  <2>5. \A t \in Tasks(m_work) : t \in {o, r, x}
    BY <2>4 DEF Tasks
  <2>6. \A c \in Comp : TasksOf(c) = {}
    BY <2>2, <2>5, CompAssumption DEF TasksOf
  <2>7. ReadyInv
    <3> SUFFICES ASSUME NEW p \in DOMAIN m_work PROVE ReadyAt(m_work, p)
      BY DEF ReadyInv
    <3>1. CASE p = 1
      BY <2>2, <2>4, <3>1 DEF ReadyAt, Openers, Data, Attributes
    <3>2. CASE p # 1
      <4>1. OpenAt(m_work, p)
        BY <2>2, <2>4, <3>2 DEF OpenAt, Openers
      <4> QED
        BY <2>2, <2>4, <3>2, <4>1 DEF ReadyAt, Data, Attributes
    <3> QED
      BY <3>1, <3>2
  <2>8. \A c \in components : c \in Comp /\ rc[c].chunks = <<>>
    BY <1>0, <1>3, ExistingFile DEF TypeOK
  <2>9. OrderInv
    <3>1. Ordered(m_work)
      BY <2>2, <2>4 DEF Ordered, InOrder, Deletions
    <3> QED
      BY <2>8, <3>1, SmallQueues DEF OrderInv, AllInOrder
  <2>10. FileInv
    <3>1. Legible
      <4>1. disk \in AllFiles
        BY <1>3, ExistingAssumption DEF Init, InitContents
      <4>2. disk \in Contents
        BY <4>1, ExistingNodes DEF AllFiles, Contents
      <4> QED
        BY <1>1, <4>2, FileAssumption DEF Legible, contents
    <3> QED
      BY <1>1, <1>3, <3>1 DEF FileInv, Legible, contents
  <2>11. FileTaskInv
    BY <1>3, <2>1, <2>2, <2>5 DEF FileTaskInv, Writers, Operation, Readers
  <2>12. PhaseInv
    BY <1>1, <2>1 DEF PhaseInv, Visits
  <2>13. ASSUME NEW c \in Comp PROVE CompInv(c)
    <3>1. /\ c \in components <=> node(c).kind # "none"
          /\ c \notin components => node(c) = NoNode
          /\ c \in components =>
               /\ rc[c].box = node(c).box /\ (rc[c].constant <=> node(c).kind = "group")
               /\ rc[c].value = node(c).value /\ rc[c].att = node(c).att
               /\ ~rc[c].dirty /\ rc[c].chunks = <<>>
          /\ stored[c] = node(c).cells
          /\ node(c).att <= 1 /\ \A k \in Cell : node(c).cells[k] <= 1
          /\ node(c).kind \in {"none", "dataset", "group"}
      BY <1>0, <1>3, <2>13, ExistingFile
    <3>2. ~Erasing(c) /\ ~Deleting(c) /\ (written[c] <=> c \in components) /\ TasksOf(c) = {}
      BY <1>1, <2>1, <2>6 DEF Erasing, Deleting
    <3>3. node(c).att \in Nat /\ \A k \in Cell : node(c).cells[k] \in Nat
      BY <1>0, Numbers
    <3>4. TasksInv(c) /\ NodeInv(c) /\ DeletionInv(c) /\ CleanInv(c)
      BY <3>1, <3>2, SmallQueues DEF TasksInv, NodeInv, Declared, DeletionInv, CleanInv
    <3>5. CellInv(c) /\ AttInv(c)
      BY <1>1, <3>1, <3>2, <3>3 DEF CellInv, AttInv
    <3> QED
      BY <3>4, <3>5 DEF CompInv
  <2> QED
    BY <2>7, <2>9, <2>10, <2>11, <2>12, <2>13 DEF QueueInv
<1> QED
  BY <1>2, <1>3

-----------------------------------------------------------------------------
(* What follows from it.                                                   *)

\* No handler refuses the task at the head of the queue, in which mode a
\* Series was opened and whatever has failed before: a call that failed is
\* repeated with success unless something fails again.
THEOREM NothingBlocks == Spec => []NeverBlocked
<1>1. Init => TypeOK /\ CallInv
  BY TypesInit
<1>2. Init => QueueInv
  BY QueueInit
<1>3. TypeOK /\ CallInv /\ [Next]_vars => TypeOK' /\ CallInv'
  BY TypesNext
<1>4. TypeOK /\ TypeOK' /\ CallInv /\ QueueInv /\ [Next]_vars => QueueInv'
  BY QueueNext
<1>5. TypeOK /\ QueueInv => NeverBlocked
  BY HeadNotRefused DEF NeverBlocked
<1> QED
  BY <1>1, <1>2, <1>3, <1>4, <1>5, PTL DEF Spec

\* A step that loads gives what was asked for.
LEMMA LoadsStep ==
  ASSUME TypeOK, QueueInv, LoadsSeeStores, [Next]_vars
  PROVE  LoadsSeeStores'
<1>1. ASSUME loaded' \in {loaded, NotLoaded} PROVE LoadsSeeStores'
  BY <1>1 DEF LoadsSeeStores, NotLoaded
<1>2. CASE Drain /\ ProcessTask
  <2>1. PICK t : t = Head(m_work)
    OBVIOUS
  <2>2. t \in IOTask /\ HandlersTypeOK /\ Execute(t) /\ phase # "gone" /\ m_work # <<>>
    BY <1>2, <2>1, HeadFacts DEF Drain, ProcessTask
  <2>3. CASE t.op # "READ_DATASET"
    BY <1>1, <2>2, <2>3, ExecuteFlags
  <2>4. CASE t.op = "READ_DATASET"
    <3>1. loaded' = [got |-> [k \in Cell |-> IF k \in t.box
                                             THEN contents[t.comp].cells[k] ELSE 0],
                     want |-> t.want]
      BY <2>2, <2>4 DEF Execute, Skipped, readDataset
    <3>2. \A k \in Cell : /\ k \in t.box => contents[t.comp].cells[k] = t.want[k]
                          /\ k \notin t.box => t.want[k] = 0
      BY <2>1, <2>2, <2>4, HeadLoads
    <3>3. t.want \in [Cell -> Version]
      BY <2>2 DEF IOTask
    <3> QED
      BY <3>1, <3>2, <3>3 DEF LoadsSeeStores
  <2> QED
    BY <2>3, <2>4
<1>3. CASE Drain /\ FlushDirty
  BY <1>1, <1>3 DEF FlushDirty
<1>4. CASE Drained \/ HandlerThrows \/ WriteThrows
  BY <1>1, <1>4 DEF Drained, HandlerThrows, WriteThrows, Throw
<1>5. CASE flush \/ Destroy \/ FlushEmpty \/ Visited
  BY <1>1, <1>5 DEF flush, Destroy, Flush, FlushEmpty, Begin, Visited, backendVars
<1>6. ASSUME NEW c \in Comp,
             \/ EraseWritten(c) \/ DeleteAttribute(c) \/ AvailableChunks(c) \/ Visit(c)
      PROVE  LoadsSeeStores'
  BY <1>1, <1>6 DEF EraseWritten, DeleteAttribute, AvailableChunks, Begin, Visit
<1>7. ASSUME Idle PROVE LoadsSeeStores'
  BY <1>1, <1>7 DEF Idle, backendVars
<1>8. ASSUME NEW c \in Comp,
             \/ Component(c) \/ makeConstant(c) \/ setAttribute(c) \/ EraseUnwritten(c)
             \/ \E e \in 0 .. MaxExtent : resetDataset(c, e)
             \/ \E b \in SUBSET Cell : storeChunk(c, b) \/ loadChunk(c, b)
      PROVE  Idle
  BY <1>8 DEF Component, makeConstant, setAttribute, EraseUnwritten, resetDataset,
              storeChunk, loadChunk
<1>9. CASE UNCHANGED vars
  BY <1>1, <1>9 DEF vars, backendVars
<1> QED
  BY <1>2, <1>3, <1>4, <1>5, <1>6, <1>7, <1>8, <1>9 DEF Next, Drain

\* A chunk that was loaded is what the user had stored last when asking for
\* it, through every order of calls and every failure of a handler or of
\* writing the file.
THEOREM LoadsAreCurrent == Spec => []LoadsSeeStores
<1>1. Init => TypeOK /\ CallInv
  BY TypesInit
<1>2. Init => QueueInv
  BY QueueInit
<1>3. Init => LoadsSeeStores
  BY DEF Init, LoadsSeeStores, NotLoaded
<1>4. TypeOK /\ CallInv /\ [Next]_vars => TypeOK' /\ CallInv'
  BY TypesNext
<1>5. TypeOK /\ TypeOK' /\ CallInv /\ QueueInv /\ [Next]_vars => QueueInv'
  BY QueueNext
<1>6. TypeOK /\ QueueInv /\ LoadsSeeStores /\ [Next]_vars => LoadsSeeStores'
  BY LoadsStep
<1> QED
  BY <1>1, <1>2, <1>3, <1>4, <1>5, <1>6, PTL DEF Spec

\* When the queue of a flush has run empty, the file is what was declared and
\* stored.
LEMMA SavedComponent ==
  ASSUME TypeOK, QueueInv, Visits, m_work = <<>>, NEW c \in components \ doomed
  PROVE  Holds(node(c), rc[c], stored[c])
<1>1. /\ c \in Comp /\ CompInv(c) /\ ~rc[c].dirty /\ rc[c].chunks = <<>>
      /\ call.op \in {"flush", "destroy"} /\ HandlersTypeOK
  BY DEF QueueInv, PhaseInv, Visits, TypeOK
<1>2. TasksOf(c) = {} /\ Outstanding(c) = {} /\ \A o : ~Queued(o, c)
  BY <1>1, SmallQueues DEF TasksOf, Outstanding, Queued
<1>3. ~Lost(c) /\ ~Deleting(c)
  BY <1>1 DEF Lost, Erasing, Deleting
<1>4. written[c]
  BY <1>1, <1>2, <1>3 DEF CompInv, CleanInv
<1>5. Declared(c)
  BY <1>1, <1>2, <1>4 DEF CompInv, NodeInv
<1>6. \A k \in Cell : node(c).cells[k] = stored[c][k]
  BY <1>1, <1>2, <1>3 DEF CompInv, CellInv
<1>7. node(c).cells = stored[c]
  <2>1. node(c).cells \in [Cell -> Version] /\ stored[c] \in [Cell -> Version]
    BY <1>1, NodeType DEF TypeOK
  <2> QED
    BY <1>6, <2>1
<1>8. rc[c].att # 0 => node(c).att = rc[c].att
  BY <1>1, <1>2, <1>3 DEF CompInv, AttInv
<1>9. rc[c].att = 0 => backend = "JSON" \/ node(c).att = 0
  BY <1>1, <1>3 DEF CompInv, AttInv, HandlersTypeOK, Backend
<1> QED
  BY <1>2, <1>5, <1>7, <1>8, <1>9 DEF Holds, Declared

LEMMA DurableStep ==
  ASSUME TypeOK, QueueInv, FlushIsDurable, [Next]_vars
  PROVE  FlushIsDurable'
<1>1. ASSUME result' # "flushed" PROVE FlushIsDurable'
  BY <1>1 DEF FlushIsDurable
<1>2. CASE Drained
  <2> SUFFICES ASSUME call.op \in {"flush", "destroy"} PROVE FlushIsDurable'
    BY <1>1, <1>2 DEF Drained
  <2>1. /\ phase = "drain" /\ m_work = <<>> /\ ~m_dirty /\ Visits
        /\ UNCHANGED <<components, rc, stored, doomed, disk, backend>>
    BY <1>2 DEF Drained, Visits, file, untouched, fixed
  <2>2. Tasks(m_work) = {} /\ FileInv /\ PhaseInv /\ HandlersTypeOK
    BY <2>1, SmallQueues DEF QueueInv, TypeOK
  <2>3. Legible
    BY <2>1, <2>2 DEF FileInv, PhaseInv
  <2>4. contents = disk
    BY <2>1, <2>2 DEF FileInv, Pending, contents
  <2>5. disk \notin {None, Torn} /\ \A c \in Comp : node(c) = disk[c]
    BY <2>3, <2>4 DEF Legible, node
  <2>6. \A c \in components \ doomed : c \in Comp /\ Holds(disk[c], rc[c], stored[c])
    BY <2>1, <2>5, SavedComponent DEF TypeOK
  <2>7. ASSUME NEW c \in Comp \ components PROVE disk[c].kind = "none"
    <3>1. CompInv(c)
      BY <2>1, <2>7 DEF QueueInv
    <3> QED
      BY <2>5, <2>7, <3>1, NoNodeFields DEF CompInv, NodeInv
  <2>8. \A c \in Comp \ doomed : Holds(disk[c], rc[c], stored[c])' = Holds(disk[c], rc[c], stored[c])
    BY <2>1 DEF Holds
  <2> QED
    BY <2>1, <2>5, <2>6, <2>7, <2>8 DEF FlushIsDurable, Holds
<1>3. CASE HandlerThrows \/ WriteThrows
  BY <1>1, <1>3 DEF HandlerThrows, WriteThrows, Throw
<1>4. CASE Drain \/ Visited \/ \E c \in Comp : Visit(c)
  <2>1. phase \in {"flush", "drain"} /\ result' = result
    BY <1>4 DEF Drain, Visited, Visit, control
  <2> QED
    BY <1>1, <2>1 DEF QueueInv, PhaseInv
<1>5. CASE flush \/ Destroy \/ FlushEmpty
  BY <1>1, <1>5 DEF flush, Destroy, Flush, FlushEmpty, Begin
<1>6. ASSUME NEW c \in Comp,
             \/ EraseWritten(c) \/ DeleteAttribute(c) \/ AvailableChunks(c)
      PROVE  FlushIsDurable'
  BY <1>1, <1>6 DEF EraseWritten, DeleteAttribute, AvailableChunks, Begin
<1>7. ASSUME NEW c \in Comp,
             \/ Component(c) \/ makeConstant(c) \/ setAttribute(c) \/ EraseUnwritten(c)
             \/ \E e \in 0 .. MaxExtent : resetDataset(c, e)
             \/ \E b \in SUBSET Cell : storeChunk(c, b) \/ loadChunk(c, b)
      PROVE  FlushIsDurable'
  BY <1>1, <1>7 DEF Component, makeConstant, setAttribute, EraseUnwritten, resetDataset,
                    storeChunk, loadChunk
<1>8. CASE UNCHANGED vars
  BY <1>8 DEF vars, frontend, control, backendVars, fixed, file, FlushIsDurable, Holds
<1> QED
  BY <1>2, <1>3, <1>4, <1>5, <1>6, <1>7, <1>8 DEF Next

\* A flush or a destructor that comes to its end without an exception leaves
\* in the file exactly what the user has declared, stored and set, though
\* earlier calls have failed at any task, or left the file truncated.
THEOREM FlushesAreDurable == Spec => []FlushIsDurable
<1>1. Init => TypeOK /\ CallInv
  BY TypesInit
<1>2. Init => QueueInv
  BY QueueInit
<1>3. Init => FlushIsDurable
  BY DEF Init, FlushIsDurable
<1>4. TypeOK /\ CallInv /\ [Next]_vars => TypeOK' /\ CallInv'
  BY TypesNext
<1>5. TypeOK /\ TypeOK' /\ CallInv /\ QueueInv /\ [Next]_vars => QueueInv'
  BY QueueNext
<1>6. TypeOK /\ QueueInv /\ FlushIsDurable /\ [Next]_vars => FlushIsDurable'
  BY DurableStep
<1> QED
  BY <1>1, <1>2, <1>3, <1>4, <1>5, <1>6, PTL DEF Spec

-----------------------------------------------------------------------------
(* The record implements DatasetStore.                                     *)

latest  == [c \in Comp |-> IF c \in components THEN stored[c] ELSE Nothing]
saved   == [c \in Comp |-> IF Legible THEN contents[c].cells ELSE Nothing]
erasing == {c \in Comp : \E k \in DOMAIN m_work :
              m_work[k].op = "DELETE_PATH" /\ m_work[k].comp = c}

Values == [Comp -> [Cell -> Version]]

\* The refinement mapping in terms of the invariant.
LEMMA Mapping ==
  ASSUME TypeOK
  PROVE  /\ latest \in Values /\ saved \in Values
         /\ saved = [c \in Comp |-> node(c).cells]
         /\ erasing = {c \in Comp : Queued("DELETE_PATH", c)}
<1>1. HandlersTypeOK
  BY DEF TypeOK
<1>2. latest \in Values
  BY NodeTypes DEF latest, Values, TypeOK
<1>3. saved = [c \in Comp |-> node(c).cells]
  BY DEF saved, node, NoNode
<1>4. saved \in Values
  BY <1>1, <1>3, NodeType DEF Values
<1>5. erasing = {c \in Comp : Queued("DELETE_PATH", c)}
  BY DEF erasing, Queued, TasksOf, Tasks
<1> QED
  BY <1>2, <1>3, <1>4, <1>5

\* When a step of the record is one of the store.
LEMMA Stutters ==
  ASSUME UNCHANGED <<latest, saved, erasing>>
  PROVE  [Store!Next]_(Store!vars)
BY DEF Store!vars, latest, saved, erasing

LEMMA Stored ==
  ASSUME NEW c \in Comp, latest' \in Values, UNCHANGED <<saved, erasing>>,
         \A d \in Comp \ {c} : latest'[d] = latest[d],
         \A k \in Cell : latest[c][k] <= latest'[c][k]
  PROVE  [Store!Next]_(Store!vars)
<1>1. Store!Store(c)
  BY DEF Store!Store, Store!Only, latest, saved, erasing, Values
<1> QED
  BY <1>1 DEF Store!Next

LEMMA Saved ==
  ASSUME NEW c \in Comp, saved' \in Values, UNCHANGED <<latest, erasing>>,
         \A d \in Comp \ {c} : saved'[d] = saved[d],
         \A k \in Cell : saved[c][k] <= saved'[c][k] /\ saved'[c][k] <= latest[c][k]
  PROVE  [Store!Next]_(Store!vars)
<1>1. Store!Save(c)
  BY DEF Store!Save, Store!Only, latest, saved, erasing, Values
<1> QED
  BY <1>1 DEF Store!Next

LEMMA EraseAsked ==
  ASSUME NEW c \in Comp, erasing' = erasing \cup {c}, UNCHANGED <<latest, saved>>
  PROVE  [Store!Next]_(Store!vars)
<1>1. Store!Erase(c)
  BY DEF Store!Erase, latest, saved, erasing
<1> QED
  BY <1>1 DEF Store!Next

LEMMA Deleted ==
  ASSUME NEW c \in Comp, c \in erasing, saved' = [saved EXCEPT ![c] = Nothing],
         erasing' \in {erasing, erasing \ {c}}, UNCHANGED latest
  PROVE  [Store!Next]_(Store!vars)
<1>1. Store!Delete(c)
  BY DEF Store!Delete, Store!Nothing, Nothing, latest, saved, erasing
<1> QED
  BY <1>1 DEF Store!Next

LEMMA Discarded ==
  ASSUME NEW c \in Comp, saved[c] = Nothing, latest' = [latest EXCEPT ![c] = Nothing],
         UNCHANGED <<saved, erasing>>
  PROVE  [Store!Next]_(Store!vars)
<1>1. Store!Discard(c)
  BY DEF Store!Discard, Store!Nothing, Nothing, latest, saved, erasing
<1> QED
  BY <1>1 DEF Store!Next

\* What a step leaves alone in the mapping.
LEMMA MappingKept ==
  ASSUME TypeOK, TypeOK'
  PROVE  /\ UNCHANGED <<components, stored>> => latest' = latest
         /\ (\A c \in Comp : node(c)'.cells = node(c).cells) => saved' = saved
         /\ UNCHANGED <<m_jsonVals, disk>> => saved' = saved
         /\ m_work' = m_work => erasing' = erasing
         /\ \A d \in Comp : latest[d] = (IF d \in components THEN stored[d] ELSE Nothing)
                            /\ latest'[d] = (IF d \in components' THEN stored'[d] ELSE Nothing)
                            /\ saved[d] = node(d).cells /\ saved'[d] = node(d)'.cells
<1>1. saved = [c \in Comp |-> node(c).cells]
  BY Mapping
<1>2. saved' = [c \in Comp |-> node(c)'.cells]
  BY DEF saved, node, NoNode
<1>3. (\A c \in Comp : node(c)'.cells = node(c).cells) => saved' = saved
  BY <1>1, <1>2
<1>4. UNCHANGED <<m_jsonVals, disk>> => saved' = saved
  BY DEF saved, Legible, contents
<1>5. m_work' = m_work => erasing' = erasing
  BY DEF erasing
<1>6. UNCHANGED <<components, stored>> => latest' = latest
  BY DEF latest
<1>7. \A d \in Comp : latest[d] = (IF d \in components THEN stored[d] ELSE Nothing)
                      /\ latest'[d] = (IF d \in components' THEN stored'[d] ELSE Nothing)
  BY DEF latest
<1> QED
  BY <1>1, <1>2, <1>3, <1>4, <1>5, <1>6, <1>7

\* The user's changes: storeChunk stores, a component that was never written
\* is discarded, the others stutter.
LEMMA ChangeMaps ==
  ASSUME TypeOK, TypeOK', QueueInv, NEW c \in Comp,
         \/ Component(c) \/ makeConstant(c) \/ setAttribute(c) \/ EraseUnwritten(c)
         \/ \E e \in 0 .. MaxExtent : resetDataset(c, e)
         \/ \E b \in SUBSET Cell : storeChunk(c, b) \/ loadChunk(c, b)
  PROVE  [Store!Next]_(Store!vars)
<1>1. phase = "idle" /\ UNCHANGED backendVars
  BY DEF Component, makeConstant, setAttribute, EraseUnwritten, resetDataset, storeChunk,
         loadChunk, Idle
<1>2. saved' = saved /\ erasing' = erasing /\ CompInv(c)
  BY <1>1, MappingKept DEF backendVars, file, QueueInv
<1>3. \A d \in Comp : latest[d] = (IF d \in components THEN stored[d] ELSE Nothing)
                      /\ latest'[d] = (IF d \in components' THEN stored'[d] ELSE Nothing)
                      /\ saved[d] = node(d).cells
  BY MappingKept
<1>4. latest \in Values /\ latest' \in Values /\ stored \in [Comp -> [Cell -> Version]]
  <2>1. latest' \in Values
    BY NodeTypes DEF latest, Values, TypeOK
  <2> QED
    BY <2>1, Mapping DEF TypeOK
<1>5. CASE \/ makeConstant(c) \/ setAttribute(c)
           \/ \E e \in 0 .. MaxExtent : resetDataset(c, e)
           \/ \E b \in SUBSET Cell : loadChunk(c, b)
  <2>1. UNCHANGED <<components, stored>>
    BY <1>5 DEF makeConstant, setAttribute, resetDataset, loadChunk
  <2> QED
    BY <1>2, <2>1, MappingKept, Stutters
<1>6. CASE Component(c)
  <2>1. c \notin components /\ components' = components \cup {c}
        /\ stored' = [stored EXCEPT ![c] = Nothing]
    BY <1>6 DEF Component
  <2>2. \A d \in Comp : latest'[d] = latest[d]
    BY <1>3, <1>4, <2>1
  <2>3. latest' = latest
    BY <1>4, <2>2 DEF Values
  <2> QED
    BY <1>2, <2>3, Stutters
<1>7. CASE EraseUnwritten(c)
  <2>1. c \in components /\ components' = components \ {c} /\ ~written[c] /\ stored' = stored
    BY <1>7 DEF EraseUnwritten
  <2>2. latest' = [latest EXCEPT ![c] = Nothing]
    <3>1. \A d \in Comp : latest'[d] = IF d = c THEN Nothing ELSE latest[d]
      BY <1>3, <2>1
    <3> QED
      BY <1>4, <3>1 DEF Values
  <2>3. saved[c] = Nothing
    BY <1>2, <1>3, <2>1 DEF CompInv, NodeInv, NoNode
  <2> QED
    BY <1>2, <2>2, <2>3, Discarded
<1>8. ASSUME NEW b \in SUBSET Cell, storeChunk(c, b) PROVE [Store!Next]_(Store!vars)
  <2>1. /\ c \in components /\ components' = components
        /\ stored' = [stored EXCEPT ![c] = [k \in Cell |-> IF k \in b THEN newest ELSE @[k]]]
    BY <1>8 DEF storeChunk, Writable
  <2>2. \A d \in Comp \ {c} : latest'[d] = latest[d]
    BY <1>3, <1>4, <2>1
  <2>3. ASSUME NEW k \in Cell PROVE latest[c][k] <= latest'[c][k]
    <3>1. latest[c][k] = stored[c][k] /\ latest'[c][k] = IF k \in b THEN newest ELSE stored[c][k]
      BY <1>3, <1>4, <2>1
    <3>2. stored[c][k] \in Nat /\ changes \in Nat
      BY Numbers
    <3>3. stored[c][k] <= changes + 1
      BY <1>2 DEF CompInv, CellInv
    <3> QED
      BY <3>1, <3>2, <3>3 DEF newest
  <2> QED
    BY <1>2, <1>4, <2>2, <2>3, Stored
<1> QED
  BY <1>5, <1>6, <1>7, <1>8

\* Tasks behind the queue: a deletion asks the store for one, other tasks
\* do not concern it.
LEMMA EnqueueMaps ==
  ASSUME TypeOK, TypeOK', QueueInv, phase # "gone", NEW s \in Seq(IOTask),
         m_work' = m_work \o s, UNCHANGED <<file, components, stored>>,
         \/ \A t \in Tasks(s) : t.op # "DELETE_PATH"
         \/ \E t \in IOTask : Tasks(s) = {t} /\ t.op = "DELETE_PATH"
  PROVE  [Store!Next]_(Store!vars)
<1>1. latest' = latest /\ saved' = saved
  BY MappingKept DEF file
<1>2. erasing = {c \in Comp : \E t \in Tasks(m_work) : t.op = "DELETE_PATH" /\ t.comp = c}
  BY DEF erasing, Tasks
<1>3. erasing' = {c \in Comp : \E t \in Tasks(m_work') : t.op = "DELETE_PATH" /\ t.comp = c}
  BY DEF erasing, Tasks
<1>4. Tasks(m_work') = Tasks(m_work) \cup Tasks(s)
  BY ConcatTasks DEF TypeOK, HandlersTypeOK
<1>5. CASE \A t \in Tasks(s) : t.op # "DELETE_PATH"
  <2>1. erasing' = erasing
    BY <1>2, <1>3, <1>4, <1>5
  <2> QED
    BY <1>1, <2>1, Stutters
<1>6. ASSUME NEW t \in IOTask, Tasks(s) = {t}, t.op = "DELETE_PATH"
      PROVE  [Store!Next]_(Store!vars)
  <2>1. t.comp \in Comp
    BY <1>6, TaskFields DEF FileTasks
  <2>2. \A c \in Comp : c \in erasing' <=> c \in erasing \/ c = t.comp
    BY <1>2, <1>3, <1>4, <1>6
  <2>3. erasing' \subseteq Comp /\ erasing \subseteq Comp
    BY <1>2, <1>3
  <2> QED
    BY <1>1, <2>1, <2>2, <2>3, EraseAsked
<1> QED
  BY <1>5, <1>6

\* Flushes and the other calls.
LEMMA CallMaps ==
  ASSUME TypeOK, TypeOK', QueueInv,
         \/ flush \/ Destroy \/ FlushEmpty
         \/ \E c \in Comp : EraseWritten(c) \/ DeleteAttribute(c) \/ AvailableChunks(c) \/ Visit(c)
  PROVE  [Store!Next]_(Store!vars)
<1>1. CASE flush \/ Destroy \/ FlushEmpty
  <2>1. phase = "idle" /\ UNCHANGED <<file, components, stored>>
    BY <1>1 DEF flush, Destroy, Flush, FlushEmpty, Begin
  <2>2. Opening(flushTasks) /\ Opening(flushTasks \o recordTasks)
    BY <2>1, FlushOpens
  <2>3. ASSUME NEW s, Opening(s), m_work' = m_work \o s PROVE [Store!Next]_(Store!vars)
    <3>1. s \in Seq(IOTask) /\ \A t \in Tasks(s) : t.op # "DELETE_PATH"
      BY <2>3 DEF Opening, Openers
    <3> QED
      BY <2>1, <2>3, <3>1, EnqueueMaps
  <2>4. CASE m_work' = m_work
    BY <2>1, <2>4, MappingKept, Stutters DEF file
  <2>5. m_work' = m_work \/ m_work' = m_work \o (flushTasks \o recordTasks)
        \/ m_work' = m_work \o flushTasks
    BY <1>1 DEF flush, Destroy, Flush, FlushEmpty, enqueue
  <2> QED
    BY <2>2, <2>3, <2>4, <2>5
<1>2. ASSUME NEW c \in Comp, EraseWritten(c) \/ DeleteAttribute(c) \/ AvailableChunks(c)
      PROVE  [Store!Next]_(Store!vars)
  <2>1. PICK t \in {Task("DELETE_PATH", c, {}, 0), Task("DELETE_ATT", c, {}, 0),
                    Task("AVAILABLE_CHUNKS", c, {}, 0)} : m_work' = m_work \o <<t>>
    BY <1>2 DEF EraseWritten, DeleteAttribute, AvailableChunks, enqueue
  <2>2. phase = "idle" /\ UNCHANGED <<file, components, stored>>
    BY <1>2 DEF EraseWritten, DeleteAttribute, AvailableChunks, Begin
  <2>3. t \in IOTask
    <3>1. c \in Comp \cup {None} /\ c # None /\ {} \in SUBSET Cell /\ 0 \in Version
      BY CompAssumption, VersionTypes
    <3>2. \A o \in {"DELETE_PATH", "DELETE_ATT", "AVAILABLE_CHUNKS"} :
            o \in Operation /\ o \notin FileTasks
      BY DEF Operation, FileTasks
    <3>3. \A o \in {"DELETE_PATH", "DELETE_ATT", "AVAILABLE_CHUNKS"} : Task(o, c, {}, 0) \in IOTask
      BY <3>1, <3>2, TaskType
    <3> QED
      BY <3>3
  <2>4. <<t>> \in Seq(IOTask) /\ Tasks(<<t>>) = {t}
    BY <2>3, SmallQueues
  <2> QED
    BY <2>1, <2>2, <2>3, <2>4, EnqueueMaps
<1>3. ASSUME NEW c \in Comp, Visit(c) PROVE [Store!Next]_(Store!vars)
  <2> PICK s : s = componentTasks(c)
    OBVIOUS
  <2>1. VisitFacts(c, s) /\ Enqueued(s) /\ CompInv(c) /\ phase = "flush" /\ stored' = stored
    BY <1>3, VisitEnqueues DEF Visit
  <2>2. \A t \in Tasks(s) : t.op # "DELETE_PATH"
    BY <1>3, <2>1, VisitEnqueues DEF VisitFacts, Creators, Data, CompInv, TasksInv
  <2> QED
    BY <2>1, <2>2, EnqueueMaps DEF Enqueued
<1> QED
  BY <1>1, <1>2, <1>3

LEMMA EffectCells ==
  ASSUME NEW t \in IOTask, NEW n \in Node
  PROVE  Effect(t, n).cells \in [Cell -> Version]
<1>1. n.cells \in [Cell -> Version] /\ t.ver \in Version /\ NoNode.cells \in [Cell -> Version]
  BY TaskFields, NodeTypes DEF Node, NoNode
<1>2. CASE t.op = "WRITE_DATASET"
  BY <1>1, <1>2 DEF Effect, Node
<1>3. CASE t.op = "CREATE_DATASET"
  BY <1>1, <1>3 DEF Effect, NoNode
<1>4. CASE t.op = "DELETE_PATH"
  BY <1>1, <1>4 DEF Effect
<1>5. CASE t.op \notin {"WRITE_DATASET", "CREATE_DATASET", "DELETE_PATH"}
  BY <1>1, <1>5 DEF Effect, Node
<1> QED
  BY <1>2, <1>3, <1>4, <1>5

\* A handler saves what the user has stored, deletes what is being erased,
\* or does not change a cell.  The task may stay in the queue: that of a
\* handler that throws while it writes does.
LEMMA HandledMaps ==
  ASSUME TypeOK, TypeOK', QueueInv, phase # "gone", m_work # <<>>,
         NEW t, t = Head(m_work), UNCHANGED <<components, stored>>,
         m_work' \in {m_work, Tail(m_work)},
         \A c \in Comp : node(c)' = IF Affects(t, c) THEN Effect(t, node(c)) ELSE node(c)
  PROVE  [Store!Next]_(Store!vars)
<1>1. /\ t \in IOTask /\ t \in Tasks(m_work) /\ HandlersTypeOK
      /\ t.comp \in Comp =>
           /\ CompInv(t.comp) /\ t.comp \in components
           /\ TaskFact(t.comp, t) /\ ChunkFact(t.comp, t)
  BY HeadFacts
<1>2. latest' = latest /\ latest \in Values /\ saved \in Values
  BY MappingKept, Mapping
<1>3. saved' \in Values
  <2>1. saved' = [c \in Comp |-> node(c)'.cells]
    BY DEF saved, node, NoNode
  <2>2. \A c \in Comp : node(c)'.cells \in [Cell -> Version]
    <3>1. ASSUME NEW c \in Comp PROVE Effect(t, node(c)).cells \in [Cell -> Version]
      <4>1. node(c) \in Node
        BY <1>1, <3>1, NodeType
      <4> QED
        BY <1>1, <4>1, EffectCells
    <3> QED
      BY <1>1, <3>1, NodeType
  <2> QED
    BY <2>1, <2>2 DEF Values
<1>4. /\ erasing = {c \in Comp : \E u \in Tasks(m_work) : u.op = "DELETE_PATH" /\ u.comp = c}
      /\ erasing' = {c \in Comp : \E u \in Tasks(m_work') : u.op = "DELETE_PATH" /\ u.comp = c}
  BY DEF erasing, Tasks
<1>5. Tasks(m_work') \subseteq Tasks(m_work) /\ Tasks(m_work) \subseteq Tasks(m_work') \cup {t}
  <2>1. m_work \in Seq(IOTask)
    BY DEF TypeOK, HandlersTypeOK
  <2>2. Tasks(m_work) = {t} \cup Tasks(Tail(m_work))
    BY <2>1, TailTasks
  <2> QED
    BY <2>2
<1>6. t.op # "DELETE_PATH" => erasing' = erasing
  BY <1>4, <1>5
<1>7. \A d \in Comp : saved[d] = node(d).cells /\ saved'[d] = node(d)'.cells
  BY MappingKept
<1>8. CASE t.op \notin {"WRITE_DATASET", "DELETE_PATH"}
  <2>1. ASSUME NEW c \in Comp PROVE node(c)'.cells = node(c).cells
    <3>1. CASE ~Affects(t, c)
      BY <3>1
    <3>2. CASE Affects(t, c) /\ t.op # "CREATE_DATASET"
      <4>1. node(c) \in Node
        BY <1>1, NodeType
      <4>2. Effect(t, node(c)).cells = node(c).cells
        BY <1>8, <3>2, <4>1 DEF Effect, Node
      <4> QED
        BY <3>2, <4>2
    <3>3. CASE Affects(t, c) /\ t.op = "CREATE_DATASET"
      <4>1. c = t.comp /\ ~written[c]
        BY <3>3 DEF Affects, Skipped
      <4>2. node(c) = NoNode
        BY <1>1, <4>1 DEF CompInv, NodeInv
      <4> QED
        BY <3>3, <4>2 DEF Effect, NoNode
    <3> QED
      BY <3>1, <3>2, <3>3
  <2>2. saved' = saved
    BY <2>1, MappingKept
  <2> QED
    BY <1>2, <1>6, <1>8, <2>2, Stutters
<1>9. CASE t.op = "WRITE_DATASET"
  <2>1. t.comp \in Comp /\ ~Skipped(t)
    BY <1>1, <1>9, TaskFields DEF FileTasks, Skipped
  <2> PICK c \in Comp : c = t.comp
    BY <2>1
  <2>2. CellInv(c) /\ StoreFact(c, t) /\ c \in components
    BY <1>1, <1>9, <2>1 DEF CompInv, ChunkFact
  <2>3. \A d \in Comp \ {c} : saved'[d] = saved[d]
    BY <1>7 DEF Affects
  <2>4. ASSUME NEW k \in Cell PROVE saved[c][k] <= saved'[c][k] /\ saved'[c][k] <= latest[c][k]
    <3>1. node(c)'.cells[k] = IF k \in t.box THEN t.ver ELSE node(c).cells[k]
      <4>1. node(c) \in Node
        BY <1>1, NodeType
      <4> QED
        BY <1>9, <2>1, <4>1 DEF Affects, Effect, Node
    <3>2. latest[c][k] = stored[c][k]
      BY <2>2, MappingKept
    <3>3. node(c).cells[k] \in Nat /\ stored[c][k] \in Nat /\ node(c).cells[k] <= stored[c][k]
      BY <2>2, Numbers DEF CellInv
    <3>4. k \in t.box => node(c).cells[k] <= t.ver /\ t.ver <= stored[c][k]
      BY <2>2 DEF StoreFact
    <3> QED
      BY <1>7, <3>1, <3>2, <3>3, <3>4
  <2> QED
    BY <1>2, <1>3, <1>6, <1>9, <2>3, <2>4, Saved
<1>10. CASE t.op = "DELETE_PATH"
  <2>1. t.comp \in Comp
    BY <1>1, <1>10, TaskFields DEF FileTasks
  <2> PICK c \in Comp : c = t.comp
    BY <2>1
  <2>2. ~Skipped(t)
    BY <1>1, <1>10, <2>1 DEF TaskFact, Skipped
  <2>3. \A d \in Comp : saved'[d] = IF d = c THEN Nothing ELSE saved[d]
    BY <1>7, <1>10, <2>2 DEF Affects, Effect, NoNode
  <2>4. saved' = [saved EXCEPT ![c] = Nothing]
    BY <1>2, <1>3, <2>3 DEF Values
  <2>5. c \in erasing
    BY <1>1, <1>4, <1>10
  <2>6. erasing' \in {erasing, erasing \ {c}}
    <3>1. \A d \in Comp \ {c} : d \in erasing' <=> d \in erasing
      BY <1>4, <1>5
    <3>2. erasing \subseteq Comp /\ erasing' \subseteq Comp
      BY <1>4
    <3>3. CASE c \in erasing'
      <4>1. \A d \in Comp : d \in erasing' <=> d \in erasing
        BY <2>5, <3>1, <3>3
      <4>2. erasing' = erasing
        BY <3>2, <4>1
      <4> QED
        BY <4>2
    <3>4. CASE c \notin erasing'
      <4>1. erasing' = erasing \ {c}
        BY <3>1, <3>2, <3>4
      <4> QED
        BY <4>1
    <3> QED
      BY <3>3, <3>4
  <2> QED
    BY <1>2, <2>4, <2>5, <2>6, Deleted
<1> QED
  BY <1>8, <1>9, <1>10

\* Handlers, and handlers that throw.
LEMMA QueueMaps ==
  ASSUME TypeOK, TypeOK', QueueInv, Drain \/ HandlerThrows \/ WriteThrows
  PROVE  [Store!Next]_(Store!vars)
<1>1. phase = "drain" /\ UNCHANGED <<components, stored>> /\ HandlersTypeOK /\ FileInv
  BY DEF Drain, HandlerThrows, WriteThrows, Throw, frontend, QueueInv, TypeOK
<1>2. ASSUME \A c \in Comp : node(c)' = node(c), m_work' = m_work
      PROVE  [Store!Next]_(Store!vars)
  BY <1>1, <1>2, MappingKept, Stutters
<1>3. CASE HandlerThrows
  <2>1. UNCHANGED <<m_jsonVals, disk>> /\ m_work' = m_work
    BY <1>3 DEF HandlerThrows, untouched, file
  <2> QED
    BY <1>2, <2>1, SameContents
<1>4. CASE Drain /\ ProcessTask
  <2> PICK t : t = Head(m_work)
    OBVIOUS
  <2>1. /\ m_work # <<>> /\ ~Refused(t) /\ Execute(t) /\ m_work' = Tail(m_work)
        /\ UNCHANGED fixed
    BY <1>4 DEF ProcessTask
  <2>2. t \in IOTask /\ (t.op = "CREATE_FILE" => access = "CREATE")
    BY <1>1, <2>1, HeadFacts
  <2>3. \A c \in Comp : node(c)' = IF Affects(t, c) THEN Effect(t, node(c)) ELSE node(c)
    BY <1>1, <2>1, <2>2, ExecuteNodes
  <2> QED
    BY <1>1, <2>1, <2>3, HandledMaps
<1>5. CASE Drain /\ FlushDirty
  <2>1. m_work' = m_work /\ backend' = backend
    BY <1>5 DEF FlushDirty, fixed
  <2>2. CASE m_jsonVals # None
    <3>1. /\ putJsonContents(contents) /\ contents \in Contents /\ Legible
      <4>1. contents = m_jsonVals /\ contents \in Contents
        BY <1>1, <2>2, LegibleContents DEF contents, HandlersTypeOK
      <4> QED
        BY <1>5, <2>2, <4>1, FileAssumption DEF FlushDirty, Legible
    <3>2. Legible' /\ contents' = contents
      BY <1>1, <2>1, <3>1, WrittenContents
    <3>3. \A c \in Comp : node(c)' = node(c)
      BY <3>1, <3>2 DEF node
    <3> QED
      BY <1>2, <2>1, <3>3
  <2>3. CASE m_jsonVals = None
    BY <1>2, <1>5, <2>1, <2>3, SameContents DEF FlushDirty
  <2> QED
    BY <2>2, <2>3
<1>6. CASE WriteThrows
  <2> PICK t : t = Head(m_work)
    OBVIOUS
  <2>1. PutFails /\ m_work' = m_work
    BY <1>6 DEF WriteThrows, untouched
  <2>2. contents' = m_jsonVals' /\ Legible'
    BY <1>1, <2>1, PutFailsTypes, FileAssumption DEF PutFails, contents, Legible
  <2>3. CASE m_work = <<>> \/ t.op = "CLOSE_FILE"
    <3>1. m_jsonVals # None
      BY <2>1, <2>3 DEF PutFails
    <3>2. contents = m_jsonVals /\ contents \in Contents
      BY <1>1, <3>1 DEF contents, HandlersTypeOK
    <3>3. m_jsonVals' = contents
      BY <2>1, <2>3, <3>2 DEF PutFails, Result
    <3>4. \A c \in Comp : node(c)' = node(c)
      BY <2>2, <3>2, <3>3, FileAssumption DEF node, Legible
    <3> QED
      BY <1>2, <2>1, <3>4
  <2>4. CASE m_work # <<>> /\ t.op # "CLOSE_FILE"
    <3>1. /\ t.op \in {"WRITE_DATASET", "DELETE_PATH", "DELETE_ATT"}
          /\ ~Skipped(t) /\ ~Refused(t) /\ m_jsonVals' = Result(t)
      BY <2>1, <2>4 DEF PutFails, Putters
    <3>2. t \in IOTask
      BY <1>1, <2>4, HeadFacts
    <3>3. Legible /\ t.comp \in Comp
      BY <3>1, <3>2, NotRefused, TaskFields DEF FileTasks
    <3>4. contents' = [contents EXCEPT ![t.comp] = Effect(t, contents[t.comp])]
      BY <1>1, <2>2, <3>1, <3>2, <3>3, ResultEffect
    <3>5. \A c \in Comp : node(c)' = IF Affects(t, c) THEN Effect(t, node(c)) ELSE node(c)
      BY <1>1, <2>2, <3>1, <3>2, <3>3, <3>4, ChangedNode
    <3> QED
      BY <1>1, <2>1, <2>4, <3>5, HandledMaps
  <2> QED
    BY <2>3, <2>4
<1> QED
  BY <1>3, <1>4, <1>5, <1>6 DEF Drain

\* The end of a call: an element that was erased leaves the container.
LEMMA DrainedMaps ==
  ASSUME TypeOK, TypeOK', CallInv, QueueInv, Drained
  PROVE  [Store!Next]_(Store!vars)
<1>1. /\ phase = "drain" /\ m_work = <<>> /\ m_work' = m_work /\ UNCHANGED <<m_jsonVals, disk>>
      /\ stored' = stored
      /\ components' = IF call.op = "erase" THEN components \ {call.comp} ELSE components
  BY DEF Drained, untouched, file
<1>2. saved' = saved /\ erasing' = erasing
  BY <1>1, MappingKept
<1>3. CASE call.op # "erase"
  <2>1. UNCHANGED <<components, stored>>
    BY <1>1, <1>3
  <2> QED
    BY <1>2, <2>1, MappingKept, Stutters
<1>4. CASE call.op = "erase"
  <2> PICK c : c = call.comp
    OBVIOUS
  <2>1. c \in Comp /\ c \in components
    BY <1>4 DEF CallInv, TypeOK
  <2>2. /\ latest \in Values /\ latest' \in Values
    <3>1. latest' \in Values
      BY NodeTypes DEF latest, Values, TypeOK
    <3> QED
      BY <3>1, Mapping
  <2>3. \A d \in Comp : latest[d] = (IF d \in components THEN stored[d] ELSE Nothing)
                        /\ latest'[d] = (IF d \in components' THEN stored'[d] ELSE Nothing)
                        /\ saved[d] = node(d).cells
    BY MappingKept
  <2>4. \A d \in Comp : latest'[d] = IF d = c THEN Nothing ELSE latest[d]
    BY <1>1, <1>4, <2>3
  <2>5. latest' = [latest EXCEPT ![c] = Nothing]
    BY <2>2, <2>4 DEF Values
  <2>6. CompInv(c) /\ Erasing(c) /\ ~Queued("DELETE_PATH", c)
    BY <1>1, <1>4, <2>1, SmallQueues DEF QueueInv, Erasing, Queued, TasksOf
  <2>7. node(c) = NoNode
    BY <2>6 DEF CompInv, DeletionInv, NodeInv
  <2>8. saved[c] = Nothing
    BY <2>1, <2>3, <2>7 DEF NoNode
  <2> QED
    BY <1>2, <2>1, <2>5, <2>8, Discarded
<1> QED
  BY <1>3, <1>4

LEMMA StoreStep ==
  ASSUME TypeOK, TypeOK', CallInv, QueueInv, [Next]_vars
  PROVE  [Store!Next]_(Store!vars)
<1>1. CASE \E c \in Comp :
             \/ Component(c) \/ makeConstant(c) \/ setAttribute(c) \/ EraseUnwritten(c)
             \/ \E e \in 0 .. MaxExtent : resetDataset(c, e)
             \/ \E b \in SUBSET Cell : storeChunk(c, b) \/ loadChunk(c, b)
  BY <1>1, ChangeMaps
<1>2. CASE \/ flush \/ Destroy \/ FlushEmpty
           \/ \E c \in Comp : EraseWritten(c) \/ DeleteAttribute(c) \/ AvailableChunks(c) \/ Visit(c)
  BY <1>2, CallMaps
<1>3. CASE Drain \/ HandlerThrows \/ WriteThrows
  BY <1>3, QueueMaps
<1>4. CASE Drained
  BY <1>4, DrainedMaps
<1>5. CASE Visited \/ UNCHANGED vars
  <2>1. UNCHANGED <<components, stored, m_jsonVals, disk, m_work>>
    BY <1>5 DEF Visited, vars, backendVars, frontend, file
  <2> QED
    BY <2>1, MappingKept, Stutters
<1> QED
  BY <1>1, <1>2, <1>3, <1>4, <1>5 DEF Next

LEMMA StoreInit ==
  ASSUME Init, TypeOK
  PROVE  Store!Init
<1>1. latest = saved
  <2>1. CASE access = "CREATE"
    <3>1. components = {} /\ m_jsonVals = None /\ disk = None
      BY <2>1 DEF Init, InitContents
    <3> QED
      BY <3>1 DEF latest, saved, Legible, contents
  <2>2. CASE access # "CREATE"
    <3>1. ASSUME NEW c \in Comp
          PROVE  (IF c \in components THEN stored[c] ELSE Nothing) = node(c).cells
      <4>1. stored[c] = node(c).cells /\ (c \notin components => node(c) = NoNode)
        BY <2>2, <3>1, ExistingFile
      <4> QED
        BY <4>1 DEF NoNode
    <3>2. saved = [c \in Comp |-> node(c).cells]
      BY Mapping
    <3> QED
      BY <3>1, <3>2 DEF latest
  <2> QED
    BY <2>1, <2>2
<1>2. saved \in Values
  BY Mapping
<1>3. erasing = {}
  <2>1. CASE access = "CREATE"
    BY <2>1 DEF Init, InitContents, erasing
  <2>2. CASE access # "CREATE"
    <3>1. m_work = parseTasks
      BY <2>2 DEF Init, InitContents
    <3>2. \A k \in DOMAIN parseTasks : parseTasks[k].op # "DELETE_PATH"
      BY ParseTasks DEF FileTask, Task
    <3> QED
      BY <3>1, <3>2 DEF erasing
  <2> QED
    BY <2>1, <2>2
<1> QED
  BY <1>1, <1>2, <1>3 DEF Store!Init, latest, saved, erasing, Values

\* The record implements the store of DatasetStore: through flushes, failures
\* of handlers and of writing the file, and their repetition, what the record
\* holds of a cell never becomes older and never runs ahead of what the user
\* has stored, and is lost by erasing the component only.
THEOREM RecordImplementsStore == Spec => KeepsStore
<1>1. Init => TypeOK /\ CallInv
  BY TypesInit
<1>2. Init => QueueInv
  BY QueueInit
<1>3. TypeOK /\ CallInv /\ [Next]_vars => TypeOK' /\ CallInv'
  BY TypesNext
<1>4. TypeOK /\ TypeOK' /\ CallInv /\ QueueInv /\ [Next]_vars => QueueInv'
  BY QueueNext
<1>5. Init /\ TypeOK => Store!Init
  BY StoreInit
<1>6. TypeOK /\ TypeOK' /\ CallInv /\ QueueInv /\ [Next]_vars => [Store!Next]_(Store!vars)
  BY StoreStep
<1> QED
  BY <1>1, <1>2, <1>3, <1>4, <1>5, <1>6, PTL DEF Spec, KeepsStore, Store!Spec
=============================================================================
