------------------------- MODULE RecordStorage_proofs -------------------------
(***************************************************************************)
(* Proofs about records over one file: variables keep their types, and a   *)
(* file that a failed write has truncated can always be written again.     *)
(*                                                                         *)
(* The first part is about the handlers, the second about the frontend, a  *)
(* lemma per action that needs one.                                        *)
(***************************************************************************)
EXTENDS RecordStorage, TLAPS

-----------------------------------------------------------------------------
(* What the handlers leave of a file is a file.                            *)

LEMMA NodeTypes == Nothing \in [Cell -> Version] /\ NoNode \in Node /\ Blank \in Contents
BY BoundAssumption DEF Nothing, NoNode, Node, Kind, Version, Blank, Contents

\* The newest version the user gives is one.
LEMMA VersionTypes ==
  /\ 0 \in Version /\ 1 \in Version
  /\ \A n \in 0 .. MaxChanges : n < MaxChanges => n + 1 \in 0 .. MaxChanges /\ n + 2 \in Version
BY BoundAssumption DEF Version

\* Legible contents are contents.
LEMMA LegibleContents ==
  ASSUME HandlersTypeOK
  PROVE  /\ Legible => contents \in Contents
         /\ m_jsonVals # None => contents = m_jsonVals /\ contents \in Contents
BY DEF HandlersTypeOK, Legible, contents

\* A node with a component replaced is a node.
LEMMA NodeChanges ==
  ASSUME NEW n \in Node
  PROVE  /\ \A f \in [Cell -> Version] : [n EXCEPT !.cells = f] \in Node
         /\ \A k \in Kind : [n EXCEPT !.kind = k] \in Node
         /\ \A b \in SUBSET Cell : [n EXCEPT !.box = b] \in Node
         /\ \A v \in Version : [n EXCEPT !.value = v] \in Node /\ [n EXCEPT !.att = v] \in Node
BY DEF Node

LEMMA ContentsChanges ==
  ASSUME NEW K \in Contents, NEW c
  PROVE  /\ \A n \in Node : [K EXCEPT ![c] = n] \in Contents
         /\ \A k \in Kind : [K EXCEPT ![c].kind = k] \in Contents
         /\ [K EXCEPT ![c].kind = IF @ = "none" THEN "group" ELSE @] \in Contents
         /\ \A b \in SUBSET Cell : [K EXCEPT ![c].box = b] \in Contents
         /\ \A v \in Version : /\ [K EXCEPT ![c].value = v] \in Contents
                               /\ [K EXCEPT ![c].att = v] \in Contents
<1>1. CASE c \notin Comp
  BY <1>1 DEF Contents
<1>2. CASE c \in Comp
  <2>1. K[c] \in Node /\ K[c].kind \in Kind
    BY <1>2 DEF Contents, Node
  <2>2. \A n \in Node : [K EXCEPT ![c] = n] \in Contents
    BY DEF Contents
  <2> QED
    BY <1>2, <2>1, <2>2, NodeChanges DEF Kind, Contents
<1> QED
  BY <1>1, <1>2

LEMMA WithCellsType ==
  ASSUME NEW K \in Contents, NEW c, NEW b, NEW v \in Version
  PROVE  withCells(K, c, b, v) \in Contents
<1>1. CASE c \notin Comp
  BY <1>1 DEF Contents, withCells
<1>2. CASE c \in Comp
  <2> DEFINE f == [k \in Cell |-> IF k \in b THEN v ELSE K[c].cells[k]]
  <2>1. K[c] \in Node /\ K[c].cells \in [Cell -> Version]
    BY <1>2 DEF Contents, Node
  <2>2. f \in [Cell -> Version]
    BY <2>1
  <2> DEFINE n == [K[c] EXCEPT !.cells = f]
  <2>3. n \in Node
    BY <2>1, <2>2, NodeChanges
  <2>4. withCells(K, c, b, v) = [K EXCEPT ![c] = n]
    BY <1>2 DEF withCells, Contents
  <2> HIDE DEF n
  <2>5. [K EXCEPT ![c] = n] \in Contents
    BY <2>3 DEF Contents
  <2> QED
    BY <2>4, <2>5
<1> QED
  BY <1>1, <1>2

\* The fields of a task.
LEMMA TaskFields ==
  ASSUME NEW t \in IOTask
  PROVE  /\ t.op \in Operation /\ t.comp \in Comp \cup {None} /\ t.box \in SUBSET Cell
         /\ t.ver \in Version /\ t.want \in [Cell -> Version]
         /\ t.op \notin FileTasks => t.comp \in Comp
BY DEF IOTask

LEMMA TaskType ==
  ASSUME NEW o \in Operation, NEW c \in Comp \cup {None}, NEW b \in SUBSET Cell,
         NEW v \in Version, o \in FileTasks <=> c = None
  PROVE  Task(o, c, b, v) \in IOTask
BY NodeTypes DEF Task, IOTask

LEMMA ResultType ==
  ASSUME NEW t \in IOTask, contents \in Contents
  PROVE  Result(t) \in Contents
<1>1. withCells(contents, t.comp, t.box, t.ver) \in Contents
  BY TaskFields, WithCellsType
<1>2. withoutPath(contents, t.comp) \in Contents
  BY NodeTypes, ContentsChanges DEF withoutPath
<1>3. withoutAttribute(contents, t.comp) \in Contents
  BY VersionTypes, ContentsChanges DEF withoutAttribute
<1> QED
  BY <1>1, <1>2, <1>3 DEF Result

-----------------------------------------------------------------------------
(* What a handler does to the file, whatever the task is.                  *)

FileType(v, d, k) ==
  v \in Contents \cup {None} /\ d \in BOOLEAN /\ k \in Contents \cup {None, Torn}

LEMMA MarkDirtyType ==
  ASSUME HandlersTypeOK, NEW K \in Contents, markDirty(K)
  PROVE  FileType(m_jsonVals', m_dirty', disk')
BY DEF markDirty, HandlersTypeOK, FileType

LEMMA PutType ==
  ASSUME HandlersTypeOK, NEW K \in Contents, putJsonContents(K)
  PROVE  FileType(m_jsonVals', m_dirty', disk')
BY DEF putJsonContents, HandlersTypeOK, FileType

LEMMA ObtainType ==
  ASSUME HandlersTypeOK, Legible, obtainJsonContents
  PROVE  FileType(m_jsonVals', m_dirty', disk')
BY LegibleContents DEF obtainJsonContents, HandlersTypeOK, FileType

\* A task that is neither skipped nor refused finds a legible file, but for
\* those that create, open or close it.
LEMMA NotRefused ==
  ASSUME NEW t \in IOTask, ~Skipped(t), ~Refused(t),
         t.op \notin {"CREATE_FILE", "OPEN_FILE", "CLOSE_FILE"}
  PROVE  Legible
BY DEF Refused, IOTask, Operation

\* The ways in which one turn of the loop changes the file.
LEMMA ExecuteCases ==
  ASSUME HandlersTypeOK, NEW t \in IOTask, ~Refused(t), Execute(t)
  PROVE  \/ /\ UNCHANGED file
            /\ Skipped(t) \/ t.op = "OPEN_FILE" \/ (t.op = "CLOSE_FILE" /\ m_jsonVals = None)
         \/ t.op \notin Putters /\ \E K \in Contents : markDirty(K)
         \/ t.op \in Putters /\ \E K \in Contents : putJsonContents(K)
         \/ t.op \in Readers /\ obtainJsonContents /\ Legible
<1>1. CASE Skipped(t)
  BY <1>1 DEF Execute
<1>2. CASE t.op = "OPEN_FILE" /\ openFile
  BY <1>2 DEF openFile
<1>3. CASE t.op = "CREATE_FILE" /\ createFile
  BY <1>3, NodeTypes DEF createFile, Putters
<1>4. CASE t.op = "CLOSE_FILE" /\ closeFile
  BY <1>4, LegibleContents DEF closeFile, Putters
<1>5. CASE ~Skipped(t) /\ t.op \notin {"CREATE_FILE", "OPEN_FILE", "CLOSE_FILE"}
  <2>1. contents \in Contents /\ Legible
    BY <1>5, NotRefused, LegibleContents
  <2>2. CASE t.op = "CREATE_PATH" /\ createPath
    BY <2>1, <2>2 DEF createPath, Putters
  <2>3. CASE t.op = "CREATE_GROUP" /\ createGroup(t.comp)
    BY <2>1, <2>3, ContentsChanges DEF createGroup, Putters
  <2>4. CASE t.op = "CREATE_DATASET" /\ createDataset(t.comp, t.box)
    <3>1. [NoNode EXCEPT !.kind = "dataset", !.box = t.box] \in Node
      BY NodeTypes, TaskFields DEF Node, Kind
    <3> QED
      BY <2>1, <2>4, <3>1, ContentsChanges DEF createDataset, Putters
  <2>5. CASE t.op \in {"WRITE_VALUE", "WRITE_SHAPE", "WRITE_ATT"} /\ writeAttribute(t)
    <3>1. (CASE t.op = "WRITE_VALUE" -> [contents EXCEPT ![t.comp].value = t.ver]
             [] t.op = "WRITE_SHAPE" -> [contents EXCEPT ![t.comp].box = t.box]
             [] OTHER                -> [contents EXCEPT ![t.comp].att = t.ver]) \in Contents
      BY <2>1, TaskFields, ContentsChanges
    <3> QED
      BY <2>5, <3>1 DEF writeAttribute, Putters
  <2>6. CASE \/ t.op = "WRITE_DATASET" /\ writeDataset(t)
             \/ t.op = "DELETE_PATH" /\ deletePath(t)
             \/ t.op = "DELETE_ATT" /\ deleteAttribute(t)
    BY <2>1, <2>6, ResultType DEF writeDataset, deletePath, deleteAttribute, Putters
  <2>7. CASE \/ t.op \in {"READ_ATT", "AVAILABLE_CHUNKS"} /\ readAttribute
             \/ t.op = "READ_DATASET" /\ readDataset(t)
    BY <2>1, <2>7 DEF readAttribute, readDataset, Readers
  <2> QED
    BY <1>5, <2>2, <2>3, <2>4, <2>5, <2>6, <2>7 DEF Execute, availableChunks
<1> QED
  BY <1>1, <1>2, <1>3, <1>4, <1>5 DEF Execute

\* One turn of the loop leaves a file.
LEMMA ExecuteFile ==
  ASSUME HandlersTypeOK, NEW t \in IOTask, ~Refused(t), Execute(t)
  PROVE  FileType(m_jsonVals', m_dirty', disk')
<1>1. CASE UNCHANGED file
  BY <1>1 DEF file, HandlersTypeOK, FileType
<1>2. CASE \E K \in Contents : markDirty(K) \/ putJsonContents(K)
  BY <1>2, MarkDirtyType, PutType
<1> QED
  BY <1>1, <1>2, ExecuteCases, ObtainType

\* ... and flags and loaded values.
LEMMA ExecuteRest ==
  ASSUME HandlersTypeOK, NEW t \in IOTask, ~Refused(t), Execute(t)
  PROVE  /\ fileWritten' \in BOOLEAN /\ recordWritten' \in BOOLEAN
         /\ written' \in [Comp -> BOOLEAN] /\ isOpen' \in BOOLEAN
         /\ loaded' \in [got : [Cell -> Version], want : [Cell -> Version]]
<1> USE DEF HandlersTypeOK
<1>1. CASE UNCHANGED <<flags, isOpen, loaded>>
  BY <1>1 DEF flags
<1>2. CASE createFile \/ openFile \/ closeFile
  BY <1>1, <1>2 DEF createFile, openFile, closeFile, flags
<1>3. CASE createPath \/ deleteAttribute(t) \/ readAttribute
  BY <1>1, <1>3 DEF createPath, deleteAttribute, readAttribute, flags
<1>4. CASE createGroup(t.comp) \/ createDataset(t.comp, t.box)
  BY <1>4 DEF createGroup, createDataset
<1>5. CASE writeAttribute(t) \/ writeDataset(t) \/ deletePath(t)
  <2>1. written' \in [Comp -> BOOLEAN]
    BY <1>5 DEF writeAttribute, writeDataset, deletePath
  <2> QED
    BY <1>5, <2>1 DEF writeAttribute, writeDataset, deletePath
<1>6. CASE ~Skipped(t) /\ t.op = "READ_DATASET" /\ readDataset(t)
  <2> DEFINE g == [k \in Cell |-> IF k \in t.box THEN contents[t.comp].cells[k] ELSE 0]
  <2>1. contents \in Contents
    BY <1>6, NotRefused, LegibleContents
  <2>2. g \in [Cell -> Version]
    <3>1. t.comp \in Comp
      BY <1>6, TaskFields DEF FileTasks
    <3> QED
      BY <2>1, <3>1, VersionTypes DEF Contents, Node
  <2> QED
    BY <1>6, <2>2, TaskFields DEF readDataset, flags
<1> QED
  BY <1>1, <1>2, <1>3, <1>4, <1>5, <1>6 DEF Execute, availableChunks

LEMMA SkippedType ==
  ASSUME NEW t \in IOTask
  PROVE  Skipped(t) \in BOOLEAN
BY DEF Skipped

LEMMA ProcessTaskTypes ==
  ASSUME HandlersTypeOK, ProcessTask
  PROVE  HandlersTypeOK'
<1> DEFINE t == Head(m_work)
<1>1. t \in IOTask /\ Tail(m_work) \in Seq(IOTask)
  BY DEF HandlersTypeOK, ProcessTask
<1>2. FileType(m_jsonVals', m_dirty', disk')
  BY <1>1, ExecuteFile DEF ProcessTask
<1>3. /\ fileWritten' \in BOOLEAN /\ recordWritten' \in BOOLEAN
      /\ written' \in [Comp -> BOOLEAN] /\ isOpen' \in BOOLEAN
      /\ loaded' \in [got : [Cell -> Version], want : [Cell -> Version]]
  BY <1>1, ExecuteRest DEF ProcessTask
<1> QED
  BY <1>1, <1>2, <1>3 DEF ProcessTask, HandlersTypeOK, FileType, fixed

LEMMA FlushDirtyTypes ==
  ASSUME HandlersTypeOK, FlushDirty
  PROVE  HandlersTypeOK'
<1>1. FileType(m_jsonVals', m_dirty', disk')
  BY LegibleContents, PutType DEF FlushDirty, FileType, HandlersTypeOK
<1> QED
  BY <1>1 DEF FlushDirty, HandlersTypeOK, FileType, fixed, flags

\* A write that fails leaves a copy that can be written.
LEMMA PutFailsTypes ==
  ASSUME HandlersTypeOK, PutFails
  PROVE  m_jsonVals' \in Contents /\ m_dirty' = m_dirty /\ disk' = Torn
<1>1. CASE m_work = <<>> /\ m_jsonVals # None /\ UNCHANGED m_jsonVals
  BY <1>1 DEF PutFails, HandlersTypeOK
<1>2. CASE /\ m_work # <<>> /\ ~Skipped(Head(m_work)) /\ ~Refused(Head(m_work))
           /\ Head(m_work).op \in Putters
           /\ Head(m_work).op = "CLOSE_FILE" => m_jsonVals # None
           /\ m_jsonVals' = Result(Head(m_work))
  <2>1. Head(m_work) \in IOTask
    BY <1>2 DEF HandlersTypeOK
  <2>2. contents \in Contents
    <3>1. CASE Head(m_work).op = "CLOSE_FILE"
      BY <1>2, <3>1, LegibleContents
    <3>2. CASE Head(m_work).op # "CLOSE_FILE"
      BY <1>2, <2>1, <3>2, NotRefused, LegibleContents DEF Putters
    <3> QED
      BY <3>1, <3>2
  <2> QED
    BY <1>2, <2>1, <2>2, ResultType DEF PutFails
<1> QED
  BY <1>1, <1>2 DEF PutFails

-----------------------------------------------------------------------------
(* What the frontend enqueues are tasks.                                   *)

LEMMA FileTaskType == \A o \in FileTasks : FileTask(o) \in IOTask
BY TaskType, VersionTypes DEF FileTask, FileTasks, Operation

LEMMA SeqTypes ==
  ASSUME NEW S
  PROVE  /\ <<>> \in Seq(S)
         /\ \A x \in S : <<x>> \in Seq(S)
         /\ \A x, y, z \in S : <<x, y>> \in Seq(S) /\ <<x, y, z>> \in Seq(S)
         /\ \A p, q \in Seq(S) : p \o q \in Seq(S)
OBVIOUS

LEMMA FlushTasksType ==
  flushTasks \in Seq(IOTask) /\ recordTasks \in Seq(IOTask) /\ parseTasks \in Seq(IOTask)
<1>1. /\ FileTask("OPEN_FILE") \in IOTask /\ FileTask("CREATE_FILE") \in IOTask
      /\ FileTask("CREATE_PATH") \in IOTask /\ FileTask("READ_ATT") \in IOTask
      /\ FileTask("CLOSE_FILE") \in IOTask
  BY FileTaskType DEF FileTasks
<1>2. <<FileTask("OPEN_FILE"), FileTask("READ_ATT")>> \in Seq(IOTask)
  BY <1>1, SeqTypes
<1>3. (IF encoding = "fileBased" THEN <<FileTask("CLOSE_FILE")>> ELSE <<>>) \in Seq(IOTask)
  BY <1>1, SeqTypes
<1>4. parseTasks \in Seq(IOTask)
  BY <1>2, <1>3, SeqTypes DEF parseTasks
<1> QED
  BY <1>1, <1>4, SeqTypes DEF flushTasks, recordTasks

LEMMA ComponentFields ==
  ASSUME NEW r \in RecordComponent
  PROVE  /\ r.box \in SUBSET Cell /\ r.empty \in BOOLEAN /\ r.constant \in BOOLEAN
         /\ r.value \in Version /\ r.att \in Version /\ r.dirty \in BOOLEAN
         /\ r.chunks \in Seq(IOTask)
BY DEF RecordComponent

LEMMA ComponentTasksType ==
  ASSUME TypeOK, NEW c \in Comp
  PROVE  componentTasks(c) \in Seq(IOTask)
<1>1. rc[c] \in RecordComponent
  BY DEF TypeOK
<1>2. /\ Task("CREATE_GROUP", c, {}, 0) \in IOTask
      /\ Task("WRITE_VALUE", c, {}, rc[c].value) \in IOTask
      /\ Task("WRITE_SHAPE", c, rc[c].box, 0) \in IOTask
      /\ Task("CREATE_DATASET", c, rc[c].box, 0) \in IOTask
      /\ Task("WRITE_ATT", c, {}, rc[c].att) \in IOTask
  BY <1>1, ComponentFields, TaskType, VersionTypes, CompAssumption
     DEF Operation, FileTasks
<1>3. createTasks(c) \in Seq(IOTask)
  BY <1>2, SeqTypes DEF createTasks
<1>4. attributeTasks(c) \in Seq(IOTask)
  BY <1>2, SeqTypes DEF attributeTasks
<1>5. rc[c].chunks \in Seq(IOTask)
  BY <1>1, ComponentFields
<1>6. (createTasks(c) \o rc[c].chunks) \o attributeTasks(c) \in Seq(IOTask)
  BY <1>3, <1>4, <1>5, SeqTypes
<1> QED
  BY <1>5, <1>6 DEF componentTasks

-----------------------------------------------------------------------------
(* Types.                                                                  *)

FrontendTypeOK ==
  /\ components \subseteq Comp
  /\ rc \in [Comp -> RecordComponent]
  /\ m_closed \in {"Open", "ClosedTemporarily"}
  /\ stored \in [Comp -> [Cell -> Version]]
  /\ doomed \subseteq components
  /\ phase \in {"idle", "flush", "drain", "gone"}
  /\ call \in [op : Calls, comp : Comp \cup {None}]
  /\ todo \subseteq components
  /\ result \in {"none", "flushed", "threw"}
  /\ changes \in 0 .. MaxChanges
  /\ failures \in 0 .. MaxFailures

LEMMA SplitTypes ==
  /\ TypeOK <=> HandlersTypeOK /\ FrontendTypeOK
  /\ TypeOK' <=> HandlersTypeOK' /\ FrontendTypeOK'
BY DEF TypeOK, FrontendTypeOK

\* A component in the loop of a flush, or in a call that is about it, stays in
\* the container.
CallInv ==
  /\ phase # "flush" => todo = {}
  /\ call.op \in {"erase", "deleteAttribute"} => phase = "drain" /\ call.comp \in components

LEMMA SameHandlers ==
  ASSUME HandlersTypeOK, UNCHANGED backendVars
  PROVE  HandlersTypeOK'
BY DEF HandlersTypeOK, backendVars, fixed, flags, file

LEMMA SameButQueue ==
  ASSUME HandlersTypeOK, UNCHANGED <<fixed, flags, isOpen, file, loaded>>,
         m_work' \in Seq(IOTask)
  PROVE  HandlersTypeOK'
BY DEF HandlersTypeOK, fixed, flags, file

\* What a user's change makes of a component.
LEMMA NewComponentType == NewComponent \in RecordComponent
BY VersionTypes, BoundAssumption DEF NewComponent, RecordComponent, Cell

LEMMA ChangedComponents ==
  ASSUME NEW f \in [Comp -> RecordComponent], NEW c, NEW r \in RecordComponent
  PROVE  [f EXCEPT ![c] = r] \in [Comp -> RecordComponent]
OBVIOUS

LEMMA ChangeTypes ==
  ASSUME FrontendTypeOK, Change
  PROVE  changes' \in 0 .. MaxChanges /\ newest \in Version
BY VersionTypes DEF FrontendTypeOK, Change, newest

LEMMA IdleTypes ==
  ASSUME TypeOK, CallInv, Idle,
         components' \subseteq Comp, rc' \in [Comp -> RecordComponent],
         stored' \in [Comp -> [Cell -> Version]], doomed' \subseteq components',
         result' = "none", changes' \in 0 .. MaxChanges
  PROVE  TypeOK' /\ CallInv'
<1>1. HandlersTypeOK'
  BY SplitTypes, SameHandlers DEF Idle
<1>2. FrontendTypeOK'
  BY SplitTypes DEF Idle, FrontendTypeOK, CallInv
<1> QED
  BY <1>1, <1>2, SplitTypes DEF Idle, CallInv

LEMMA UserChanges ==
  ASSUME TypeOK, CallInv, NEW c \in Comp,
         \/ Component(c) \/ makeConstant(c) \/ setAttribute(c) \/ EraseUnwritten(c)
         \/ \E e \in 0 .. MaxExtent : resetDataset(c, e)
         \/ \E b \in SUBSET Cell : storeChunk(c, b) \/ loadChunk(c, b)
  PROVE  TypeOK' /\ CallInv'
<1> USE SplitTypes DEF FrontendTypeOK
<1>1. rc[c] \in RecordComponent /\ stored[c] \in [Cell -> Version]
  OBVIOUS
<1>2. CASE Component(c)
  BY <1>2, NodeTypes, NewComponentType, ChangedComponents, IdleTypes DEF Component
<1>3. CASE makeConstant(c)
  <2>1. [rc[c] EXCEPT !.constant = TRUE, !.value = newest] \in RecordComponent
    BY <1>1, <1>3, ChangeTypes DEF makeConstant, RecordComponent
  <2>2. rc' = [rc EXCEPT ![c] = [rc[c] EXCEPT !.constant = TRUE, !.value = newest]]
    BY <1>3 DEF makeConstant
  <2>3. rc' \in [Comp -> RecordComponent]
    BY <2>1, <2>2, ChangedComponents
  <2> QED
    BY <1>3, <2>3, ChangeTypes, IdleTypes DEF makeConstant
<1>4. CASE setAttribute(c)
  <2>1. [rc[c] EXCEPT !.att = newest, !.dirty = TRUE] \in RecordComponent
    BY <1>1, <1>4, ChangeTypes DEF setAttribute, RecordComponent
  <2>2. rc' = [rc EXCEPT ![c] = [rc[c] EXCEPT !.att = newest, !.dirty = TRUE]]
    BY <1>4 DEF setAttribute
  <2>3. rc' \in [Comp -> RecordComponent]
    BY <2>1, <2>2, ChangedComponents
  <2> QED
    BY <1>4, <2>3, ChangeTypes, IdleTypes DEF setAttribute
<1>5. CASE EraseUnwritten(c)
  BY <1>5, ChangeTypes, IdleTypes DEF EraseUnwritten
<1>6. ASSUME NEW e \in 0 .. MaxExtent, resetDataset(c, e)
      PROVE  TypeOK' /\ CallInv'
  <2> DEFINE q == IF e = 0
                  THEN [rc[c] EXCEPT !.box = {}, !.empty = TRUE, !.constant = TRUE,
                                     !.value = 1, !.dirty = TRUE]
                  ELSE [rc[c] EXCEPT !.box = 1 .. e, !.dirty = TRUE]
  <2>1. 1 .. e \in SUBSET Cell
    BY BoundAssumption DEF Cell
  <2>2. q \in RecordComponent
    BY <1>1, <2>1, VersionTypes DEF RecordComponent
  <2>3. rc' = [rc EXCEPT ![c] = q]
    BY <1>6 DEF resetDataset
  <2> HIDE DEF q
  <2>4. rc' \in [Comp -> RecordComponent]
    BY <2>2, <2>3, ChangedComponents
  <2> QED
    BY <1>6, <2>4, ChangeTypes, IdleTypes DEF resetDataset
<1>7. ASSUME NEW b \in SUBSET Cell, storeChunk(c, b)
      PROVE  TypeOK' /\ CallInv'
  <2> DEFINE t == Task("WRITE_DATASET", c, b, newest)
  <2>1. t \in IOTask
    BY <1>7, TaskType, ChangeTypes, CompAssumption DEF storeChunk, Operation, FileTasks
  <2>2. Append(rc[c].chunks, t) \in Seq(IOTask)
    BY <1>1, <2>1, ComponentFields
  <2>3. [rc[c] EXCEPT !.chunks = Append(rc[c].chunks, t)] \in RecordComponent
    BY <1>1, <2>2 DEF RecordComponent
  <2>4. rc' = [rc EXCEPT ![c] = [rc[c] EXCEPT !.chunks = Append(rc[c].chunks, t)]]
    BY <1>7 DEF storeChunk
  <2>5. rc' \in [Comp -> RecordComponent]
    BY <2>3, <2>4, ChangedComponents
  <2>6. [k \in Cell |-> IF k \in b THEN newest ELSE stored[c][k]] \in [Cell -> Version]
    BY <1>1, <1>7, ChangeTypes DEF storeChunk
  <2>7. stored' \in [Comp -> [Cell -> Version]]
    BY <1>7, <2>6 DEF storeChunk
  <2> QED
    BY <1>7, <2>5, <2>7, ChangeTypes, IdleTypes DEF storeChunk
<1>8. ASSUME NEW b \in SUBSET Cell, loadChunk(c, b)
      PROVE  TypeOK' /\ CallInv'
  <2> DEFINE w == [k \in Cell |-> IF k \in b THEN stored[c][k] ELSE 0]
             t == [Task("READ_DATASET", c, b, 0) EXCEPT !.want = w]
  <2>1. w \in [Cell -> Version]
    BY <1>1, VersionTypes
  <2>2. Task("READ_DATASET", c, b, 0) \in IOTask
    BY TaskType, VersionTypes, CompAssumption DEF Operation, FileTasks
  <2>3. t \in IOTask
    BY <2>1, <2>2 DEF IOTask
  <2>4. rc' = [rc EXCEPT ![c] = [rc[c] EXCEPT !.chunks = Append(rc[c].chunks, t)]]
    BY <1>8 DEF loadChunk
  <2> HIDE DEF w, t
  <2>5. Append(rc[c].chunks, t) \in Seq(IOTask)
    BY <1>1, <2>3, ComponentFields
  <2>6. [rc[c] EXCEPT !.chunks = Append(rc[c].chunks, t)] \in RecordComponent
    BY <1>1, <2>5 DEF RecordComponent
  <2>7. rc' \in [Comp -> RecordComponent]
    BY <2>4, <2>6, ChangedComponents
  <2> QED
    BY <1>8, <2>7, ChangeTypes, IdleTypes DEF loadChunk
<1> QED
  BY <1>2, <1>3, <1>4, <1>5, <1>6, <1>7, <1>8

\* A call begins: tasks are enqueued, and what the call is about stays.
LEMMA BeginTypes ==
  ASSUME TypeOK, CallInv, NEW o \in Calls, NEW c \in Comp \cup {None}, Begin(o, c),
         m_work' \in Seq(IOTask), phase' \in {"idle", "flush", "drain"},
         m_closed' \in {"Open", "ClosedTemporarily"}, UNCHANGED <<components, rc>>,
         changes' \in 0 .. MaxChanges, todo' \subseteq components,
         phase' # "flush" => todo' = {},
         o \in {"erase", "deleteAttribute"} => phase' = "drain" /\ c \in components
  PROVE  TypeOK' /\ CallInv'
<1>1. HandlersTypeOK'
  BY SplitTypes, SameButQueue DEF Begin
<1>2. call' \in [op : Calls, comp : Comp \cup {None}] /\ call'.op = o /\ call'.comp = c
  BY DEF Begin, Call
<1>3. FrontendTypeOK'
  BY <1>2, SplitTypes DEF Begin, FrontendTypeOK
<1> QED
  BY <1>1, <1>2, <1>3, SplitTypes DEF Begin, CallInv

LEMMA UserCalls ==
  ASSUME TypeOK, CallInv,
         \/ flush \/ Destroy \/ FlushEmpty
         \/ \E c \in Comp : EraseWritten(c) \/ DeleteAttribute(c) \/ AvailableChunks(c)
  PROVE  TypeOK' /\ CallInv'
<1>1. /\ components \subseteq Comp /\ changes \in 0 .. MaxChanges
      /\ m_closed \in {"Open", "ClosedTemporarily"} /\ m_work \in Seq(IOTask)
  BY DEF TypeOK, HandlersTypeOK
<1>2. \A s \in Seq(IOTask) : m_work \o s \in Seq(IOTask)
  BY <1>1, SeqTypes
<1>3. flushTasks \o recordTasks \in Seq(IOTask)
  BY FlushTasksType, SeqTypes
<1>4. ASSUME NEW o \in {"flush", "destroy"}, Flush(o)
      PROVE  TypeOK' /\ CallInv'
  <2>1. phase = "idle" /\ todo = {} /\ o \in Calls
    BY <1>4 DEF Flush, Begin, CallInv, Calls
  <2>2. CASE encoding = "fileBased" /\ ~dirtyRecursive
    BY <1>1, <1>4, <2>1, <2>2, BeginTypes DEF Flush
  <2>3. CASE ~(encoding = "fileBased" /\ ~dirtyRecursive)
    BY <1>1, <1>2, <1>3, <1>4, <2>1, <2>3, BeginTypes DEF Flush, enqueue
  <2> QED
    BY <2>2, <2>3
<1>5. CASE FlushEmpty
  <2>1. phase = "idle" /\ todo = {} /\ "flush" \in Calls
    BY <1>5 DEF FlushEmpty, Begin, CallInv, Calls
  <2> QED
    BY <1>1, <1>2, <1>5, <2>1, FlushTasksType, BeginTypes DEF FlushEmpty, enqueue
<1>6. ASSUME NEW c \in Comp, EraseWritten(c) \/ DeleteAttribute(c) \/ AvailableChunks(c)
      PROVE  TypeOK' /\ CallInv'
  <2>1. phase = "idle" /\ todo = {}
    BY <1>6 DEF EraseWritten, DeleteAttribute, AvailableChunks, Begin, CallInv
  <2>2. /\ <<Task("DELETE_PATH", c, {}, 0)>> \in Seq(IOTask)
        /\ <<Task("DELETE_ATT", c, {}, 0)>> \in Seq(IOTask)
        /\ <<Task("AVAILABLE_CHUNKS", c, {}, 0)>> \in Seq(IOTask)
    BY TaskType, VersionTypes, SeqTypes, CompAssumption DEF Operation, FileTasks
  <2>3. Change => changes' \in 0 .. MaxChanges
    BY SplitTypes, ChangeTypes
  <2>4. {"erase", "deleteAttribute", "availableChunks"} \subseteq Calls
    BY DEF Calls
  <2>5. CASE EraseWritten(c)
    BY <1>1, <1>2, <2>1, <2>2, <2>3, <2>4, <2>5, BeginTypes DEF EraseWritten, enqueue
  <2>6. CASE DeleteAttribute(c)
    BY <1>1, <1>2, <2>1, <2>2, <2>3, <2>4, <2>6, BeginTypes
       DEF DeleteAttribute, enqueue, Writable
  <2>7. CASE AvailableChunks(c)
    BY <1>1, <1>2, <2>1, <2>2, <2>4, <2>7, BeginTypes DEF AvailableChunks, enqueue
  <2> QED
    BY <1>6, <2>5, <2>6, <2>7
<1> QED
  BY <1>4, <1>5, <1>6 DEF flush, Destroy

LEMMA VisitTypes ==
  ASSUME TypeOK, CallInv, NEW c \in Comp, Visit(c)
  PROVE  TypeOK' /\ CallInv'
<1> DEFINE q == [rc[c] EXCEPT !.chunks = <<>>, !.dirty = @ /\ access = "READ_ONLY"]
<1>1. rc[c] \in RecordComponent /\ rc \in [Comp -> RecordComponent]
  BY DEF TypeOK
<1>2. (rc[c].dirty /\ access = "READ_ONLY") \in BOOLEAN /\ <<>> \in Seq(IOTask)
  OBVIOUS
<1>3. q \in RecordComponent
  BY <1>1, <1>2 DEF RecordComponent
<1>4. rc' = [rc EXCEPT ![c] = q]
  BY DEF Visit
<1> HIDE DEF q
<1>5. rc' \in [Comp -> RecordComponent]
  BY <1>1, <1>3, <1>4, ChangedComponents
<1>6. m_work' \in Seq(IOTask)
  BY ComponentTasksType, SeqTypes DEF Visit, enqueue, TypeOK, HandlersTypeOK
<1>7. HandlersTypeOK'
  BY <1>6, SplitTypes, SameButQueue DEF Visit
<1>8. FrontendTypeOK'
  BY <1>5, SplitTypes DEF Visit, FrontendTypeOK, counters
<1> QED
  BY <1>7, <1>8, SplitTypes DEF Visit, CallInv

LEMMA VisitedTypes ==
  ASSUME TypeOK, CallInv, Visited
  PROVE  TypeOK' /\ CallInv'
<1>1. HandlersTypeOK'
  BY SplitTypes, SameHandlers DEF Visited
<1>2. FrontendTypeOK'
  BY SplitTypes DEF Visited, FrontendTypeOK, frontend, counters
<1> QED
  BY <1>1, <1>2, SplitTypes DEF Visited, CallInv, frontend

LEMMA DrainTypes ==
  ASSUME TypeOK, CallInv, Drain
  PROVE  TypeOK' /\ CallInv'
<1>1. HandlersTypeOK'
  BY SplitTypes, ProcessTaskTypes, FlushDirtyTypes DEF Drain
<1>2. FrontendTypeOK'
  BY SplitTypes DEF Drain, FrontendTypeOK, frontend, control, counters
<1> QED
  BY <1>1, <1>2, SplitTypes DEF Drain, CallInv, frontend, control

LEMMA DrainedTypes ==
  ASSUME TypeOK, CallInv, Drained
  PROVE  TypeOK' /\ CallInv'
<1>1. rc \in [Comp -> RecordComponent] /\ components \subseteq Comp /\ doomed \subseteq components
  BY DEF TypeOK
<1>2. rc' \in [Comp -> RecordComponent]
  <2>1. CASE call.op # "deleteAttribute"
    BY <1>1, <2>1 DEF Drained
  <2>2. CASE call.op = "deleteAttribute"
    <3>1. rc[call.comp] \in RecordComponent
      BY <1>1, <2>2 DEF CallInv
    <3>2. [rc[call.comp] EXCEPT !.att = 0] \in RecordComponent
      BY <3>1, VersionTypes DEF RecordComponent
    <3>3. rc' = [rc EXCEPT ![call.comp] = [rc[call.comp] EXCEPT !.att = 0]]
      BY <2>2 DEF Drained
    <3> QED
      BY <1>1, <3>2, <3>3, ChangedComponents
  <2> QED
    BY <2>1, <2>2
<1>3. NotLoaded \in [got : [Cell -> Version], want : [Cell -> Version]]
  BY NodeTypes DEF NotLoaded
<1>4. HandlersTypeOK'
  BY <1>3, SplitTypes DEF Drained, HandlersTypeOK, untouched, fixed, flags, file
<1>5. NoCall \in [op : Calls, comp : Comp \cup {None}] /\ NoCall.op = "none"
  BY DEF NoCall, Call, Calls
<1>6. todo = {}
  BY DEF CallInv, Drained
<1>7. FrontendTypeOK'
  BY <1>1, <1>2, <1>5, <1>6, SplitTypes DEF Drained, FrontendTypeOK, counters
<1> QED
  BY <1>4, <1>5, <1>6, <1>7, SplitTypes DEF Drained, CallInv

\* An exception ends the call or the Series.
LEMMA ThrowTypes ==
  ASSUME TypeOK, CallInv, phase = "drain", Throw, failures' \in 0 .. MaxFailures
  PROVE  FrontendTypeOK' /\ CallInv'
<1>1. todo = {} /\ UNCHANGED <<components, rc, m_closed, stored, todo, changes>>
  BY DEF CallInv, Throw
<1>2. NoCall \in [op : Calls, comp : Comp \cup {None}] /\ NoCall.op = "none"
  BY DEF NoCall, Call, Calls
<1>3. /\ call' \in [op : Calls, comp : Comp \cup {None}]
      /\ phase' \in {"idle", "drain", "gone"} /\ result' \in {"none", "threw"}
      /\ call'.op \notin {"erase", "deleteAttribute"}
  BY <1>2 DEF Throw, TypeOK
<1>4. doomed' \subseteq components
  BY DEF Throw, CallInv, TypeOK
<1> QED
  BY <1>1, <1>3, <1>4 DEF TypeOK, FrontendTypeOK, CallInv

LEMMA FailureTypes ==
  ASSUME TypeOK, CallInv, HandlerThrows \/ WriteThrows
  PROVE  TypeOK' /\ CallInv'
<1>1. failures' \in 0 .. MaxFailures
  BY FailuresAssumption DEF TypeOK, HandlerThrows, WriteThrows
<1>2. FrontendTypeOK' /\ CallInv'
  BY <1>1, ThrowTypes DEF HandlerThrows, WriteThrows
<1>3. loaded' \in [got : [Cell -> Version], want : [Cell -> Version]]
  BY NodeTypes DEF HandlerThrows, WriteThrows, Throw, NotLoaded
<1>4. FileType(m_jsonVals', m_dirty', disk') /\ UNCHANGED <<fixed, m_work, flags, isOpen>>
  <2>1. HandlersTypeOK
    BY SplitTypes
  <2>2. CASE HandlerThrows
    BY <2>1, <2>2 DEF HandlerThrows, untouched, file, HandlersTypeOK, FileType
  <2>3. CASE WriteThrows
    <3>1. m_jsonVals' \in Contents /\ m_dirty' = m_dirty /\ disk' = Torn
      BY <2>1, <2>3, PutFailsTypes DEF WriteThrows
    <3> QED
      BY <2>1, <2>3, <3>1 DEF WriteThrows, untouched, HandlersTypeOK, FileType
  <2> QED
    BY <2>2, <2>3
<1>5. HandlersTypeOK'
  BY <1>3, <1>4, SplitTypes DEF HandlersTypeOK, fixed, flags, FileType
<1> QED
  BY <1>2, <1>5, SplitTypes

\* The files an earlier program has left.
LEMMA ExistingNodes == \A n \in ExistingNode : n \in Node
<1>1. [k \in Cell |-> IF k = 1 THEN 0 ELSE 1] \in [Cell -> Version] /\ Cell \in SUBSET Cell
  BY VersionTypes
<1> QED
  BY <1>1, NodeTypes, VersionTypes DEF ExistingNode, Node, Kind

LEMMA TypesInit ==
  ASSUME Init
  PROVE  TypeOK /\ CallInv
<1>1. Nothing \in [Cell -> Version] /\ NotLoaded \in [got : [Cell -> Version], want : [Cell -> Version]]
  BY NodeTypes DEF NotLoaded
<1>2. access \in Access /\ backend \in Backend /\ encoding \in Encoding
  BY ModesAssumption DEF Init, AllModes
<1>3. \A n \in ExistingNode : n \in Node
  BY ExistingNodes
<1>4. \A n \in ExistingNode : Parsed(n) \in RecordComponent
  <2> SUFFICES ASSUME NEW n \in ExistingNode PROVE Parsed(n) \in RecordComponent
    OBVIOUS
  <2>1. n \in Node /\ (n.kind = "group") \in BOOLEAN
    BY <1>3
  <2> QED
    BY <2>1, NewComponentType DEF Parsed, RecordComponent, Node
<1>5. /\ fileWritten \in BOOLEAN /\ recordWritten \in BOOLEAN
      /\ written \in [Comp -> BOOLEAN] /\ isOpen \in BOOLEAN
      /\ m_dirty \in BOOLEAN /\ m_jsonVals = None /\ loaded = NotLoaded
  <2>1. written = [c \in Comp |-> c \in components] /\ recordWritten = (components # {})
    BY DEF Init
  <2>2. \A c \in Comp : (c \in components) \in BOOLEAN
    OBVIOUS
  <2>3. written \in [Comp -> BOOLEAN]
    BY <2>1, <2>2, Zenon
  <2>4. recordWritten \in BOOLEAN
    BY <2>1, Zenon
  <2>5. /\ fileWritten = FALSE /\ isOpen = FALSE /\ m_dirty = FALSE
        /\ m_jsonVals = None /\ loaded = NotLoaded
    BY DEF Init
  <2> QED
    BY <2>3, <2>4, <2>5
<1>6. CASE access = "CREATE"
  <2>1. /\ disk = None /\ components = {} /\ m_work = <<>> /\ phase = "idle"
        /\ call.op = "none" /\ call \in [op : Calls, comp : Comp \cup {None}]
    BY <1>6 DEF Init, InitContents, NoCall, Call, Calls
  <2>2. rc \in [Comp -> RecordComponent] /\ stored \in [Comp -> [Cell -> Version]]
    BY <1>1, <1>6, NewComponentType DEF Init, InitContents
  <2>3. HandlersTypeOK
    BY <1>1, <1>2, <1>5, <2>1 DEF HandlersTypeOK
  <2>4. FrontendTypeOK
    BY <2>1, <2>2, BoundAssumption, FailuresAssumption DEF Init, FrontendTypeOK
  <2> QED
    BY <2>1, <2>3, <2>4, SplitTypes DEF Init, CallInv
<1>7. CASE access # "CREATE"
  <2>1. /\ disk \in [Comp -> ExistingNode] /\ components \subseteq Comp /\ phase = "drain"
        /\ m_work = parseTasks
        /\ call.op = "construct" /\ call \in [op : Calls, comp : Comp \cup {None}]
    BY <1>7, ExistingAssumption DEF Init, InitContents, AllFiles, Call, Calls
  <2>2. disk \in Contents
    BY <1>3, <2>1 DEF Contents
  <2>3. rc \in [Comp -> RecordComponent]
    BY <1>4, <1>7, <2>1, NewComponentType DEF Init, InitContents
  <2>4. stored \in [Comp -> [Cell -> Version]]
    <3>1. \A c \in Comp : disk[c].cells \in [Cell -> Version]
      BY <2>2 DEF Contents, Node
    <3> QED
      BY <1>7, <3>1 DEF Init, InitContents
  <2>5. HandlersTypeOK
    BY <1>1, <1>2, <1>5, <2>1, <2>2, FlushTasksType DEF HandlersTypeOK
  <2>6. FrontendTypeOK
    BY <2>1, <2>3, <2>4, BoundAssumption, FailuresAssumption DEF Init, FrontendTypeOK
  <2> QED
    BY <2>1, <2>5, <2>6, SplitTypes DEF Init, CallInv
<1> QED
  BY <1>6, <1>7

LEMMA TypesNext ==
  ASSUME TypeOK, CallInv, [Next]_vars
  PROVE  TypeOK' /\ CallInv'
<1>1. CASE UNCHANGED vars
  BY <1>1, SplitTypes, SameHandlers
     DEF vars, FrontendTypeOK, CallInv, frontend, control, counters
<1> QED
  BY <1>1, UserChanges, UserCalls, VisitTypes, VisitedTypes, DrainTypes, DrainedTypes,
     FailureTypes DEF Next

\* Every variable keeps its type, for every set of components, every bound and
\* every combination of access mode, backend and encoding.
THEOREM TypeCorrect == Spec => []TypeOK
<1>1. Init => TypeOK /\ CallInv
  BY TypesInit
<1>2. TypeOK /\ CallInv /\ [Next]_vars => TypeOK' /\ CallInv'
  BY TypesNext
<1> QED
  BY <1>1, <1>2, PTL DEF Spec

-----------------------------------------------------------------------------
(* Files that a failed write has truncated.                                *)

\* The task that failed is at the head of the queue and will write the file.
Pending ==
  m_work # <<>> /\ ~Skipped(Head(m_work)) /\ Head(m_work).op \in Putters

\* What makes NothingTornForGood inductive: the task that is left is one that
\* writes the file.
TornInv ==
  disk = Torn /\ phase # "gone" =>
    backend = "JSON" /\ m_jsonVals # None /\ (m_dirty \/ Pending)

\* Whether the head of the queue is skipped depends on flags that only handlers
\* set, and tasks are enqueued behind it.
LEMMA PendingStays ==
  ASSUME TypeOK, Pending, UNCHANGED <<fixed, flags>>, NEW s \in Seq(IOTask),
         m_work' = m_work \/ m_work' = m_work \o s
  PROVE  Pending'
<1>1. m_work \in Seq(IOTask) /\ m_work # <<>>
  BY DEF TypeOK, HandlersTypeOK, Pending
<1>2. Head(m_work \o s) = Head(m_work) /\ m_work \o s # <<>>
  BY <1>1
<1>3. Head(m_work') = Head(m_work) /\ m_work' # <<>>
  BY <1>1, <1>2
<1> QED
  BY <1>3 DEF Pending, Skipped, fixed, flags

\* A step of the frontend that leaves file and flags alone.
LEMMA FrontendTorn ==
  ASSUME TypeOK, TornInv, UNCHANGED <<fixed, flags, file>>, NEW s \in Seq(IOTask),
         m_work' = m_work \/ m_work' = m_work \o s, phase # "gone"
  PROVE  TornInv'
BY PendingStays DEF TornInv, fixed, file

LEMMA DrainTorn ==
  ASSUME TypeOK, TornInv, Drain
  PROVE  TornInv'
<1> DEFINE t == Head(m_work)
<1>1. HandlersTypeOK /\ phase = "drain" /\ phase' = "drain"
  BY DEF TypeOK, Drain, control
<1>2. disk = Torn => backend = "JSON" /\ m_jsonVals # None /\ (m_dirty \/ Pending)
  BY <1>1 DEF TornInv
<1>3. \A K \in Contents : K # None /\ K # Torn
  BY FileAssumption
<1>4. CASE ProcessTask
  <2>1. t \in IOTask /\ ~Refused(t) /\ Execute(t) /\ backend' = backend
    BY <1>1, <1>4 DEF ProcessTask, HandlersTypeOK, fixed
  <2>2. CASE /\ UNCHANGED file
             /\ Skipped(t) \/ t.op = "OPEN_FILE" \/ (t.op = "CLOSE_FILE" /\ m_jsonVals = None)
    BY <1>2, <2>1, <2>2 DEF file, TornInv, Pending, Putters
  <2>3. CASE t.op \notin Putters /\ \E K \in Contents : markDirty(K)
    BY <1>2, <1>3, <2>1, <2>3 DEF markDirty, TornInv, Pending
  <2>4. CASE \E K \in Contents : putJsonContents(K)
    BY <1>3, <2>4 DEF putJsonContents, TornInv
  <2>5. CASE t.op \in Readers /\ obtainJsonContents /\ Legible
    BY <1>1, <1>2, <1>3, <2>1, <2>5, LegibleContents
       DEF obtainJsonContents, TornInv, Pending, Readers, Putters
  <2> QED
    BY <1>1, <2>1, <2>2, <2>3, <2>4, <2>5, ExecuteCases
<1>5. CASE FlushDirty
  <2>1. CASE m_jsonVals # None
    BY <1>1, <1>3, <1>5, <2>1, LegibleContents DEF FlushDirty, putJsonContents, TornInv
  <2>2. CASE m_jsonVals = None
    BY <1>2, <1>5, <2>2 DEF FlushDirty, TornInv
  <2> QED
    BY <2>1, <2>2
<1> QED
  BY <1>4, <1>5 DEF Drain

LEMMA WriteThrowsTorn ==
  ASSUME TypeOK, WriteThrows
  PROVE  TornInv'
<1>1. m_jsonVals' # None /\ m_dirty' = m_dirty /\ backend = "JSON"
  BY PutFailsTypes, FileAssumption DEF WriteThrows, PutFails, TypeOK
<1>2. m_dirty \/ Pending
  BY DEF WriteThrows, PutFails, Pending
<1>3. UNCHANGED <<fixed, flags, m_work>>
  BY DEF WriteThrows, untouched
<1>4. Pending => Pending'
  BY <1>3, SeqTypes, PendingStays
<1> QED
  BY <1>1, <1>2, <1>3, <1>4 DEF TornInv, fixed

LEMMA TornNext ==
  ASSUME TypeOK, TornInv, [Next]_vars
  PROVE  TornInv'
<1> USE SeqTypes
<1>1. CASE \E c \in Comp :
             \/ Component(c) \/ makeConstant(c) \/ setAttribute(c) \/ EraseUnwritten(c)
             \/ \E e \in 0 .. MaxExtent : resetDataset(c, e)
             \/ \E b \in SUBSET Cell : storeChunk(c, b) \/ loadChunk(c, b)
  <2>1. phase = "idle" /\ UNCHANGED backendVars
    BY <1>1 DEF Component, makeConstant, setAttribute, EraseUnwritten, resetDataset,
                storeChunk, loadChunk, Idle
  <2> QED
    BY <2>1, FrontendTorn DEF backendVars
<1>2. ASSUME NEW c \in Comp, EraseWritten(c) \/ DeleteAttribute(c) \/ AvailableChunks(c)
      PROVE  TornInv'
  <2>1. /\ <<Task("DELETE_PATH", c, {}, 0)>> \in Seq(IOTask)
        /\ <<Task("DELETE_ATT", c, {}, 0)>> \in Seq(IOTask)
        /\ <<Task("AVAILABLE_CHUNKS", c, {}, 0)>> \in Seq(IOTask)
    BY TaskType, VersionTypes, CompAssumption DEF Operation, FileTasks
  <2>2. UNCHANGED <<fixed, flags, file>> /\ phase = "idle"
    BY <1>2 DEF EraseWritten, DeleteAttribute, AvailableChunks, Begin
  <2> QED
    BY <1>2, <2>1, <2>2, FrontendTorn DEF EraseWritten, DeleteAttribute, AvailableChunks, enqueue
<1>3. CASE flush \/ Destroy \/ FlushEmpty
  <2>1. UNCHANGED <<fixed, flags, file>> /\ phase = "idle"
    BY <1>3 DEF flush, Destroy, Flush, FlushEmpty, Begin
  <2>2. flushTasks \in Seq(IOTask) /\ flushTasks \o recordTasks \in Seq(IOTask)
    BY FlushTasksType
  <2> QED
    BY <1>3, <2>1, <2>2, FrontendTorn DEF flush, Destroy, Flush, FlushEmpty, enqueue
<1>4. ASSUME NEW c \in Comp, Visit(c)
      PROVE  TornInv'
  <2>1. UNCHANGED <<fixed, flags, file>> /\ phase = "flush" /\ m_work' = m_work \o componentTasks(c)
    BY <1>4 DEF Visit, enqueue
  <2> QED
    BY <2>1, ComponentTasksType, FrontendTorn
<1>5. CASE Visited
  BY <1>5, FrontendTorn DEF Visited, backendVars
<1>6. CASE Drain
  BY <1>6, DrainTorn
<1>7. CASE Drained
  BY <1>7, FrontendTorn DEF Drained, untouched
<1>8. CASE HandlerThrows
  BY <1>8, FrontendTorn DEF HandlerThrows, untouched
<1>9. CASE WriteThrows
  BY <1>9, WriteThrowsTorn
<1>10. CASE UNCHANGED vars
  <2>1. UNCHANGED <<backendVars, phase>>
    BY <1>10 DEF vars, control
  <2>2. CASE phase # "gone"
    BY <2>1, <2>2, FrontendTorn DEF backendVars
  <2>3. CASE phase = "gone"
    BY <2>1, <2>3 DEF TornInv
  <2> QED
    BY <2>2, <2>3
<1> QED
  BY <1>1, <1>2, <1>3, <1>4, <1>5, <1>6, <1>7, <1>8, <1>9, <1>10 DEF Next

\* Whatever fails when, JSON can still write a file that a failed write has
\* truncated, as long as there is a Series.
THEOREM TruncatedFilesRecover == Spec => []NothingTornForGood
<1>1. Init => TypeOK /\ CallInv
  BY TypesInit
<1>2. Init => TornInv
  <2> SUFFICES ASSUME Init PROVE TornInv
    OBVIOUS
  <2>1. CASE access = "CREATE"
    BY <2>1, FileAssumption DEF Init, InitContents, TornInv
  <2>2. CASE access # "CREATE"
    <3>1. disk \in [Comp -> ExistingNode]
      BY <2>2, ExistingAssumption DEF Init, InitContents, AllFiles
    <3>2. disk \in Contents
      BY <3>1, ExistingNodes DEF Contents
    <3> QED
      BY <3>2, FileAssumption DEF TornInv
  <2> QED
    BY <2>1, <2>2
<1>3. TypeOK /\ CallInv /\ [Next]_vars => TypeOK' /\ CallInv'
  BY TypesNext
<1>4. TypeOK /\ TornInv /\ [Next]_vars => TornInv'
  BY TornNext
<1>5. TornInv => NothingTornForGood
  BY DEF TornInv, NothingTornForGood, Pending
<1> QED
  BY <1>1, <1>2, <1>3, <1>4, <1>5, PTL DEF Spec
=============================================================================
