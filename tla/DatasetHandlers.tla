--------------------------- MODULE DatasetHandlers ---------------------------
(***************************************************************************)
(* What the JSON and HDF5 backends do with the tasks of one file that      *)
(* holds one record: its components are datasets, or groups with a         *)
(* constant value.                                                         *)
(*                                                                         *)
(* HDF5 changes the file at once.  JSON works on a copy of the whole file  *)
(* in memory, m_jsonVals: tasks that create something or write an          *)
(* attribute change the copy and mark it in m_dirty, tasks that write data *)
(* or delete something also truncate the file, write it as a whole and     *)
(* drop the copy, and what is dirty when the queue is empty is written     *)
(* then.                                                                   *)
(*                                                                         *)
(* Contents are versions, 0 standing for "never written".                  *)
(***************************************************************************)
EXTENDS Naturals, Sequences

CONSTANTS
  Comp,         \* the components of the record
  MaxExtent,    \* bound on the extent of a dataset
  MaxChanges,   \* bound on the user's changes, each with a version of its own
  None,         \* no such file, no such copy, no component
  Torn          \* a file that was truncated and not written

ASSUME CompAssumption == Comp \subseteq Nat /\ None \notin Comp
ASSUME BoundAssumption == MaxExtent \in Nat \ {0} /\ MaxChanges \in Nat

Cell    == 1 .. MaxExtent
Version == 0 .. MaxChanges + 1
Kind    == {"none", "dataset", "group"}
Node    == [kind : Kind, box : SUBSET Cell, cells : [Cell -> Version],
            value : Version, att : Version]
Contents == [Comp -> Node]

ASSUME FileAssumption == None \notin Contents /\ Torn \notin Contents /\ None # Torn

Nothing == [k \in Cell |-> 0]
NoNode  == [kind |-> "none", box |-> {}, cells |-> Nothing, value |-> 0, att |-> 0]
Blank   == [c \in Comp |-> NoNode]
NotLoaded == [got |-> Nothing, want |-> Nothing]

VARIABLES
  access,        \* m_backendAccess
  backend,       \* which implementation serves the queue
  encoding,      \* iteration encoding: one file, or one per iteration
  m_work,        \* AbstractIOHandler::m_work
  fileWritten,   \* Writable::written of the Series
  recordWritten, \* Writable::written of the record
  written,       \* Writable::written of the components
  isOpen,        \* the file is open: m_fileNamesWithID, m_files
  m_jsonVals,    \* JSON's copy of the file, or None
  m_dirty,       \* JSON: the copy has to be written at the end of a flush
  disk,          \* the file
  loaded         \* what a READ_DATASET of this flush gave, and what was asked for

flags  == <<fileWritten, recordWritten, written>>
file   == <<m_jsonVals, m_dirty, disk>>
fixed  == <<access, backend, encoding>>

Access    == {"READ_ONLY", "READ_WRITE", "CREATE"}
Backend   == {"JSON", "HDF5"}
Encoding  == {"groupBased", "fileBased"}
Operation == {"CREATE_FILE", "OPEN_FILE", "CLOSE_FILE", "READ_ATT", "CREATE_PATH",
              "CREATE_GROUP", "WRITE_VALUE", "WRITE_SHAPE", "CREATE_DATASET",
              "WRITE_DATASET", "READ_DATASET", "WRITE_ATT", "DELETE_ATT",
              "DELETE_PATH", "AVAILABLE_CHUNKS"}

\* `box' is the extent of a dataset or the cells of a chunk, `want' what the
\* user expects to load: it is not part of the code.
FileTasks == {"CREATE_FILE", "OPEN_FILE", "CLOSE_FILE", "READ_ATT", "CREATE_PATH"}
IOTask == {t \in [op : Operation, comp : Comp \cup {None}, box : SUBSET Cell,
                  ver : Version, want : [Cell -> Version]] :
             t.op \in FileTasks <=> t.comp = None}
Task(o, c, b, v) == [op |-> o, comp |-> c, box |-> b, ver |-> v, want |-> Nothing]
FileTask(o) == Task(o, None, {}, 0)
Readers == {"READ_ATT", "READ_DATASET", "AVAILABLE_CHUNKS"}
Putters == {"CLOSE_FILE", "WRITE_DATASET", "DELETE_ATT", "DELETE_PATH"}
Writers == Operation \ (Readers \cup {"OPEN_FILE", "CLOSE_FILE"})

enqueue(tasks) == m_work' = m_work \o tasks
QueuedFor(c) == \E k \in DOMAIN m_work : m_work[k].comp = c

-----------------------------------------------------------------------------
(* JSON's copy, HDF5's file.                                               *)

\* obtainJsonContents: the copy, else what is read from the file.
contents == IF m_jsonVals # None THEN m_jsonVals ELSE disk
Legible  == contents \notin {None, Torn}

\* Mutant: the change is forgotten when the queue is empty.
markClean(K) ==
  IF backend = "JSON"
  THEN m_jsonVals' = K /\ UNCHANGED <<m_dirty, disk>>
  ELSE disk' = K /\ UNCHANGED <<m_jsonVals, m_dirty>>

markDirty(K) ==
  IF backend = "JSON"
  THEN m_jsonVals' = K /\ m_dirty' = TRUE /\ UNCHANGED disk
  ELSE disk' = K /\ UNCHANGED <<m_jsonVals, m_dirty>>

putJsonContents(K) ==
  IF backend = "JSON"
  THEN m_jsonVals' = None /\ m_dirty' = FALSE /\ disk' = K
  ELSE disk' = K /\ UNCHANGED <<m_jsonVals, m_dirty>>

obtainJsonContents ==
  /\ m_jsonVals' = IF backend = "JSON" THEN contents ELSE None
  /\ UNCHANGED <<m_dirty, disk>>

\* What a task leaves of the contents K of the file.
withCells(K, c, b, v) ==
  [K EXCEPT ![c].cells = [k \in Cell |-> IF k \in b THEN v ELSE @[k]]]
withoutPath(K, c) == [K EXCEPT ![c] = NoNode]
\* JSON erases the name from the object, but keeps attributes in a member
\* "attributes" of it: nothing is deleted.
withoutAttribute(K, c) == IF backend = "JSON" THEN K ELSE [K EXCEPT ![c].att = 0]

Result(t) ==
  CASE t.op = "WRITE_DATASET" -> withCells(contents, t.comp, t.box, t.ver)
    [] t.op = "DELETE_PATH"   -> withoutPath(contents, t.comp)
    [] t.op = "DELETE_ATT"    -> withoutAttribute(contents, t.comp)
    [] OTHER                  -> contents

-----------------------------------------------------------------------------
(* When a handler returns silently, when it throws.                        *)

\* Mutant: a dataset is created again.
SkippedWithoutDatasets(t) ==
  \/ t.op = "CREATE_FILE" /\ fileWritten
  \/ t.op = "CREATE_PATH" /\ backend = "HDF5" /\ recordWritten
  \/ t.op = "CREATE_GROUP" /\ backend = "HDF5" /\ written[t.comp]
  \/ t.op \in {"DELETE_PATH", "DELETE_ATT"} /\ ~written[t.comp]

Skipped(t) ==
  \/ t.op = "CREATE_FILE" /\ fileWritten
  \/ t.op = "CREATE_PATH" /\ backend = "HDF5" /\ recordWritten
  \/ t.op = "CREATE_GROUP" /\ backend = "HDF5" /\ written[t.comp]
  \/ t.op = "CREATE_DATASET" /\ written[t.comp]
  \/ t.op \in {"DELETE_PATH", "DELETE_ATT"} /\ ~written[t.comp]

\* verifyDataset: it must be a dataset, and the chunk inside of it.
Fits(t) == LET n == contents[t.comp] IN n.kind = "dataset" /\ t.box \subseteq n.box

\* JSON cannot convert the null of a cell that was never written.
Refused(t) ==
  \/ t.op \in Writers /\ access = "READ_ONLY"
  \/ ~Skipped(t) /\
     CASE t.op = "CREATE_FILE" -> FALSE
       [] t.op = "OPEN_FILE" -> backend = "HDF5" /\ ~Legible
       [] t.op = "CLOSE_FILE" -> backend = "HDF5" /\ ~isOpen
       [] t.op \in {"READ_ATT", "CREATE_PATH", "CREATE_GROUP", "WRITE_VALUE",
                    "WRITE_SHAPE", "WRITE_ATT"} -> ~isOpen \/ ~Legible
       [] t.op = "CREATE_DATASET" ->
            \/ ~isOpen \/ ~Legible
            \/ backend = "HDF5" /\ contents[t.comp].kind # "none"
       [] t.op = "WRITE_DATASET" -> ~isOpen \/ ~Legible \/ ~Fits(t)
       [] t.op = "READ_DATASET" ->
            \/ ~isOpen \/ ~Legible \/ ~Fits(t)
            \/ backend = "JSON" /\ \E k \in t.box : contents[t.comp].cells[k] = 0
       [] t.op = "DELETE_ATT" ->
            \/ ~isOpen \/ ~Legible
            \/ backend = "HDF5" /\ contents[t.comp].att = 0
       [] t.op = "DELETE_PATH" ->
            \/ ~isOpen \/ ~Legible
            \/ backend = "HDF5" /\ contents[t.comp].kind = "none"
       [] OTHER ->
            \/ ~isOpen \/ ~Legible
            \/ backend = "HDF5" /\ contents[t.comp].kind # "dataset"

-----------------------------------------------------------------------------
(* One action per handler.                                                 *)

createFile ==
  /\ markDirty(Blank)
  /\ fileWritten' = TRUE
  /\ isOpen' = TRUE
  /\ UNCHANGED <<recordWritten, written, loaded>>

\* JSON does not look at the file before it is read.
openFile ==
  /\ isOpen' = TRUE
  /\ fileWritten' = (fileWritten \/ backend = "JSON" \/ ~isOpen)
  /\ UNCHANGED <<recordWritten, written, file, loaded>>

\* JSON writes its copy back, if it has one, in every access mode.
closeFile ==
  /\ isOpen' = FALSE
  /\ IF m_jsonVals # None THEN putJsonContents(contents) ELSE UNCHANGED file
  /\ UNCHANGED <<flags, loaded>>

createPath ==
  /\ markDirty(contents)
  /\ recordWritten' = TRUE
  /\ UNCHANGED <<fileWritten, written, isOpen, loaded>>

createGroup(c) ==
  /\ markDirty([contents EXCEPT ![c].kind = IF @ = "none" THEN "group" ELSE @])
  /\ written' = [written EXCEPT ![c] = TRUE]
  /\ UNCHANGED <<fileWritten, recordWritten, isOpen, loaded>>

createDataset(c, b) ==
  /\ markDirty([contents EXCEPT ![c] =
                  [NoNode EXCEPT !.kind = "dataset", !.box = b]])
  /\ written' = [written EXCEPT ![c] = TRUE]
  /\ UNCHANGED <<fileWritten, recordWritten, isOpen, loaded>>

\* writeAttribute, by the attributes the model tells apart.
writeAttribute(t) ==
  /\ markDirty(CASE t.op = "WRITE_VALUE" -> [contents EXCEPT ![t.comp].value = t.ver]
                 [] t.op = "WRITE_SHAPE" -> [contents EXCEPT ![t.comp].box = t.box]
                 [] OTHER                -> [contents EXCEPT ![t.comp].att = t.ver])
  /\ written' = [written EXCEPT ![t.comp] = @ \/ backend = "JSON"]
  /\ UNCHANGED <<fileWritten, recordWritten, isOpen, loaded>>

writeDataset(t) ==
  /\ putJsonContents(Result(t))
  /\ written' = [written EXCEPT ![t.comp] = @ \/ backend = "JSON"]
  /\ UNCHANGED <<fileWritten, recordWritten, isOpen, loaded>>

deletePath(t) ==
  /\ putJsonContents(Result(t))
  /\ written' = [written EXCEPT ![t.comp] = FALSE]
  /\ UNCHANGED <<fileWritten, recordWritten, isOpen, loaded>>

deleteAttribute(t) ==
  /\ putJsonContents(Result(t))
  /\ UNCHANGED <<flags, isOpen, loaded>>

\* The listing and reading of a parser.
readAttribute ==
  /\ obtainJsonContents
  /\ UNCHANGED <<flags, isOpen, loaded>>

readDataset(t) ==
  /\ obtainJsonContents
  /\ loaded' = [got  |-> [k \in Cell |-> IF k \in t.box
                                         THEN contents[t.comp].cells[k] ELSE 0],
                want |-> t.want]
  /\ UNCHANGED <<flags, isOpen>>

\* The table it returns is ChunkTables' subject.
availableChunks == readAttribute

Execute(t) ==
  \/ Skipped(t) /\ UNCHANGED <<flags, isOpen, file, loaded>>
  \/ /\ ~Skipped(t)
     /\ \/ t.op = "CREATE_FILE" /\ createFile
        \/ t.op = "OPEN_FILE" /\ openFile
        \/ t.op = "CLOSE_FILE" /\ closeFile
        \/ t.op = "CREATE_PATH" /\ createPath
        \/ t.op = "CREATE_GROUP" /\ createGroup(t.comp)
        \/ t.op = "CREATE_DATASET" /\ createDataset(t.comp, t.box)
        \/ t.op \in {"WRITE_VALUE", "WRITE_SHAPE", "WRITE_ATT"} /\ writeAttribute(t)
        \/ t.op = "WRITE_DATASET" /\ writeDataset(t)
        \/ t.op = "DELETE_PATH" /\ deletePath(t)
        \/ t.op = "DELETE_ATT" /\ deleteAttribute(t)
        \/ t.op = "READ_ATT" /\ readAttribute
        \/ t.op = "READ_DATASET" /\ readDataset(t)
        \/ t.op = "AVAILABLE_CHUNKS" /\ availableChunks

\* AbstractIOHandlerImpl::flush, one turn of its loop.
ProcessTask ==
  /\ m_work # <<>>
  /\ ~Refused(Head(m_work))
  /\ Execute(Head(m_work))
  /\ m_work' = Tail(m_work)
  /\ UNCHANGED fixed

\* The end of JSONIOHandlerImpl::flush: what is dirty is written.
FlushDirty ==
  /\ m_work = <<>>
  /\ m_dirty
  /\ IF m_jsonVals # None THEN putJsonContents(contents)
     ELSE m_dirty' = FALSE /\ UNCHANGED <<m_jsonVals, disk>>
  /\ UNCHANGED <<fixed, m_work, flags, isOpen, loaded>>

\* Mutant: the copy is dropped before the file is written.
PutFailsWithoutCopy ==
  /\ backend = "JSON"
  /\ \/ /\ m_work # <<>>
        /\ ~Skipped(Head(m_work))
        /\ ~Refused(Head(m_work))
        /\ Head(m_work).op \in Putters
     \/ m_work = <<>> /\ m_dirty
  /\ m_jsonVals' = None
  /\ disk' = Torn
  /\ UNCHANGED m_dirty

\* JSON truncates the file before it writes it.  When that fails, the copy is
\* as the task has made it, the file is empty, and the task is not popped.
PutFails ==
  /\ backend = "JSON"
  /\ \/ /\ m_work # <<>>
        /\ ~Skipped(Head(m_work))
        /\ ~Refused(Head(m_work))
        /\ Head(m_work).op \in Putters
        /\ Head(m_work).op = "CLOSE_FILE" => m_jsonVals # None
        /\ m_jsonVals' = Result(Head(m_work))
     \/ m_work = <<>> /\ m_dirty /\ m_jsonVals # None /\ UNCHANGED m_jsonVals
  /\ disk' = Torn
  /\ UNCHANGED m_dirty

-----------------------------------------------------------------------------
HandlersTypeOK ==
  /\ access \in Access
  /\ backend \in Backend
  /\ encoding \in Encoding
  /\ m_work \in Seq(IOTask)
  /\ fileWritten \in BOOLEAN
  /\ recordWritten \in BOOLEAN
  /\ written \in [Comp -> BOOLEAN]
  /\ isOpen \in BOOLEAN
  /\ m_jsonVals \in Contents \cup {None}
  /\ m_dirty \in BOOLEAN
  /\ disk \in Contents \cup {None, Torn}
  /\ loaded \in [got : [Cell -> Version], want : [Cell -> Version]]
=============================================================================
