------------------------------ MODULE IOHandler ------------------------------
(***************************************************************************)
(* The I/O queue of openPMD-api and what the two serial file backends      *)
(* (JSON, HDF5) do with the tasks of a file-based Series.                  *)
(*                                                                         *)
(* In file-based encoding every iteration lives in a file of its own, but  *)
(* the Series and the container `iterations' are single Writables that are *)
(* re-associated with one file after the other while tasks are executed.   *)
(* Which file a task touches is decided when the task RUNS, from these     *)
(* associations and from the `written' flags, not when it is enqueued.     *)
(*                                                                         *)
(* A file is named by the iteration it belongs to.  Contents are versions: *)
(* the number of times the user changed the attributes or the data.        *)
(***************************************************************************)
EXTENDS Naturals, Sequences

CONSTANTS
  Iter,         \* the iteration indices a run may use
  MaxVersion,   \* bound on the versions of one attribute set or dataset
  None          \* "no file" / "no iteration"

ASSUME IterAssumption == Iter \subseteq Nat
ASSUME VersionAssumption == MaxVersion \in Nat \ {0}
ASSUME NoneAssumption == None \notin Iter

VARIABLES
  access,          \* m_backendAccess, never changed
  backend,         \* which handler implementation serves the queue
  m_work,          \* AbstractIOHandler::m_work
  seriesWritten,   \* Writable::written of the Series
  basePathWritten, \* Writable::written of Series::iterations
  written,         \* Writable::written of every iteration
  seriesFile,      \* file the Series' Writable is associated with
  basePathFile,    \* file Series::iterations is associated with
  iterationFile,   \* file every iteration's Writable is associated with
  openFiles,       \* files that are open in the backend
  onDisk,          \* files that exist
  disk,            \* disk[f][i]: what file f holds of iteration i
  diskSeries       \* diskSeries[f]: the Series attributes in file f

flags  == <<seriesWritten, basePathWritten, written>>
assocs == <<seriesFile, basePathFile, iterationFile>>
files  == <<openFiles, onDisk, disk, diskSeries>>
fixed  == <<access, backend>>

Access  == {"READ_ONLY", "READ_WRITE", "CREATE"}
Backend == {"JSON", "HDF5"}
Version == 0 .. MaxVersion
Content == [attr : Version, group : Version, data : Version]
Blank   == [attr |-> 0, group |-> 0, data |-> 0]

Operation == {"CREATE_FILE", "OPEN_FILE", "CREATE_BASEPATH", "OPEN_BASEPATH",
              "CREATE_PATH", "OPEN_PATH", "WRITE_DATASET", "READ_DATASET",
              "WRITE_ATT", "WRITE_GROUP_ATT", "WRITE_SERIES_ATT",
              "WRITE_MESHES_PATH", "ADVANCE", "CLOSE_FILE"}

\* `it' is the iteration the task was created for: its Writable, or the one
\* whose file name the parameter carries.
IOTask == [op : Operation, it : Iter, ver : Version]
Task(o, i) == [op |-> o, it |-> i, ver |-> 0]
VersionTask(o, i, v) == [op |-> o, it |-> i, ver |-> v]

Queued(t) == \E k \in DOMAIN m_work : m_work[k] = t

-----------------------------------------------------------------------------
(* Which file a task reaches, and when the backend throws.                 *)

\* HDF5 asks for the Writable's own association and falls back to its
\* parent's when that file is not open; JSON refreshes from the parent.
FileOfIteration(i) ==
  IF backend = "HDF5" /\ iterationFile[i] \in openFiles
  THEN iterationFile[i]
  ELSE basePathFile

FileOf(t) ==
  CASE t.op \in {"CREATE_FILE", "OPEN_FILE"} -> t.it
    [] t.op \in {"CREATE_BASEPATH", "OPEN_BASEPATH", "WRITE_SERIES_ATT",
                 "WRITE_MESHES_PATH"} -> seriesFile
    [] t.op \in {"CREATE_PATH", "OPEN_PATH"} -> basePathFile
    [] t.op \in {"WRITE_ATT"} -> FileOfIteration(t.it)
    [] OTHER -> iterationFile[t.it]

\* Tasks the code executes only if the Writable is not `written' yet; they
\* return silently otherwise.  JSON's createPath has no such guard.
Skipped(t) ==
  \/ t.op = "CREATE_FILE" /\ seriesWritten
  \/ backend = "HDF5" /\ t.op = "CREATE_BASEPATH" /\ basePathWritten
  \/ backend = "HDF5" /\ t.op = "CREATE_PATH" /\ written[t.it]

\* The task throws whatever the state of the storage is.  (JSON would miss a
\* file that does not exist one task later, when OPEN_BASEPATH reads it.)
Refused(t) ==
  /\ ~Skipped(t)
  /\ CASE t.op = "CREATE_FILE" ->
            \/ access = "READ_WRITE" /\ t.it \in onDisk
            \/ backend = "HDF5" /\ t.it \in openFiles
       [] t.op = "OPEN_FILE" -> t.it \notin onDisk
       [] t.op = "ADVANCE" -> FALSE
       [] OTHER -> IF backend = "HDF5" THEN FileOf(t) \notin openFiles
                   ELSE t.op # "CLOSE_FILE" /\ FileOf(t) = None

-----------------------------------------------------------------------------
(* One action per backend handler.                                         *)

createFile(i) ==
  /\ seriesWritten' = TRUE
  /\ seriesFile' = i
  /\ openFiles' = openFiles \cup {i}
  /\ onDisk' = onDisk \cup {i}
  /\ disk' = [disk EXCEPT ![i] = [j \in Iter |-> Blank]]
  /\ diskSeries' = [diskSeries EXCEPT ![i] = 0]
  /\ UNCHANGED <<basePathWritten, written, basePathFile, iterationFile>>

\* HDF5 returns before setting `written' when the file is open already.
openFile(i) ==
  /\ seriesWritten' = (seriesWritten \/ backend = "JSON" \/ i \notin openFiles)
  /\ seriesFile' = i
  /\ openFiles' = openFiles \cup {i}
  /\ UNCHANGED <<basePathWritten, written, basePathFile, iterationFile,
                 onDisk, disk, diskSeries>>

\* createPath and openPath on Series::iterations.
basePath ==
  /\ basePathWritten' = TRUE
  /\ basePathFile' = seriesFile
  /\ UNCHANGED <<seriesWritten, written, seriesFile, iterationFile, files>>

\* createPath and openPath on an iteration.
iterationPath(i) ==
  /\ written' = [written EXCEPT ![i] = TRUE]
  /\ iterationFile' = [iterationFile EXCEPT ![i] = basePathFile]
  /\ UNCHANGED <<seriesWritten, basePathWritten, seriesFile, basePathFile, files>>

writeDataset(i, v) ==
  /\ disk' = [disk EXCEPT ![iterationFile[i]][i].data = v]
  /\ UNCHANGED <<flags, assocs, openFiles, onDisk, diskSeries>>

\* JSON's writeAttribute also associates the Writable with its parent's file
\* and marks it as written.
writeAttribute(i, v) ==
  /\ disk' = [disk EXCEPT ![FileOfIteration(i)][i].attr = v]
  /\ written' = [written EXCEPT ![i] = @ \/ backend = "JSON"]
  /\ iterationFile' = [iterationFile EXCEPT ![i] =
                         IF backend = "JSON" THEN basePathFile ELSE @]
  /\ UNCHANGED <<seriesWritten, basePathWritten, seriesFile, basePathFile,
                 openFiles, onDisk, diskSeries>>

\* writeAttribute on the Container Iteration::meshes, which lives in the
\* file its iteration is associated with.
writeGroupAttribute(i, v) ==
  /\ disk' = [disk EXCEPT ![iterationFile[i]][i].group = v]
  /\ UNCHANGED <<flags, assocs, openFiles, onDisk, diskSeries>>

writeSeriesAttribute(v) ==
  /\ diskSeries' = [diskSeries EXCEPT ![seriesFile] = v]
  /\ seriesWritten' = (seriesWritten \/ backend = "JSON")
  /\ UNCHANGED <<basePathWritten, written, assocs, openFiles, onDisk, disk>>

\* One attribute of the Series, which never changes its value.
writeMeshesPath ==
  /\ seriesWritten' = (seriesWritten \/ backend = "JSON")
  /\ UNCHANGED <<basePathWritten, written, assocs, files>>

closeFile(i) ==
  /\ openFiles' = openFiles \ {iterationFile[i]}
  /\ iterationFile' = [iterationFile EXCEPT ![i] = None]
  /\ UNCHANGED <<flags, seriesFile, basePathFile, onDisk, disk, diskSeries>>

\* readDataset fills the user's buffer; advance is a no-op in JSON and HDF5.
noEffect == UNCHANGED <<flags, assocs, files>>

Execute(t) ==
  \/ Skipped(t) /\ noEffect
  \/ /\ ~Skipped(t)
     /\ \/ t.op = "CREATE_FILE" /\ createFile(t.it)
        \/ t.op = "OPEN_FILE" /\ openFile(t.it)
        \/ t.op \in {"CREATE_BASEPATH", "OPEN_BASEPATH"} /\ basePath
        \/ t.op \in {"CREATE_PATH", "OPEN_PATH"} /\ iterationPath(t.it)
        \/ t.op = "WRITE_DATASET" /\ writeDataset(t.it, t.ver)
        \/ t.op = "WRITE_ATT" /\ writeAttribute(t.it, t.ver)
        \/ t.op = "WRITE_GROUP_ATT" /\ writeGroupAttribute(t.it, t.ver)
        \/ t.op = "WRITE_SERIES_ATT" /\ writeSeriesAttribute(t.ver)
        \/ t.op = "WRITE_MESHES_PATH" /\ writeMeshesPath
        \/ t.op = "CLOSE_FILE" /\ closeFile(t.it)
        \/ t.op \in {"READ_DATASET", "ADVANCE"} /\ noEffect

\* AbstractIOHandlerImpl::flush, one turn of its loop: the task is popped
\* only after its handler has returned.
ProcessTask ==
  /\ m_work # <<>>
  /\ ~Refused(Head(m_work))
  /\ Execute(Head(m_work))
  /\ m_work' = Tail(m_work)
  /\ UNCHANGED fixed

enqueue(tasks) == m_work' = m_work \o tasks

-----------------------------------------------------------------------------
BackendTypeOK ==
  /\ access \in Access
  /\ backend \in Backend
  /\ m_work \in Seq(IOTask)
  /\ seriesWritten \in BOOLEAN
  /\ basePathWritten \in BOOLEAN
  /\ written \in [Iter -> BOOLEAN]
  /\ seriesFile \in Iter \cup {None}
  /\ basePathFile \in Iter \cup {None}
  /\ iterationFile \in [Iter -> Iter \cup {None}]
  /\ openFiles \subseteq Iter
  /\ onDisk \subseteq Iter
  /\ disk \in [Iter -> [Iter -> Content]]
  /\ diskSeries \in [Iter -> Version]
=============================================================================
