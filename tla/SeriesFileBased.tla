--------------------------- MODULE SeriesFileBased ---------------------------
(***************************************************************************)
(* The frontend of a file-based Series: the user's object model, its dirty *)
(* bits, the close status of every iteration, and the calls that turn      *)
(* changes into I/O tasks (Series::flush, Iteration::close, ::open, the    *)
(* step-wise loops over WriteIterations and ReadIterations, and the        *)
(* destructor).                                                            *)
(*                                                                         *)
(* A call is a sequence of steps: one per iteration flushed, one per task  *)
(* the backend executes.  Any of them may throw, and the exception leaves  *)
(* everything behind as it is at that point, the queue included.           *)
(***************************************************************************)
EXTENDS IOHandler

CONSTANTS
  MaxChanges,   \* bound: how many changes the user makes
  MaxFailures,  \* bound: how often a backend handler throws by itself
  MaxBacklog,   \* bound: calls are made with at most this many old tasks queued
  Modes,        \* access modes a run looks at
  Backends,     \* backends a run looks at
  Extras        \* what the user does beyond the plain workflow

ASSUME ChangesAssumption == MaxChanges \in Nat
ASSUME FailureAssumption == MaxFailures \in Nat
ASSUME BacklogAssumption == MaxBacklog \in Nat
ASSUME ModesAssumption == Modes \subseteq Access
ASSUME BackendsAssumption == Backends \subseteq Backend
ASSUME ExtrasAssumption == Extras \subseteq {"empty_record", "group_attribute"}

VARIABLES
  iterations,    \* the indices in Series::iterations
  m_closed,      \* Iteration::m_closed
  dirty,         \* dirty bit of the Iteration object
  pending,       \* chunks wait in the iteration's RecordComponents
  groupDirty,    \* dirty bit of the Container Iteration::meshes
  emptyRecord,   \* the iteration holds a Record without components
  m_stepStatus,  \* Iteration::m_stepStatus
  currentlyOpen, \* WriteIterations' or SeriesIterator's current iteration
  seriesDirty,   \* dirty bit of the Series
  meshesPath,    \* the Series has the attribute "meshesPath"
  seriesAttr,    \* version of the Series attributes
  mem,           \* version of every iteration as the user sees it
  phase,         \* where the call in progress is
  call,          \* its operation and locals
  todo,          \* iterations its flush loop has not reached
  result,        \* how the call that has just ended ended
  failures,      \* handlers that have thrown by themselves so far
  changes        \* changes the user has made so far

objects == <<iterations, m_closed, dirty, pending, groupDirty, emptyRecord,
             m_stepStatus, seriesDirty, meshesPath>>
control == <<phase, call, todo, result, failures>>
user    == <<currentlyOpen, seriesAttr, mem, changes>>
storage == <<flags, assocs, files, fixed>>
vars    == <<objects, control, user, storage, m_work>>

CloseStatus == {"Open", "ClosedInFrontend", "ClosedInBackend", "ClosedTemporarily"}
StepStatus  == {"DuringStep", "NoStep"}

Call == [op : {"none", "flush", "close", "open", "begin", "end", "destroy"},
         it : Iter \cup {None},     \* iteration the call is about
         old : CloseStatus,         \* oldCloseStatus of SeriesImpl::advance
         allDirty : BOOLEAN,        \* allDirty of SeriesImpl::flushFileBased
         next : Iter \cup {None}]   \* iteration to begin a step on afterwards

NoCall == [op |-> "none", it |-> None, old |-> "Open", allDirty |-> FALSE,
           next |-> None]

Result == {"none", "ok", "no_iterations", "closed_access", "internal_error",
           "record", "backend", "deferred_close", "terminate"}

Writing == access # "READ_ONLY"

\* Mutant: children are not asked.
dirtyItself(i) == dirty[i] \/ emptyRecord[i]

\* Iteration::dirtyRecursive: it asks the meshes, not their Container.
dirtyRecursive(i) == dirty[i] \/ pending[i] \/ emptyRecord[i]

\* Iteration::closed
closed(i) == m_closed[i] \in {"ClosedInFrontend", "ClosedInBackend"}

\* std::map keeps the iterations in the order of their indices.
Least(i, S) == i \in S /\ \A j \in S : i <= j

-----------------------------------------------------------------------------
(* Series::init.  Files found on disk are parsed and closed again.  They   *)
(* hold meshes: version 0 is the data as it was found, or none.            *)

Init ==
  /\ access \in Modes
  /\ backend \in Backends
  /\ onDisk \in SUBSET Iter
  /\ access = "CREATE" => onDisk = {}
  /\ access = "READ_ONLY" => onDisk # {}
  /\ mem = [i \in Iter |-> [Blank EXCEPT !.attr = 1]]
  /\ disk = [f \in Iter |-> [i \in Iter |->
               IF f = i /\ i \in onDisk THEN mem[i] ELSE Blank]]
  /\ seriesAttr = 1
  /\ diskSeries = [f \in Iter |-> IF f \in onDisk THEN 1 ELSE 0]
  /\ iterations = onDisk
  /\ m_closed = [i \in Iter |-> IF i \in onDisk THEN "ClosedTemporarily" ELSE "Open"]
  /\ dirty = [i \in Iter |-> i \notin onDisk]
  /\ written = [i \in Iter |-> i \in onDisk]
  /\ iterationFile = [i \in Iter |-> IF i \in onDisk THEN i ELSE None]
  /\ seriesFile = None
  /\ basePathFile \in (IF onDisk = {} THEN {None} ELSE onDisk)
  /\ seriesWritten = (access # "CREATE")
  /\ basePathWritten = (onDisk # {})
  /\ seriesDirty = (onDisk = {})
  /\ meshesPath = (onDisk # {})
  /\ openFiles = {}
  /\ m_work = <<>>
  /\ pending = [i \in Iter |-> FALSE]
  /\ groupDirty = [i \in Iter |-> FALSE]
  /\ emptyRecord = [i \in Iter |-> FALSE]
  /\ m_stepStatus = [i \in Iter |-> "NoStep"]
  /\ currentlyOpen = None
  /\ phase = "idle" /\ call = NoCall /\ todo = {}
  /\ result = "none" /\ failures = 0 /\ changes = 0

-----------------------------------------------------------------------------
(* What the user does between two calls.  Exceptions thrown right away,    *)
(* such as modifying a read-only Series, are guards.                       *)

Idle == phase = "idle"

\* No call is made, and the outcome of the last one is not looked at.
unobserved == result' = "none" /\ UNCHANGED <<phase, call, todo, failures>>

\* A change counts against MaxChanges.
change == changes < MaxChanges /\ changes' = changes + 1 /\ unobserved

Insert(i) ==
  /\ Idle /\ Writing
  /\ i \notin iterations
  /\ iterations' = iterations \cup {i}
  /\ UNCHANGED <<m_closed, dirty, pending, groupDirty, emptyRecord, m_stepStatus,
                 seriesDirty, meshesPath, user, storage, m_work>>
  /\ unobserved

SetAttribute(i) ==
  /\ Idle /\ Writing
  /\ i \in iterations /\ mem[i].attr < MaxVersion
  /\ mem' = [mem EXCEPT ![i].attr = @ + 1]
  /\ dirty' = [dirty EXCEPT ![i] = TRUE]
  /\ UNCHANGED <<iterations, m_closed, pending, groupDirty, emptyRecord, m_stepStatus,
                 seriesDirty, meshesPath, currentlyOpen, seriesAttr, storage, m_work>>
  /\ change

\* RecordComponent::storeChunk; it gives an empty Record its component.
StoreChunk(i) ==
  /\ Idle /\ Writing
  /\ i \in iterations /\ mem[i].data < MaxVersion
  /\ mem' = [mem EXCEPT ![i].data = @ + 1]
  /\ pending' = [pending EXCEPT ![i] = TRUE]
  /\ emptyRecord' = [emptyRecord EXCEPT ![i] = FALSE]
  /\ UNCHANGED <<iterations, m_closed, dirty, groupDirty, m_stepStatus,
                 seriesDirty, meshesPath, currentlyOpen, seriesAttr, storage, m_work>>
  /\ change

LoadChunk(i) ==
  /\ Idle /\ ~Writing
  /\ i \in iterations
  /\ pending' = [pending EXCEPT ![i] = TRUE]
  /\ UNCHANGED <<iterations, m_closed, dirty, groupDirty, emptyRecord, m_stepStatus,
                 seriesDirty, meshesPath, user, storage, m_work>>
  /\ unobserved

CreateEmptyRecord(i) ==
  /\ Idle /\ Writing /\ "empty_record" \in Extras
  /\ i \in iterations
  /\ ~emptyRecord[i]
  /\ emptyRecord' = [emptyRecord EXCEPT ![i] = TRUE]
  /\ UNCHANGED <<iterations, m_closed, dirty, pending, groupDirty, m_stepStatus,
                 seriesDirty, meshesPath, currentlyOpen, seriesAttr, mem, storage,
                 m_work>>
  /\ change

SetGroupAttribute(i) ==
  /\ Idle /\ Writing /\ "group_attribute" \in Extras
  /\ i \in iterations /\ mem[i].group < MaxVersion
  /\ mem' = [mem EXCEPT ![i].group = @ + 1]
  /\ groupDirty' = [groupDirty EXCEPT ![i] = TRUE]
  /\ UNCHANGED <<iterations, m_closed, dirty, pending, emptyRecord, m_stepStatus,
                 seriesDirty, meshesPath, currentlyOpen, seriesAttr, storage, m_work>>
  /\ change

SetSeriesAttribute ==
  /\ Idle /\ Writing
  /\ seriesAttr < MaxVersion
  /\ seriesAttr' = seriesAttr + 1
  /\ seriesDirty' = TRUE
  /\ UNCHANGED <<iterations, m_closed, dirty, pending, groupDirty, emptyRecord,
                 m_stepStatus, meshesPath, currentlyOpen, mem, storage, m_work>>
  /\ change

-----------------------------------------------------------------------------
(* Entering and leaving a call.                                            *)

\* The flush loop is about to visit the iterations S.
startFlush(op, i, old, next, S) ==
  /\ Len(m_work) <= MaxBacklog
  /\ phase' = "flush"
  /\ todo' = S
  /\ call' = [op |-> op, it |-> i, old |-> old, allDirty |-> seriesDirty,
              next |-> next]
  /\ result' = "none"
  /\ UNCHANGED failures

\* Iteration::beginStep and endStep: SeriesImpl::advance pretends that an
\* iteration closed in the frontend is open while it flushes.
startStep(op, i, status, next) ==
  /\ startFlush(op, i, status, next, {i})
  /\ m_closed' = [m_closed EXCEPT ![i] =
                    IF status = "ClosedInFrontend" THEN "Open" ELSE status]

\* ~SharedResources closes the last iteration of WriteIterations, but it runs
\* after ~SeriesInternal: retrieveSeries throws, in a destructor.
lastIterationOpen == Writing /\ currentlyOpen # None /\ ~closed(currentlyOpen)

leave(r) ==
  /\ phase' = IF call.op = "destroy" THEN "destroyed" ELSE "idle"
  /\ result' = IF call.op = "destroy" /\ lastIterationOpen THEN "terminate" ELSE r
  /\ call' = NoCall
  /\ todo' = {}

Flush ==
  /\ Idle
  /\ iterations # {}
  /\ startFlush("flush", None, "Open", None, iterations)
  /\ UNCHANGED <<objects, user, storage, m_work>>

FlushNothing ==
  /\ Idle
  /\ iterations = {}
  /\ result' = "no_iterations"
  /\ UNCHANGED <<objects, phase, call, todo, failures, user, storage, m_work>>

\* Mutant: whatever was only parsed is not reopened for closing it.
closeWithoutReopening(i, now, next) ==
  LET status == IF m_closed[i] \in {"ClosedInBackend", "ClosedTemporarily"}
                THEN "ClosedInBackend" ELSE "ClosedInFrontend"
  IN /\ mem' = [mem EXCEPT ![i].attr = IF Writing /\ @ < MaxVersion THEN @ + 1 ELSE @]
     /\ dirty' = [dirty EXCEPT ![i] = @ \/ Writing]
     /\ now /\ startFlush("close", i, "Open", next, {i})
     /\ m_closed' = [m_closed EXCEPT ![i] = status]
     /\ UNCHANGED <<iterations, pending, groupDirty, emptyRecord, m_stepStatus,
                    seriesDirty, meshesPath, currentlyOpen, seriesAttr, changes,
                    storage, m_work>>

\* Mutant: closing an iteration again starts over.
closeAgain(i, now, next) ==
  /\ mem' = [mem EXCEPT ![i].attr = @ + 1]
  /\ dirty' = [dirty EXCEPT ![i] = @ \/ Writing]
  /\ now /\ startFlush("close", i, "Open", next, {i})
  /\ m_closed' = [m_closed EXCEPT ![i] = "ClosedInFrontend"]
  /\ UNCHANGED <<iterations, pending, groupDirty, emptyRecord, m_stepStatus,
                 seriesDirty, meshesPath, currentlyOpen, seriesAttr, changes, storage,
                 m_work>>

\* Iteration::close up to the flush.  An iteration that was only parsed and
\* has nothing to write is not reopened for closing it.
closeIteration(i, now, next) ==
  LET status == CASE m_closed[i] = "ClosedInBackend" -> "ClosedInBackend"
                  [] m_closed[i] = "ClosedTemporarily" /\ ~dirtyRecursive(i)
                       /\ ~Writing -> "ClosedInBackend"
                  [] OTHER -> "ClosedInFrontend"
      step == m_stepStatus[i] = "DuringStep"
  IN /\ mem' = [mem EXCEPT ![i].attr =
                  IF Writing /\ @ < MaxVersion THEN @ + 1 ELSE @]
     /\ dirty' = [dirty EXCEPT ![i] = @ \/ Writing]
     /\ \/ now /\ step /\ startStep("end", i, status, next)
        \/ /\ now /\ ~step
           /\ startFlush("close", i, "Open", next, {i})
           /\ m_closed' = [m_closed EXCEPT ![i] = status]
        \/ /\ ~now
           /\ m_closed' = [m_closed EXCEPT ![i] = status]
           /\ result' = (IF step THEN "deferred_close" ELSE "ok")
           /\ UNCHANGED <<phase, call, todo, failures>>
     /\ UNCHANGED <<iterations, pending, groupDirty, emptyRecord, m_stepStatus,
                    seriesDirty, meshesPath, currentlyOpen, seriesAttr, changes,
                    storage, m_work>>

Close(i, now) == Idle /\ i \in iterations /\ closeIteration(i, now, None)

\* The dirty bit forces the flush to open the file.
Open(i) ==
  /\ Idle
  /\ i \in iterations
  /\ dirty' = [dirty EXCEPT ![i] = TRUE]
  /\ startFlush("open", i, "Open", None, {i})
  /\ UNCHANGED <<iterations, m_closed, pending, groupDirty, emptyRecord,
                 m_stepStatus, seriesDirty, meshesPath, user, storage, m_work>>

\* WriteIterations::operator[] once the previous iteration is closed.
select(i) ==
  /\ currentlyOpen' = i
  /\ iterations' = iterations \cup {i}
  /\ \/ m_stepStatus[i] = "NoStep" /\ startStep("begin", i, m_closed[i], None)
     \/ /\ m_stepStatus[i] = "DuringStep"
        /\ phase' = "idle" /\ call' = NoCall /\ todo' = {} /\ result' = "ok"
        /\ UNCHANGED <<m_closed, failures>>

SwitchTo(i) ==
  /\ Idle /\ Writing
  /\ IF currentlyOpen # None /\ currentlyOpen # i /\ ~closed(currentlyOpen)
     THEN closeIteration(currentlyOpen, TRUE, i)
     ELSE /\ select(i)
          /\ UNCHANGED <<dirty, pending, groupDirty, emptyRecord, m_stepStatus,
                         seriesDirty, meshesPath, seriesAttr, mem, changes, storage,
                         m_work>>

\* SeriesIterator's constructor and its operator++.
ReadFirst(i) ==
  /\ Idle /\ ~Writing
  /\ Least(i, iterations)
  /\ startStep("begin", i, m_closed[i], None)
  /\ UNCHANGED <<iterations, dirty, pending, groupDirty, emptyRecord, m_stepStatus,
                 seriesDirty, meshesPath, user, storage, m_work>>

successors(i) == {j \in iterations : j > i}

\* The current iteration is closed unless the user has done so.
ReadNext(i) ==
  /\ Idle /\ ~Writing
  /\ currentlyOpen # None
  /\ \/ Least(i, successors(currentlyOpen))
     \/ i = None /\ successors(currentlyOpen) = {}
  /\ IF ~closed(currentlyOpen)
     THEN closeIteration(currentlyOpen, TRUE, i)
     ELSE /\ i # None
          /\ currentlyOpen' = i
          /\ startStep("begin", i, m_closed[i], None)
          /\ UNCHANGED <<iterations, dirty, pending, groupDirty, emptyRecord,
                         m_stepStatus, seriesDirty, meshesPath, seriesAttr, mem,
                         changes, storage, m_work>>

\* ~SeriesInternal flushes and swallows the exception.
Destroy ==
  /\ Idle
  /\ IF iterations = {}
     THEN /\ phase' = "destroyed" /\ result' = "no_iterations"
          /\ UNCHANGED <<call, todo, failures>>
     ELSE startFlush("destroy", None, "Open", None, iterations)
  /\ UNCHANGED <<objects, user, storage, m_work>>

-----------------------------------------------------------------------------
(* SeriesImpl::flushFileBased, one turn of its loop.                       *)

Reached(i) == phase = "flush" /\ Least(i, todo)

\* A closed iteration is checked and passed over.
RejectUnwritten(i) ==
  /\ Reached(i) /\ Writing
  /\ m_closed[i] = "ClosedInBackend" /\ ~written[i]
  /\ leave("internal_error")
  /\ UNCHANGED <<objects, failures, user, storage, m_work>>

RejectAccess(i) ==
  /\ Reached(i)
  /\ m_closed[i] = "ClosedInBackend" /\ (Writing => written[i])
  /\ dirtyRecursive(i)
  /\ leave("closed_access")
  /\ UNCHANGED <<objects, failures, user, storage, m_work>>

\* Mutant: `continue' without advancing the iterator.
skipForever(i) ==
  /\ Reached(i) /\ m_closed[i] = "ClosedInBackend" /\ ~dirtyRecursive(i)
  /\ UNCHANGED vars

SkipClosed(i) ==
  /\ Reached(i)
  /\ m_closed[i] = "ClosedInBackend" /\ (Writing => written[i])
  /\ ~dirtyRecursive(i)
  /\ todo' = todo \ {i}
  /\ UNCHANGED <<objects, phase, call, result, failures, user, storage, m_work>>

When(condition, task) == IF condition THEN <<task>> ELSE <<>>

\* SeriesImpl::openIteration, and the creation of a new file.
openIteration(i) == <<Task("OPEN_FILE", i), Task("OPEN_BASEPATH", i),
                      Task("OPEN_PATH", i)>>
\* Mutant: the iteration's own path is forgotten.
createFileOnly(i) == <<Task("CREATE_FILE", i), Task("CREATE_BASEPATH", i)>>

createIteration(i) == <<Task("CREATE_FILE", i), Task("CREATE_BASEPATH", i),
                        Task("CREATE_PATH", i)>>
prologue(i) == IF written[i] THEN openIteration(i) ELSE createIteration(i)

\* Iteration::flush comes to the container `meshes' only if a mesh is in it, or
\* if an iteration with meshes has been flushed before.  The chunks of the meshes
\* come behind the container's path and attributes.
flushesMeshes(i) == meshesPath \/ mem[i].data > 0 \/ emptyRecord[i]

meshesTasks(i) ==
  IF flushesMeshes(i)
  THEN <<Task("WRITE_MESHES_PATH", i)>>
       \o When(groupDirty[i], VersionTask("WRITE_GROUP_ATT", i, mem[i].group))
  ELSE <<>>

\* Mutant: chunks are written with the iteration's attributes only.
chunksOfDirtyIteration(i) ==
  When(pending[i] /\ dirty[i], VersionTask("WRITE_DATASET", i, mem[i].data))

chunkTasks(i) ==
  When(pending[i], IF Writing THEN VersionTask("WRITE_DATASET", i, mem[i].data)
                   ELSE Task("READ_DATASET", i))

\* The iteration's own attributes, then Series::iterations' own flush and the
\* attributes of the Series, which setMeshesPath marks as dirty.
attributeTasks(i) ==
  When(dirty[i], VersionTask("WRITE_ATT", i, mem[i].attr))
  \o <<Task("CREATE_BASEPATH", i)>>
  \o When(seriesDirty \/ dirty[i] \/ flushesMeshes(i) # meshesPath,
          VersionTask("WRITE_SERIES_ATT", i, seriesAttr))

reopened(i) == IF m_closed[i] = "ClosedTemporarily" THEN "Open" ELSE m_closed[i]

\* Mutant: CLOSE_FILE is enqueued first.
closeAndEnqueue(i, status, tasks) ==
  /\ enqueue(When(status = "ClosedInFrontend", Task("CLOSE_FILE", i)) \o tasks)
  /\ m_closed' = [m_closed EXCEPT ![i] =
                    IF status = "ClosedInFrontend" THEN "ClosedInBackend" ELSE status]
  /\ phase' = "drain"

\* The iteration's new status, with CLOSE_FILE enqueued behind its tasks when
\* the user has closed it.
enqueueAndClose(i, status, tasks) ==
  /\ enqueue(tasks \o When(status = "ClosedInFrontend", Task("CLOSE_FILE", i)))
  /\ m_closed' = [m_closed EXCEPT ![i] =
                    IF status = "ClosedInFrontend" THEN "ClosedInBackend" ELSE status]
  /\ phase' = "drain"

\* Mutant: closed iterations are flushed again.
toFlushClosed(i) == dirtyRecursive(i) \/ seriesDirty

toFlush(i) == m_closed[i] # "ClosedInBackend" /\ (dirtyRecursive(i) \/ seriesDirty)

writeTasks(i) ==
  prologue(i) \o meshesTasks(i) \o chunkTasks(i) \o attributeTasks(i)

\* Mutant: the Series is not marked as unwritten.
writeWithoutReset(i) ==
  /\ Reached(i) /\ Writing /\ toFlush(i) /\ ~emptyRecord[i]
  /\ enqueueAndClose(i, reopened(i), writeTasks(i))
  /\ seriesDirty' = FALSE
  /\ dirty' = [dirty EXCEPT ![i] = FALSE]
  /\ pending' = [pending EXCEPT ![i] = FALSE]
  /\ groupDirty' = [groupDirty EXCEPT ![i] = @ /\ ~flushesMeshes(i)]
  /\ meshesPath' = flushesMeshes(i)
  /\ UNCHANGED <<iterations, emptyRecord, m_stepStatus, call, todo, result,
                 failures, user, storage>>

\* The Series and its iterations are marked as not written: every iteration
\* writes them to its own file.
WriteIteration(i) ==
  /\ Reached(i) /\ Writing /\ toFlush(i) /\ ~emptyRecord[i]
  /\ enqueueAndClose(i, reopened(i), writeTasks(i))
  /\ seriesWritten' = FALSE /\ basePathWritten' = FALSE
  /\ seriesDirty' = FALSE
  /\ dirty' = [dirty EXCEPT ![i] = FALSE]
  /\ pending' = [pending EXCEPT ![i] = FALSE]
  /\ groupDirty' = [groupDirty EXCEPT ![i] = @ /\ ~flushesMeshes(i)]
  /\ meshesPath' = flushesMeshes(i)
  /\ UNCHANGED <<iterations, emptyRecord, m_stepStatus, call, todo, result,
                 failures, user, written, assocs, files, fixed>>

\* BaseRecord::flush refuses a Record without components.  The tasks of the
\* meshes' container and of the records before it are in the queue by then,
\* with `early' those of the chunks.
RejectRecord(i, early) ==
  /\ Reached(i) /\ Writing /\ toFlush(i) /\ emptyRecord[i]
  /\ early => pending[i]
  /\ enqueue(prologue(i) \o meshesTasks(i) \o (IF early THEN chunkTasks(i) ELSE <<>>))
  /\ m_closed' = [m_closed EXCEPT ![i] = IF written[i] THEN reopened(i) ELSE @]
  /\ seriesWritten' = FALSE /\ basePathWritten' = FALSE
  /\ seriesDirty' = (seriesDirty \/ dirty[i] \/ ~meshesPath)
  /\ pending' = [pending EXCEPT ![i] = @ /\ ~early]
  /\ groupDirty' = [groupDirty EXCEPT ![i] = FALSE]
  /\ meshesPath' = TRUE
  /\ leave("record")
  /\ UNCHANGED <<iterations, dirty, emptyRecord, m_stepStatus, failures,
                 user, written, assocs, files, fixed>>

\* The loop of a read-only Series.
ReadIteration(i) ==
  /\ Reached(i) /\ ~Writing /\ toFlush(i)
  /\ enqueueAndClose(i, reopened(i), openIteration(i) \o chunkTasks(i))
  /\ pending' = [pending EXCEPT ![i] = FALSE]
  /\ UNCHANGED <<iterations, dirty, groupDirty, emptyRecord, m_stepStatus,
                 seriesDirty, meshesPath, call, todo, result, failures, user,
                 storage>>

PassClean(i) ==
  /\ Reached(i) /\ m_closed[i] # "ClosedInBackend" /\ ~toFlush(i)
  /\ enqueueAndClose(i, m_closed[i], <<>>)
  /\ UNCHANGED <<iterations, dirty, pending, groupDirty, emptyRecord, m_stepStatus,
                 seriesDirty, meshesPath, call, todo, result, failures, user,
                 storage>>

-----------------------------------------------------------------------------
(* IOHandler()->flush().                                                   *)

Draining == phase \in {"drain", "last"}

Drain == Draining /\ ProcessTask /\ UNCHANGED <<objects, control, user>>

\* A handler throws; the task stays at the head of the queue.
BackendThrows ==
  /\ Draining /\ m_work # <<>>
  /\ \/ Refused(Head(m_work)) /\ UNCHANGED failures
     \/ failures < MaxFailures /\ failures' = failures + 1
  /\ leave("backend")
  /\ UNCHANGED <<objects, user, storage, m_work>>

\* The next iteration is flushed with the Series' dirty bit as at the start.
Drained(i) ==
  /\ phase = "drain" /\ m_work = <<>> /\ Least(i, todo)
  /\ phase' = "flush"
  /\ todo' = todo \ {i}
  /\ seriesDirty' = IF Writing THEN call.allDirty ELSE seriesDirty
  /\ UNCHANGED <<iterations, m_closed, dirty, pending, groupDirty, emptyRecord,
                 m_stepStatus, meshesPath, call, result, failures, user, storage,
                 m_work>>

-----------------------------------------------------------------------------
(* After the loop: the rest of flush_impl or of SeriesImpl::advance.       *)

LoopDone == phase = "flush" /\ todo = {}

flushEnds(next) ==
  /\ phase' = next
  /\ seriesDirty' = (seriesDirty /\ ~Writing)
  /\ UNCHANGED <<iterations, dirty, pending, groupDirty, emptyRecord, m_stepStatus,
                 meshesPath, call, todo, result, failures, user, storage>>

FlushDone ==
  /\ LoopDone /\ call.op \notin {"begin", "end"}
  /\ flushEnds("last")
  /\ UNCHANGED <<m_closed, m_work>>

\* Stepping on a closed iteration must not open its file.
StepOnClosed ==
  /\ LoopDone /\ call.op \in {"begin", "end"}
  /\ call.old = "ClosedInBackend"
  /\ flushEnds("return")
  /\ UNCHANGED <<m_closed, m_work>>

\* Mutant: the close status is restored only when the step ends.
advanceForgetting ==
  LET i == call.it
      closing == call.old = "ClosedInFrontend" /\ call.op = "end"
  IN /\ LoopDone /\ call.op \in {"begin", "end"}
     /\ call.old # "ClosedInBackend"
     /\ enqueue(When(m_closed[i] # "ClosedTemporarily", Task("ADVANCE", i))
                \o When(closing, Task("CLOSE_FILE", i)))
     /\ m_closed' = [m_closed EXCEPT ![i] = IF closing THEN "ClosedInBackend" ELSE @]
     /\ flushEnds("last")

Advance ==
  LET i == call.it
      inFrontend == call.old = "ClosedInFrontend"
      closing == inFrontend /\ call.op = "end"
  IN /\ LoopDone /\ call.op \in {"begin", "end"}
     /\ call.old # "ClosedInBackend"
     /\ enqueue(When(inFrontend \/ m_closed[i] # "ClosedTemporarily", Task("ADVANCE", i))
                \o When(closing, Task("CLOSE_FILE", i)))
     /\ m_closed' = [m_closed EXCEPT ![i] =
                       IF closing THEN "ClosedInBackend"
                       ELSE IF inFrontend THEN "ClosedInFrontend" ELSE @]
     /\ flushEnds("last")

LastDrained ==
  /\ phase = "last" /\ m_work = <<>>
  /\ phase' = "return"
  /\ UNCHANGED <<objects, call, todo, result, failures, user, storage, m_work>>

\* What the calling function does once the flush has returned.
afterCall ==
  /\ dirty' = IF call.op = "open" THEN [dirty EXCEPT ![call.it] = FALSE] ELSE dirty
  /\ m_stepStatus' = CASE call.op = "begin" -> [m_stepStatus EXCEPT ![call.it] = "DuringStep"]
                       [] call.op = "end" -> [m_stepStatus EXCEPT ![call.it] = "NoStep"]
                       [] OTHER -> m_stepStatus
  /\ UNCHANGED <<pending, groupDirty, emptyRecord, seriesDirty, meshesPath,
                 seriesAttr, mem, changes, storage, m_work>>

Return ==
  /\ phase = "return" /\ call.next = None
  /\ leave("ok")
  /\ currentlyOpen' = IF call.op = "begin" THEN call.it ELSE currentlyOpen
  /\ afterCall
  /\ UNCHANGED <<iterations, m_closed, failures>>

\* The loop over WriteIterations or ReadIterations goes on to the next one.
ReturnToLoop ==
  /\ phase = "return" /\ call.next # None
  /\ IF Writing
     THEN select(call.next)
     ELSE /\ startStep("begin", call.next, m_closed[call.next], None)
          /\ currentlyOpen' = call.next
          /\ UNCHANGED iterations
  /\ afterCall

-----------------------------------------------------------------------------
Visit(i) ==
  \/ RejectUnwritten(i) \/ RejectAccess(i) \/ SkipClosed(i)
  \/ WriteIteration(i) \/ ReadIteration(i) \/ PassClean(i)
  \/ \E early \in BOOLEAN : RejectRecord(i, early)

\* The program runs by itself until the call returns or throws.
Internal ==
  \/ \E i \in Iter : Visit(i) \/ Drained(i)
  \/ Drain \/ BackendThrows
  \/ FlushDone \/ StepOnClosed \/ Advance \/ LastDrained
  \/ Return \/ ReturnToLoop

Modify ==
  \/ \E i \in Iter : \/ Insert(i) \/ SetAttribute(i) \/ StoreChunk(i) \/ LoadChunk(i)
                     \/ CreateEmptyRecord(i) \/ SetGroupAttribute(i)
  \/ SetSeriesAttribute

CallAPI ==
  \/ Flush \/ FlushNothing \/ Destroy
  \/ \E i \in Iter : \/ \E now \in BOOLEAN : Close(i, now)
                     \/ Open(i) \/ SwitchTo(i) \/ ReadFirst(i)
  \/ \E i \in Iter \cup {None} : ReadNext(i)

Next == Modify \/ CallAPI \/ Internal

\* A call runs to its end; whether the user makes another one is open.
Spec == Init /\ [][Next]_vars /\ WF_vars(Internal)

-----------------------------------------------------------------------------
(* Properties.                                                             *)

ObjectTypeOK ==
  /\ iterations \subseteq Iter
  /\ m_closed \in [Iter -> CloseStatus]
  /\ dirty \in [Iter -> BOOLEAN]
  /\ pending \in [Iter -> BOOLEAN]
  /\ groupDirty \in [Iter -> BOOLEAN]
  /\ emptyRecord \in [Iter -> BOOLEAN]
  /\ m_stepStatus \in [Iter -> StepStatus]
  /\ seriesDirty \in BOOLEAN
  /\ meshesPath \in BOOLEAN

UserTypeOK ==
  /\ currentlyOpen \in Iter \cup {None}
  /\ seriesAttr \in Version
  /\ mem \in [Iter -> Content]
  /\ changes \in 0 .. MaxChanges

\* A call about one iteration knows which.
ControlTypeOK ==
  /\ phase \in {"idle", "flush", "drain", "last", "return", "destroyed"}
  /\ call \in Call
  /\ call.op \in {"begin", "end", "close", "open"} => call.it \in Iter
  /\ todo \subseteq Iter
  /\ result \in Result
  /\ failures \in 0 .. MaxFailures

\* Every variable of the frontend and of the queue has its type.
TypeOK == BackendTypeOK /\ ObjectTypeOK /\ UserTypeOK /\ ControlTypeOK

\* Files are named when a task runs, from associations that move from file to
\* file: whatever the order of flushes, steps and closes, the task about to
\* run for iteration i must find the file of i open, and must not throw.
TaskFindsItsFile ==
  Draining /\ m_work # <<>> =>
    LET t == Head(m_work)
    IN /\ ~Refused(t)
       /\ t.op = "CREATE_FILE" => ~Skipped(t)
       /\ t.op \notin {"CREATE_FILE", "OPEN_FILE"} => FileOf(t) = t.it /\ t.it \in openFiles

\* A change of an iteration is on disk, or something still remembers that it
\* has to be written: a dirty bit, a pending chunk or a queued task.
NoLostUpdate ==
  \A i \in iterations :
    /\ \/ disk[i][i].attr = mem[i].attr
       \/ dirty[i]
       \/ Queued(VersionTask("WRITE_ATT", i, mem[i].attr))
    /\ \/ disk[i][i].data = mem[i].data
       \/ pending[i]
       \/ Queued(VersionTask("WRITE_DATASET", i, mem[i].data))

\* When no call is in progress, an iteration closed in the backend and not
\* touched since is complete in its file, and the file is not open.
ClosedIsDurable ==
  \A i \in iterations :
    Idle /\ m_closed[i] = "ClosedInBackend" /\ ~dirtyRecursive(i) /\ ~groupDirty[i] =>
      /\ disk[i][i] = mem[i]
      /\ i \notin openFiles

\* An iteration closed in the backend is never opened or flushed again.
ClosedForever ==
  [][\A i \in Iter : m_closed[i] = "ClosedInBackend" => m_closed'[i] = "ClosedInBackend"]_vars

\* Iteration::closed, asked between calls, never goes back to false:
\* SeriesImpl::advance takes back its pretence before it returns.
closedToUser(i) == \/ closed(i)
                   \/ call.op \in {"begin", "end"} /\ call.it = i
                        /\ call.old = "ClosedInFrontend"

StaysClosed == [][\A i \in Iter : closedToUser(i) => closedToUser(i)']_vars

\* When Series::flush is about to return, every iteration is on disk with its
\* attributes and datasets.
FlushSavesIterations ==
  phase = "return" /\ call.op = "flush" =>
    \A i \in iterations : /\ disk[i][i].attr = mem[i].attr
                          /\ disk[i][i].data = mem[i].data

\* Every call returns or throws.
CallReturns == []<>(phase \in {"idle", "destroyed"})

\* Whatever was thrown before: behind CLOSE_FILE of an iteration the queue
\* holds no task of that iteration, and once the file is closed none at all.
NoAccessAfterClose ==
  /\ \A k, l \in DOMAIN m_work :
       k < l /\ m_work[k].op = "CLOSE_FILE" => m_work[l].it # m_work[k].it
  /\ \A k \in DOMAIN m_work :
       m_closed[m_work[k].it] = "ClosedInBackend"
         => Queued(Task("CLOSE_FILE", m_work[k].it))

\* An iteration closed in the backend has been written, or the task that
\* creates it is still in the queue.
ClosedIsWritten ==
  \A i \in Iter : m_closed[i] = "ClosedInBackend" =>
    written[i] \/ Queued(Task("CREATE_PATH", i))

\* The Series implements the lifecycle its users are promised.  Its file of
\* an iteration is closed for good once CLOSE_FILE has been executed.  Group
\* attributes are not part of it, see FlushSavesGroups.
essential(c) == [attr |-> c.attr, data |-> c.data]

latest == [i \in Iter |-> essential(mem[i])]
saved  == [i \in Iter |-> essential(disk[i][i])]
sealed == {i \in Iter : m_closed[i] = "ClosedInBackend" /\ ~Queued(Task("CLOSE_FILE", i))}

Promise == INSTANCE IterationLifecycle WITH
  Content <- [attr : Version, data : Version]

KeepsPromise == Promise!Lifecycle

-----------------------------------------------------------------------------
(* Why ClosedForever, NoAccessAfterClose and ClosedIsWritten hold: their    *)
(* conjunction with the parts below is preserved by every step.             *)

Created(i) == written[i] \/ Queued(Task("CREATE_PATH", i))

\* CLOSE_FILE is in the queue only for an iteration closed in the backend.
CloseIsFinal ==
  \A k \in DOMAIN m_work :
    m_work[k].op = "CLOSE_FILE" => m_closed[m_work[k].it] = "ClosedInBackend"

\* Nothing has been asked of a file that was only parsed.
ParsedIsIdle ==
  ~Writing => \A k \in DOMAIN m_work : m_closed[m_work[k].it] # "ClosedTemporarily"

\* While SeriesImpl::advance flushes, its iteration is not closed.
StepIsOpen ==
  /\ call.op \in {"begin", "end"} /\ phase \in {"flush", "drain"}
  /\ call.old # "ClosedInBackend"
  => IF call.old = "ClosedInFrontend" THEN m_closed[call.it] = "Open"
     ELSE m_closed[call.it] \in {"Open", "ClosedTemporarily"}

\* An iteration that does not exist in a file yet is dirty and open.
NewIsDirty ==
  \A i \in Iter : Created(i) \/ (dirty[i] /\ m_closed[i] \in {"Open", "ClosedInFrontend"})

\* A flush of one iteration creates it before anything else happens to it.
FlushCreates ==
  call.op = "open" \/ (call.op \in {"begin", "end"} /\ call.old # "ClosedInBackend") =>
    \/ Created(call.it)
    \/ Writing /\ phase = "flush" /\ todo = {call.it} /\ dirty[call.it]

\* A read-only Series holds nothing but the iterations it has found.
ReaderFindsAll ==
  ~Writing =>
    /\ \A i \in iterations : written[i]
    /\ todo \subseteq iterations
    /\ {currentlyOpen, call.it, call.next} \subseteq iterations \cup {None}

LifecycleInv ==
  /\ TypeOK
  /\ NoAccessAfterClose
  /\ CloseIsFinal
  /\ ParsedIsIdle
  /\ StepIsOpen
  /\ NewIsDirty
  /\ FlushCreates
  /\ ReaderFindsAll

-----------------------------------------------------------------------------
(* Why the properties of the plain workflow hold, where no handler throws   *)
(* by itself and every Record has a component: their parts are preserved    *)
(* by every step together with LifecycleInv.                                *)

FileTasks     == {"CREATE_FILE", "OPEN_FILE"}
BasePathTasks == {"CREATE_BASEPATH", "OPEN_BASEPATH"}
PathTasks     == {"CREATE_PATH", "OPEN_PATH"}

PathQueued(i) == \E k \in DOMAIN m_work : m_work[k].it = i /\ m_work[k].op \in PathTasks

\* The iteration whose tasks are in the queue.
AtWork(i) == \/ phase = "drain" /\ Least(i, todo)
             \/ phase = "last" /\ call.op \in {"begin", "end"} /\ call.it = i

\* A queue is filled and emptied for one iteration at a time, and not for one
\* that was only parsed.
TasksInv ==
  /\ ~Draining => m_work = <<>>
  /\ phase = "drain" => \E i \in Iter : Least(i, todo)
  /\ \A k \in DOMAIN m_work :
       /\ AtWork(m_work[k].it)
       /\ m_closed[m_work[k].it] # "ClosedTemporarily"
       /\ m_work[k].op = "CLOSE_FILE" => k = Len(m_work)

\* The first n tasks of the queue are the rest of the prologue.
Preparing(n) ==
  /\ n <= Len(m_work)
  /\ n = 3 => m_work[1].op \in FileTasks
  /\ n >= 2 => m_work[n - 1].op \in BasePathTasks
  /\ n >= 1 => m_work[n].op \in PathTasks
  /\ \A k \in DOMAIN m_work : k > n => m_work[k].op \notin FileTasks \cup PathTasks

\* Tasks that look for no file but the iteration's own.
Leaving == \A k \in DOMAIN m_work : m_work[k].op \in {"ADVANCE", "CLOSE_FILE"}

Opened(i) == iterationFile[i] = i /\ i \in openFiles

\* What the tasks of the prologue find, and what those behind it may rely on.
Prepared(n, i) ==
  /\ n = 3 => IF m_work[1].op = "CREATE_FILE"
              THEN ~seriesWritten /\ i \notin onDisk
              ELSE i \in onDisk
  /\ n >= 2 /\ m_work[n - 1].op = "CREATE_BASEPATH" => ~basePathWritten
  /\ n >= 1 /\ m_work[n].op = "CREATE_PATH" => ~written[i]
  /\ n <= 2 => i \in openFiles /\ (seriesFile = i \/ Leaving)
  /\ n <= 1 => basePathFile = i \/ Leaving
  /\ n = 0 => Opened(i)

PrologueInv ==
  \E n \in 0 .. 3 :
    /\ Preparing(n)
    /\ \A i \in Iter : AtWork(i) /\ m_work # <<>> => Prepared(n, i)

\* A file exists once its iteration is written, except while it is created.
ExistInv ==
  \A i \in Iter :
    /\ i \in openFiles => i \in onDisk
    /\ written[i] => i \in onDisk
    /\ i \in onDisk => written[i] \/ PathQueued(i)
    /\ ~written[i] => disk[i][i] = Blank

\* The file of an iteration is open unless a flush will open it, and closed
\* when the iteration is.
OpenInv ==
  \A i \in Iter :
    /\ m_closed[i] \in {"Open", "ClosedInFrontend"} =>
         Opened(i) \/ dirtyRecursive(i) \/ PathQueued(i)
    /\ m_closed[i] = "ClosedTemporarily" => i \notin openFiles
    /\ m_closed[i] = "ClosedInBackend" =>
         i \notin openFiles \/ Queued(Task("CLOSE_FILE", i))

\* The iterations the call flushes, and those of them it has flushed.
Concerned(i) == IF call.op \in {"flush", "destroy"} THEN i \in iterations
                ELSE call.op # "none" /\ i = call.it
Flushed(i) == Concerned(i) /\ (AtWork(i) \/ i \notin todo)

\* What is flushed has nothing unsaved in the frontend, and an open file.
FlushedInv ==
  /\ todo \subseteq {i \in Iter : Concerned(i)}
  /\ \A i \in Iter : Flushed(i) =>
       /\ Writing => ~dirty[i] /\ ~pending[i]
       /\ m_closed[i] \in {"Open", "ClosedInFrontend"} => Opened(i) \/ PathQueued(i)

\* The newest version of each part is in the file, queued or remembered.
Unsaved(i) == Writing \/ i \notin iterations
ValueInv ==
  \A i \in Iter :
    /\ \/ disk[i][i].attr = mem[i].attr
       \/ dirty[i] /\ Unsaved(i)
       \/ Queued(VersionTask("WRITE_ATT", i, mem[i].attr))
    /\ \/ disk[i][i].data = mem[i].data
       \/ pending[i] /\ Writing
       \/ Queued(VersionTask("WRITE_DATASET", i, mem[i].data))
    /\ \/ disk[i][i].group = mem[i].group
       \/ groupDirty[i] /\ Writing
       \/ Queued(VersionTask("WRITE_GROUP_ATT", i, mem[i].group))

\* Nothing older is queued, and nothing newer is in a file.
VersionInv ==
  /\ \A k \in DOMAIN m_work :
       LET t == m_work[k]
       IN /\ t.op = "WRITE_ATT" => t.ver = mem[t.it].attr
          /\ t.op = "WRITE_DATASET" => t.ver = mem[t.it].data
          /\ t.op = "WRITE_GROUP_ATT" => t.ver = mem[t.it].group
  /\ \A i \in Iter : disk[i][i].attr <= mem[i].attr /\ disk[i][i].data <= mem[i].data

\* SeriesImpl::advance takes its pretence back before it returns.
CallInv ==
  /\ phase \in {"idle", "destroyed"} => call.op = "none"
  /\ phase \in {"last", "return"} => todo = {}
  /\ phase \in {"last", "return"} /\ call.op \in {"begin", "end"}
       /\ call.old = "ClosedInFrontend" => closed(call.it)

WorkflowInv ==
  /\ TasksInv
  /\ PrologueInv
  /\ ExistInv
  /\ OpenInv
  /\ FlushedInv
  /\ ValueInv
  /\ VersionInv
  /\ CallInv
  /\ \A i \in Iter : ~emptyRecord[i]

-----------------------------------------------------------------------------
(* What the comments and the documentation promise and the code does not   *)
(* keep: each is refuted by a run of its own.                              *)

\* Series.cpp: "Or the Series has been changed globally in a manner that
\* requires adapting all iterations".  When Series::flush is about to return,
\* every file that may still be written has the Series' current attributes.
SeriesAttributesInEveryFile ==
  phase = "return" /\ call.op = "flush" =>
    \A i \in iterations :
      m_closed[i] # "ClosedInBackend" => diskSeries[i] = seriesAttr

\* Series.hpp, flush: "Execute all required remaining IO operations to write
\* or read data".  No attribute of a group that holds a mesh is left unwritten
\* either.
FlushSavesGroups ==
  phase = "return" /\ call.op = "flush" =>
    \A i \in iterations : mem[i].data > 0 => disk[i][i].group = mem[i].group

\* Series.cpp: "as there is only one series, emulate the file belonging to
\* each iteration as not yet written".  A task of an iteration never lands in
\* the file of another one.
NoForeignFile ==
  Draining /\ m_work # <<>> =>
    LET t == Head(m_work)
    IN ~Refused(t) /\ t.op \notin {"CREATE_FILE", "OPEN_FILE"} => FileOf(t) = t.it

\* Series.cpp, ~SeriesInternal: "we must not throw in a destructor".
DestructorDoesNotThrow == result # "terminate"

=============================================================================
