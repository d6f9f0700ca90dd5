------------------------ MODULE SeriesFileBased_proofs ------------------------
(***************************************************************************)
(* Theorems about the file-based Series, for every set of iterations, every *)
(* bound, both backends, all access modes, with handlers that throw and     *)
(* with Records that cannot be written: its variables keep their types, a   *)
(* closed file is not touched again, and closing is final.                  *)
(***************************************************************************)
EXTENDS SeriesFileBased, TLAPS

-----------------------------------------------------------------------------
(* The tasks a call enqueues are I/O tasks of its iteration.               *)

LEMMA TaskType ==
  ASSUME NEW o \in Operation, NEW i \in Iter, NEW v \in Version
  PROVE  Task(o, i) \in IOTask /\ VersionTask(o, i, v) \in IOTask
BY VersionAssumption DEF Task, VersionTask, IOTask, Version

LEMMA WhenType ==
  ASSUME NEW c, NEW t \in IOTask
  PROVE  When(c, t) \in Seq(IOTask)
BY DEF When

LEMMA PrologueType ==
  ASSUME TypeOK, NEW i \in Iter
  PROVE  prologue(i) \in Seq(IOTask) /\ openIteration(i) \in Seq(IOTask)
BY TaskType, VersionAssumption DEF prologue, openIteration, createIteration, Operation, Version, TypeOK,
   BackendTypeOK

LEMMA BodyType ==
  ASSUME TypeOK, NEW i \in Iter
  PROVE  /\ meshesTasks(i) \in Seq(IOTask) /\ chunkTasks(i) \in Seq(IOTask)
         /\ attributeTasks(i) \in Seq(IOTask) /\ writeTasks(i) \in Seq(IOTask)
<1>0. /\ mem[i].data \in Version /\ mem[i].attr \in Version /\ mem[i].group \in Version
      /\ seriesAttr \in Version
      /\ pending[i] \in BOOLEAN /\ groupDirty[i] \in BOOLEAN /\ dirty[i] \in BOOLEAN
      /\ seriesDirty \in BOOLEAN
  BY DEF TypeOK, ObjectTypeOK, UserTypeOK, Content
<1>1. chunkTasks(i) \in Seq(IOTask)
  <2>1. /\ VersionTask("WRITE_DATASET", i, mem[i].data) \in IOTask
        /\ Task("READ_DATASET", i) \in IOTask
    BY <1>0, TaskType DEF Operation
  <2> QED BY <2>1, WhenType DEF chunkTasks
<1>2. /\ <<Task("WRITE_MESHES_PATH", i)>> \in Seq(IOTask)
      /\ When(groupDirty[i], VersionTask("WRITE_GROUP_ATT", i, mem[i].group)) \in Seq(IOTask)
      /\ When(dirty[i], VersionTask("WRITE_ATT", i, mem[i].attr)) \in Seq(IOTask)
      /\ <<Task("CREATE_BASEPATH", i)>> \in Seq(IOTask)
      /\ When(seriesDirty \/ dirty[i] \/ flushesMeshes(i) # meshesPath,
              VersionTask("WRITE_SERIES_ATT", i, seriesAttr)) \in Seq(IOTask)
  <2>1. /\ Task("WRITE_MESHES_PATH", i) \in IOTask
        /\ VersionTask("WRITE_GROUP_ATT", i, mem[i].group) \in IOTask
        /\ VersionTask("WRITE_ATT", i, mem[i].attr) \in IOTask
        /\ Task("CREATE_BASEPATH", i) \in IOTask
        /\ VersionTask("WRITE_SERIES_ATT", i, seriesAttr) \in IOTask
    BY <1>0, TaskType DEF Operation
  <2> QED BY <2>1, WhenType
<1>3. attributeTasks(i) \in Seq(IOTask)
  BY <1>2 DEF attributeTasks
<1>4. meshesTasks(i) \in Seq(IOTask)
  BY <1>2 DEF meshesTasks
<1>5. prologue(i) \in Seq(IOTask)
  BY PrologueType
<1> QED BY <1>1, <1>3, <1>4, <1>5 DEF writeTasks

-----------------------------------------------------------------------------
(* Type correctness.                                                       *)

LEMMA TypeInit == Init => TypeOK
<1> SUFFICES ASSUME Init PROVE TypeOK
  OBVIOUS
<1>0. /\ mem = [i \in Iter |-> [Blank EXCEPT !.attr = 1]]
      /\ 0 \in Version /\ 1 \in Version /\ Blank \in Content /\ mem \in [Iter -> Content]
  <2>1. mem = [i \in Iter |-> [Blank EXCEPT !.attr = 1]]
    BY DEF Init
  <2>2. 0 \in Version /\ 1 \in Version
    BY VersionAssumption DEF Version
  <2>3. Blank \in Content
    BY <2>2 DEF Content, Blank
  <2>4. [Blank EXCEPT !.attr = 1] \in Content
    BY <2>2 DEF Content, Blank
  <2> QED BY <2>1, <2>2, <2>3, <2>4
<1>1. BackendTypeOK
  <2>1. disk = [f \in Iter |-> [i \in Iter |->
                   IF f = i /\ i \in onDisk THEN mem[i] ELSE Blank]]
    BY DEF Init
  <2>2. disk \in [Iter -> [Iter -> Content]]
    BY ONLY <1>0, <2>1
  <2>3. diskSeries \in [Iter -> Version]
    BY <1>0 DEF Init
  <2>4. access \in Access /\ backend \in Backend
    BY ModesAssumption, BackendsAssumption DEF Init
  <2>5. /\ m_work \in Seq(IOTask) /\ seriesWritten \in BOOLEAN /\ basePathWritten \in BOOLEAN
        /\ written \in [Iter -> BOOLEAN] /\ seriesFile \in Iter \cup {None}
        /\ basePathFile \in Iter \cup {None} /\ iterationFile \in [Iter -> Iter \cup {None}]
        /\ openFiles \subseteq Iter /\ onDisk \subseteq Iter
    BY DEF Init
  <2> QED BY <2>2, <2>3, <2>4, <2>5 DEF BackendTypeOK
<1>2. ObjectTypeOK
  BY DEF Init, ObjectTypeOK, CloseStatus, StepStatus
<1>3. UserTypeOK
  <2>1. /\ seriesAttr = 1 /\ 1 \in Version
        /\ changes = 0 /\ 0 \in 0 .. MaxChanges
    BY <1>0, ChangesAssumption DEF Init
  <2>2. mem \in [Iter -> Content]
    BY <1>0
  <2>3. currentlyOpen \in Iter \cup {None}
    BY DEF Init
  <2> QED BY <2>1, <2>2, <2>3 DEF UserTypeOK
<1>4. ControlTypeOK
  BY FailureAssumption DEF Init, ControlTypeOK, NoCall, Call, Result, CloseStatus
<1> QED BY <1>1, <1>2, <1>3, <1>4 DEF TypeOK

\* Entering and leaving a call.
LEMMA StartFlushType ==
  ASSUME TypeOK, NEW op \in {"flush", "close", "open", "begin", "end", "destroy"},
         NEW i \in Iter \cup {None}, NEW old \in CloseStatus,
         NEW next \in Iter \cup {None}, NEW S \in SUBSET Iter,
         op \in {"begin", "end", "close", "open"} => i \in Iter,
         startFlush(op, i, old, next, S)
  PROVE  ControlTypeOK'
BY DEF TypeOK, ObjectTypeOK, ControlTypeOK, startFlush, Call, Result

LEMMA LeaveType ==
  ASSUME TypeOK, NEW r \in Result, leave(r), failures' \in 0 .. MaxFailures
  PROVE  ControlTypeOK'
BY DEF TypeOK, ControlTypeOK, leave, NoCall, Call, Result, CloseStatus

LEMMA StartStepType ==
  ASSUME TypeOK, NEW op \in {"begin", "end"}, NEW i \in Iter,
         NEW status \in CloseStatus, NEW next \in Iter \cup {None},
         startStep(op, i, status, next)
  PROVE  ControlTypeOK' /\ m_closed' \in [Iter -> CloseStatus]
<1>1. ControlTypeOK'
  BY StartFlushType DEF startStep
<1>2. m_closed' \in [Iter -> CloseStatus]
  BY DEF startStep, TypeOK, ObjectTypeOK, CloseStatus
<1> QED BY <1>1, <1>2

LEMMA CloseIterationType ==
  ASSUME TypeOK, NEW i \in Iter, NEW now \in BOOLEAN, NEW next \in Iter \cup {None},
         closeIteration(i, now, next)
  PROVE  TypeOK'
<1> DEFINE status == CASE m_closed[i] = "ClosedInBackend" -> "ClosedInBackend"
                       [] m_closed[i] = "ClosedTemporarily" /\ ~dirtyRecursive(i)
                            /\ ~Writing -> "ClosedInBackend"
                       [] OTHER -> "ClosedInFrontend"
<1>0. status \in CloseStatus
  BY DEF CloseStatus
<1>1. BackendTypeOK'
  BY DEF closeIteration, TypeOK, BackendTypeOK, storage, flags, assocs, files, fixed
<1>2. UserTypeOK'
  BY VersionAssumption DEF closeIteration, TypeOK, UserTypeOK, Content, Version
<1>3. dirty' \in [Iter -> BOOLEAN]
  BY DEF closeIteration, TypeOK, ObjectTypeOK
<1>4. ControlTypeOK' /\ m_closed' \in [Iter -> CloseStatus]
  <2>1. CASE now /\ m_stepStatus[i] = "DuringStep" /\ startStep("end", i, status, next)
    BY <2>1, <1>0, StartStepType
  <2>2. CASE /\ startFlush("close", i, "Open", next, {i})
             /\ m_closed' = [m_closed EXCEPT ![i] = status]
    <3>1. ControlTypeOK'
      BY <2>2, StartFlushType DEF CloseStatus
    <3> QED BY <3>1, <2>2, <1>0 DEF TypeOK, ObjectTypeOK
  <2>3. CASE /\ m_closed' = [m_closed EXCEPT ![i] = status]
             /\ result' = (IF m_stepStatus[i] = "DuringStep" THEN "deferred_close" ELSE "ok")
             /\ UNCHANGED <<phase, call, todo, failures>>
    BY <2>3, <1>0 DEF TypeOK, ObjectTypeOK, ControlTypeOK, Result
  <2> QED BY <2>1, <2>2, <2>3 DEF closeIteration
<1>5. ObjectTypeOK'
  BY <1>3, <1>4 DEF closeIteration, TypeOK, ObjectTypeOK
<1> QED BY <1>1, <1>2, <1>4, <1>5 DEF TypeOK

\* Writing one part of what a file holds of an iteration.  The file may be
\* None, where EXCEPT changes nothing.
LEMMA DiskUpdateType ==
  ASSUME NEW f \in [Iter -> [Iter -> Content]], NEW x \in Iter \cup {None},
         NEW i \in Iter, NEW v \in Version
  PROVE  /\ [f EXCEPT ![x][i].data = v] \in [Iter -> [Iter -> Content]]
         /\ [f EXCEPT ![x][i].attr = v] \in [Iter -> [Iter -> Content]]
         /\ [f EXCEPT ![x][i].group = v] \in [Iter -> [Iter -> Content]]
<1>1. CASE x \notin Iter
  <2>1. ASSUME NEW g PROVE [f EXCEPT ![x] = g] = f
    BY <1>1
  <2> QED BY <2>1
<1>2. CASE x \in Iter
  <2>1. f[x][i] \in Content /\ f[x] \in [Iter -> Content]
    BY <1>2
  <2>2. /\ [f[x][i] EXCEPT !.data = v] \in Content
        /\ [f[x][i] EXCEPT !.attr = v] \in Content
        /\ [f[x][i] EXCEPT !.group = v] \in Content
    BY <2>1 DEF Content
  <2>3. ASSUME NEW c \in Content PROVE [f[x] EXCEPT ![i] = c] \in [Iter -> Content]
    BY <2>1
  <2>4. ASSUME NEW g \in [Iter -> Content]
        PROVE  [f EXCEPT ![x] = g] \in [Iter -> [Iter -> Content]]
    BY <1>2
  <2> QED BY <2>2, <2>3, <2>4
<1> QED BY <1>1, <1>2

\* A task of the queue is executed.
LEMMA ProcessTaskType ==
  ASSUME BackendTypeOK, ProcessTask
  PROVE  BackendTypeOK'
<1> DEFINE t == Head(m_work)
<1>1. m_work \in Seq(IOTask) /\ m_work # <<>>
  BY DEF ProcessTask, BackendTypeOK
<1>2. t \in IOTask /\ m_work' \in Seq(IOTask)
  BY <1>1 DEF ProcessTask
<1>3. t.it \in Iter /\ t.ver \in Version
  BY <1>2 DEF IOTask
<1>4. access' = access /\ backend' = backend
  BY DEF ProcessTask, fixed
<1>5. CASE noEffect
  BY <1>2, <1>4, <1>5 DEF noEffect, BackendTypeOK, flags, assocs, files
<1>6. CASE createFile(t.it)
  <2>1. disk' \in [Iter -> [Iter -> Content]] /\ diskSeries' \in [Iter -> Version]
    BY <1>3, <1>6, VersionAssumption
       DEF createFile, BackendTypeOK, Blank, Content, Version
  <2> QED BY <1>2, <1>3, <1>4, <1>6, <2>1 DEF createFile, BackendTypeOK
<1>7. CASE openFile(t.it)
  BY <1>2, <1>3, <1>4, <1>7 DEF openFile, BackendTypeOK
<1>8. CASE basePath
  BY <1>2, <1>4, <1>8 DEF basePath, BackendTypeOK, files
<1>9. CASE iterationPath(t.it)
  BY <1>2, <1>3, <1>4, <1>9 DEF iterationPath, BackendTypeOK, files
<1>10. CASE writeDataset(t.it, t.ver)
  <2>1. disk' \in [Iter -> [Iter -> Content]]
    BY <1>3, <1>10, DiskUpdateType DEF writeDataset, BackendTypeOK
  <2> QED BY <1>2, <1>4, <1>10, <2>1 DEF writeDataset, BackendTypeOK, flags, assocs
<1>11. CASE writeAttribute(t.it, t.ver)
  <2>1. disk' \in [Iter -> [Iter -> Content]]
    <3>1. FileOfIteration(t.it) \in Iter \cup {None}
      BY <1>3 DEF FileOfIteration, BackendTypeOK
    <3> QED BY <1>3, <1>11, <3>1, DiskUpdateType DEF writeAttribute, BackendTypeOK
  <2>2. written' \in [Iter -> BOOLEAN]
    BY <1>3, <1>11 DEF writeAttribute, BackendTypeOK
  <2> QED BY <1>2, <1>3, <1>4, <1>11, <2>1, <2>2 DEF writeAttribute, BackendTypeOK
<1>12. CASE writeGroupAttribute(t.it, t.ver)
  <2>1. disk' \in [Iter -> [Iter -> Content]]
    BY <1>3, <1>12, DiskUpdateType DEF writeGroupAttribute, BackendTypeOK
  <2> QED BY <1>2, <1>4, <1>12, <2>1 DEF writeGroupAttribute, BackendTypeOK, flags, assocs
<1>13. CASE writeSeriesAttribute(t.ver)
  BY <1>2, <1>3, <1>4, <1>13 DEF writeSeriesAttribute, BackendTypeOK, assocs
<1>14. CASE closeFile(t.it)
  BY <1>2, <1>3, <1>4, <1>14 DEF closeFile, BackendTypeOK, flags
<1>15. CASE writeMeshesPath
  BY <1>2, <1>4, <1>15 DEF writeMeshesPath, BackendTypeOK, assocs, files
<1> QED BY <1>5, <1>6, <1>7, <1>8, <1>9, <1>10, <1>11, <1>12, <1>13, <1>14, <1>15
        DEF ProcessTask, Execute

\* Tasks are enqueued, and possibly CLOSE_FILE behind them.
LEMMA EnqueueAndCloseType ==
  ASSUME TypeOK, NEW i \in Iter, NEW status \in CloseStatus,
         NEW tasks \in Seq(IOTask), enqueueAndClose(i, status, tasks)
  PROVE  m_work' \in Seq(IOTask) /\ m_closed' \in [Iter -> CloseStatus]
<1>1. Task("CLOSE_FILE", i) \in IOTask
  BY TaskType, VersionAssumption DEF Operation, Version
<1>2. When(status = "ClosedInFrontend", Task("CLOSE_FILE", i)) \in Seq(IOTask)
  BY <1>1, WhenType
<1>3. m_work' \in Seq(IOTask)
  BY <1>2 DEF enqueueAndClose, enqueue, TypeOK, BackendTypeOK
<1>4. m_closed' \in [Iter -> CloseStatus]
  BY DEF enqueueAndClose, TypeOK, ObjectTypeOK, CloseStatus
<1> QED BY <1>3, <1>4

LEMMA SelectType ==
  ASSUME TypeOK, NEW i \in Iter, select(i)
  PROVE  /\ ControlTypeOK' /\ m_closed' \in [Iter -> CloseStatus]
         /\ currentlyOpen' \in Iter \cup {None} /\ iterations' \subseteq Iter
<1>1. currentlyOpen' \in Iter \cup {None} /\ iterations' \subseteq Iter
  BY DEF select, TypeOK, ObjectTypeOK
<1>2. CASE startStep("begin", i, m_closed[i], None)
  BY <1>1, <1>2, StartStepType DEF TypeOK, ObjectTypeOK
<1>3. CASE /\ phase' = "idle" /\ call' = NoCall /\ todo' = {} /\ result' = "ok"
           /\ UNCHANGED <<m_closed, failures>>
  BY <1>1, <1>3 DEF TypeOK, ObjectTypeOK, ControlTypeOK, NoCall, Call, Result, CloseStatus
<1> QED BY <1>2, <1>3 DEF select

LEMMA TypeNext == TypeOK /\ [Next]_vars => TypeOK'
<1> SUFFICES ASSUME TypeOK, [Next]_vars PROVE TypeOK'
  OBVIOUS
<1> USE DEF TypeOK
<1>1. ASSUME NEW i \in Iter, Insert(i) \/ LoadChunk(i)
      PROVE  TypeOK'
  <2>1. BackendTypeOK' /\ UserTypeOK'
    BY <1>1 DEF Insert, LoadChunk, user, storage, flags, assocs, files, fixed,
       BackendTypeOK, UserTypeOK
  <2>2. ObjectTypeOK'
    BY <1>1 DEF Insert, LoadChunk, ObjectTypeOK
  <2>3. ControlTypeOK'
    BY <1>1 DEF Insert, LoadChunk, unobserved, ControlTypeOK, Result
  <2> QED BY <2>1, <2>2, <2>3
<1>2. ASSUME NEW i \in Iter,
             SetAttribute(i) \/ StoreChunk(i) \/ SetGroupAttribute(i)
      PROVE  TypeOK'
  <2>1. BackendTypeOK'
    BY <1>2 DEF SetAttribute, StoreChunk, SetGroupAttribute, storage, flags, assocs,
       files, fixed, BackendTypeOK
  <2>2. ObjectTypeOK'
    BY <1>2 DEF SetAttribute, StoreChunk, SetGroupAttribute, ObjectTypeOK
  <2>3. mem' \in [Iter -> Content]
    BY <1>2, VersionAssumption
       DEF SetAttribute, StoreChunk, SetGroupAttribute, UserTypeOK, Content, Version
  <2>4. UserTypeOK' /\ ControlTypeOK'
    BY <1>2, <2>3, ChangesAssumption
       DEF SetAttribute, StoreChunk, SetGroupAttribute, change, unobserved, UserTypeOK,
       ControlTypeOK, Result
  <2> QED BY <2>1, <2>2, <2>4
<1>3. ASSUME NEW i \in Iter, CreateEmptyRecord(i)
      PROVE  TypeOK'
  <2>1. BackendTypeOK'
    BY <1>3 DEF CreateEmptyRecord, storage, flags, assocs, files, fixed, BackendTypeOK
  <2>2. ObjectTypeOK'
    BY <1>3 DEF CreateEmptyRecord, ObjectTypeOK
  <2>3. UserTypeOK' /\ ControlTypeOK'
    BY <1>3, ChangesAssumption
       DEF CreateEmptyRecord, change, unobserved, UserTypeOK, ControlTypeOK, Result
  <2> QED BY <2>1, <2>2, <2>3
<1>4. CASE SetSeriesAttribute
  <2>1. BackendTypeOK'
    BY <1>4 DEF SetSeriesAttribute, storage, flags, assocs, files, fixed, BackendTypeOK
  <2>2. ObjectTypeOK'
    BY <1>4 DEF SetSeriesAttribute, ObjectTypeOK
  <2>3. UserTypeOK' /\ ControlTypeOK'
    BY <1>4, VersionAssumption, ChangesAssumption
       DEF SetSeriesAttribute, change, unobserved, UserTypeOK, ControlTypeOK, Result,
       Version
  <2> QED BY <2>1, <2>2, <2>3
<1>5. CASE Flush \/ FlushNothing \/ Destroy
  <2>1. BackendTypeOK' /\ ObjectTypeOK' /\ UserTypeOK'
    BY <1>5 DEF Flush, FlushNothing, Destroy, objects, user, storage, flags, assocs,
       files, fixed, BackendTypeOK, ObjectTypeOK, UserTypeOK
  <2>2. ASSUME NEW op \in {"flush", "destroy"},
               startFlush(op, None, "Open", None, iterations)
        PROVE  ControlTypeOK'
    BY <2>2, StartFlushType DEF ObjectTypeOK, CloseStatus
  <2>3. CASE Flush
    BY <2>1, <2>2, <2>3 DEF Flush
  <2>4. CASE FlushNothing
    BY <2>1, <2>4 DEF FlushNothing, ControlTypeOK, Result
  <2>5. CASE Destroy
    BY <2>1, <2>2, <2>5 DEF Destroy, ControlTypeOK, Result
  <2> QED BY <1>5, <2>3, <2>4, <2>5
<1>6. ASSUME NEW i \in Iter, NEW now \in BOOLEAN, Close(i, now)
      PROVE  TypeOK'
  BY <1>6, CloseIterationType DEF Close
<1>7. ASSUME NEW i \in Iter, Open(i)
      PROVE  TypeOK'
  <2>1. BackendTypeOK' /\ UserTypeOK'
    BY <1>7 DEF Open, user, storage, flags, assocs, files, fixed, BackendTypeOK,
       UserTypeOK
  <2>2. ObjectTypeOK'
    BY <1>7 DEF Open, ObjectTypeOK
  <2>3. ControlTypeOK'
    BY <1>7, StartFlushType DEF Open, CloseStatus
  <2> QED BY <2>1, <2>2, <2>3
<1>8. ASSUME NEW i \in Iter, SwitchTo(i)
      PROVE  TypeOK'
  <2>1. CASE /\ currentlyOpen # None
             /\ closeIteration(currentlyOpen, TRUE, i)
    BY <2>1, CloseIterationType DEF UserTypeOK
  <2>2. CASE /\ select(i)
             /\ UNCHANGED <<dirty, pending, groupDirty, emptyRecord, m_stepStatus,
                            seriesDirty, meshesPath, seriesAttr, mem, changes, storage, m_work>>
    BY <2>2, SelectType
       DEF storage, flags, assocs, files, fixed, BackendTypeOK, ObjectTypeOK, UserTypeOK
  <2> QED BY <1>8, <2>1, <2>2 DEF SwitchTo
<1>9. ASSUME NEW i \in Iter, ReadFirst(i)
      PROVE  TypeOK'
  <2>1. ControlTypeOK' /\ m_closed' \in [Iter -> CloseStatus]
    BY <1>9, StartStepType DEF ReadFirst, ObjectTypeOK
  <2> QED BY <1>9, <2>1 DEF ReadFirst, user, storage, flags, assocs, files, fixed,
          BackendTypeOK, ObjectTypeOK, UserTypeOK
<1>10. ASSUME NEW i \in Iter \cup {None}, ReadNext(i)
       PROVE  TypeOK'
  <2>1. CASE closeIteration(currentlyOpen, TRUE, i)
    BY <1>10, <2>1, CloseIterationType DEF ReadNext, UserTypeOK
  <2>2. CASE /\ i # None
             /\ currentlyOpen' = i
             /\ startStep("begin", i, m_closed[i], None)
             /\ UNCHANGED <<iterations, dirty, pending, groupDirty, emptyRecord,
                            m_stepStatus, seriesDirty, meshesPath, seriesAttr, mem, changes,
                            storage, m_work>>
    <3>1. ControlTypeOK' /\ m_closed' \in [Iter -> CloseStatus]
      BY <2>2, StartStepType DEF ObjectTypeOK
    <3> QED BY <2>2, <3>1 DEF storage, flags, assocs, files, fixed,
            BackendTypeOK, ObjectTypeOK, UserTypeOK
  <2> QED BY <1>10, <2>1, <2>2 DEF ReadNext
<1>11. ASSUME NEW i \in Iter, RejectUnwritten(i) \/ RejectAccess(i)
       PROVE  TypeOK'
  <2>1. BackendTypeOK' /\ ObjectTypeOK' /\ UserTypeOK'
    BY <1>11 DEF RejectUnwritten, RejectAccess, objects, user, storage, flags, assocs,
       files, fixed, BackendTypeOK, ObjectTypeOK, UserTypeOK
  <2>2. ControlTypeOK'
    BY <1>11, LeaveType DEF RejectUnwritten, RejectAccess, ControlTypeOK, Result
  <2> QED BY <2>1, <2>2
<1>12. ASSUME NEW i \in Iter, SkipClosed(i)
       PROVE  TypeOK'
  BY <1>12 DEF SkipClosed, objects, user, storage, flags, assocs, files, fixed,
     BackendTypeOK, ObjectTypeOK, UserTypeOK, ControlTypeOK
<1>13. ASSUME NEW i \in Iter PROVE reopened(i) \in CloseStatus
  BY DEF reopened, ObjectTypeOK, CloseStatus
<1>14. ASSUME NEW i \in Iter, WriteIteration(i)
       PROVE  TypeOK'
  <2>1. writeTasks(i) \in Seq(IOTask)
    BY PrologueType, BodyType
  <2>2. m_work' \in Seq(IOTask) /\ m_closed' \in [Iter -> CloseStatus]
    BY <1>13, <1>14, <2>1, EnqueueAndCloseType DEF WriteIteration
  <2>3. BackendTypeOK' /\ UserTypeOK'
    BY <1>14, <2>2 DEF WriteIteration, user, assocs, files, fixed, BackendTypeOK,
       UserTypeOK
  <2>4. ObjectTypeOK'
    <3>1. groupDirty' \in [Iter -> BOOLEAN]
      BY <1>14 DEF WriteIteration, ObjectTypeOK
    <3>2. meshesPath' \in BOOLEAN
      BY <1>14 DEF WriteIteration, flushesMeshes, ObjectTypeOK
    <3> QED BY <1>14, <2>2, <3>1, <3>2 DEF WriteIteration, ObjectTypeOK
  <2>5. ControlTypeOK'
    BY <1>14 DEF WriteIteration, enqueueAndClose, ControlTypeOK
  <2> QED BY <2>3, <2>4, <2>5
<1>15. ASSUME NEW i \in Iter, NEW early \in BOOLEAN, RejectRecord(i, early)
       PROVE  TypeOK'
  <2>1. m_work' \in Seq(IOTask)
    BY <1>15, PrologueType, BodyType DEF RejectRecord, enqueue, BackendTypeOK
  <2>2. BackendTypeOK' /\ UserTypeOK'
    BY <1>15, <2>1 DEF RejectRecord, user, assocs, files, fixed, BackendTypeOK,
       UserTypeOK
  <2>3. ObjectTypeOK'
    BY <1>13, <1>15 DEF RejectRecord, ObjectTypeOK
  <2>4. ControlTypeOK'
    BY <1>15, LeaveType DEF RejectRecord, ControlTypeOK, Result
  <2> QED BY <2>2, <2>3, <2>4
<1>16. ASSUME NEW i \in Iter, ReadIteration(i)
       PROVE  TypeOK'
  <2>1. openIteration(i) \o chunkTasks(i) \in Seq(IOTask)
    BY PrologueType, BodyType
  <2>2. m_work' \in Seq(IOTask) /\ m_closed' \in [Iter -> CloseStatus]
    BY <1>13, <1>16, <2>1, EnqueueAndCloseType DEF ReadIteration
  <2>3. BackendTypeOK' /\ UserTypeOK'
    BY <1>16, <2>2 DEF ReadIteration, user, storage, flags, assocs, files, fixed,
       BackendTypeOK, UserTypeOK
  <2>4. ObjectTypeOK' /\ ControlTypeOK'
    BY <1>16, <2>2 DEF ReadIteration, enqueueAndClose, ObjectTypeOK, ControlTypeOK
  <2> QED BY <2>3, <2>4
<1>17. ASSUME NEW i \in Iter, PassClean(i)
       PROVE  TypeOK'
  <2>0. <<>> \in Seq(IOTask) /\ m_closed[i] \in CloseStatus
    BY DEF ObjectTypeOK
  <2>a. enqueueAndClose(i, m_closed[i], <<>>)
    BY <1>17 DEF PassClean
  <2>1. m_work' \in Seq(IOTask) /\ m_closed' \in [Iter -> CloseStatus]
    BY <2>0, <2>a, EnqueueAndCloseType
  <2>2. BackendTypeOK' /\ UserTypeOK'
    BY <1>17, <2>1 DEF PassClean, user, storage, flags, assocs, files, fixed,
       BackendTypeOK, UserTypeOK
  <2>3. ObjectTypeOK' /\ ControlTypeOK'
    BY <1>17, <2>1 DEF PassClean, enqueueAndClose, ObjectTypeOK, ControlTypeOK
  <2> QED BY <2>2, <2>3
<1>18. CASE Drain
  <2>1. BackendTypeOK'
    BY <1>18, ProcessTaskType DEF Drain
  <2>2. ObjectTypeOK' /\ UserTypeOK' /\ ControlTypeOK'
    BY <1>18 DEF Drain, objects, control, user, ObjectTypeOK, UserTypeOK, ControlTypeOK
  <2> QED BY <2>1, <2>2
<1>19. CASE BackendThrows
  <2>1. BackendTypeOK' /\ ObjectTypeOK' /\ UserTypeOK'
    BY <1>19 DEF BackendThrows, objects, user, storage, flags, assocs, files, fixed,
       BackendTypeOK, ObjectTypeOK, UserTypeOK
  <2>2. failures' \in 0 .. MaxFailures
    BY <1>19, FailureAssumption DEF BackendThrows, ControlTypeOK
  <2>3. ControlTypeOK'
    BY <1>19, <2>2, LeaveType DEF BackendThrows, Result
  <2> QED BY <2>1, <2>3
<1>20. ASSUME NEW i \in Iter, Drained(i)
       PROVE  TypeOK'
  <2>1. BackendTypeOK' /\ UserTypeOK'
    BY <1>20 DEF Drained, user, storage, flags, assocs, files, fixed, BackendTypeOK,
       UserTypeOK
  <2>2. ObjectTypeOK' /\ ControlTypeOK'
    BY <1>20 DEF Drained, ObjectTypeOK, ControlTypeOK, Call
  <2> QED BY <2>1, <2>2
<1>21. ASSUME NEW next \in {"last", "return"}, LoopDone, flushEnds(next),
              m_work' \in Seq(IOTask), m_closed' \in [Iter -> CloseStatus]
       PROVE  TypeOK'
  BY <1>21 DEF LoopDone, flushEnds, user, storage, flags, assocs, files, fixed,
     BackendTypeOK, UserTypeOK, ObjectTypeOK, ControlTypeOK
<1>22. CASE FlushDone \/ StepOnClosed
  BY <1>21, <1>22 DEF FlushDone, StepOnClosed, BackendTypeOK, ObjectTypeOK
<1>23. CASE Advance
  <2> DEFINE closing == call.old = "ClosedInFrontend" /\ call.op = "end"
             tasks == When(call.old = "ClosedInFrontend"
                             \/ m_closed[call.it] # "ClosedTemporarily",
                           Task("ADVANCE", call.it))
                      \o When(closing, Task("CLOSE_FILE", call.it))
  <2>1. call.it \in Iter
    BY <1>23 DEF Advance, ControlTypeOK
  <2>2. tasks \in Seq(IOTask)
    <3>1. Task("ADVANCE", call.it) \in IOTask /\ Task("CLOSE_FILE", call.it) \in IOTask
      BY <2>1, TaskType, VersionAssumption DEF Operation, Version
    <3> QED BY <3>1, WhenType
  <2>3. m_work' \in Seq(IOTask)
    BY <1>23, <2>2 DEF Advance, enqueue, BackendTypeOK
  <2>4. m_closed' \in [Iter -> CloseStatus]
    BY <1>23, <2>1 DEF Advance, ObjectTypeOK, CloseStatus
  <2> QED BY <1>21, <1>23, <2>3, <2>4 DEF Advance
<1>24. CASE LastDrained
  BY <1>24 DEF LastDrained, objects, user, storage, flags, assocs, files, fixed,
     BackendTypeOK, ObjectTypeOK, UserTypeOK, ControlTypeOK
<1>25. ASSUME afterCall
       PROVE  /\ BackendTypeOK' /\ seriesAttr' \in Version /\ mem' \in [Iter -> Content]
              /\ changes' \in 0 .. MaxChanges
              /\ dirty' \in [Iter -> BOOLEAN] /\ m_stepStatus' \in [Iter -> StepStatus]
              /\ pending' \in [Iter -> BOOLEAN] /\ groupDirty' \in [Iter -> BOOLEAN]
              /\ emptyRecord' \in [Iter -> BOOLEAN] /\ seriesDirty' \in BOOLEAN
              /\ meshesPath' \in BOOLEAN
  <2>1. dirty' \in [Iter -> BOOLEAN]
    BY <1>25 DEF afterCall, ObjectTypeOK
  <2>2. m_stepStatus' \in [Iter -> StepStatus]
    BY <1>25 DEF afterCall, ObjectTypeOK, StepStatus
  <2>3. BackendTypeOK'
    BY <1>25 DEF afterCall, storage, flags, assocs, files, fixed, BackendTypeOK
  <2> QED BY <1>25, <2>1, <2>2, <2>3 DEF afterCall, ObjectTypeOK, UserTypeOK
<1>26. CASE Return
  <2>1. ControlTypeOK'
    BY <1>26, LeaveType DEF Return, ControlTypeOK, Result
  <2>2. currentlyOpen' \in Iter \cup {None}
    BY <1>26 DEF Return, ControlTypeOK, UserTypeOK
  <2> QED BY <1>25, <1>26, <2>1, <2>2 DEF Return, ObjectTypeOK, UserTypeOK
<1>27. CASE ReturnToLoop
  <2>1. call.next \in Iter
    BY <1>27 DEF ReturnToLoop, ControlTypeOK, Call
  <2>2. CASE select(call.next)
    BY <1>25, <1>27, <2>1, <2>2, SelectType DEF ReturnToLoop, ObjectTypeOK, UserTypeOK
  <2>3. CASE /\ startStep("begin", call.next, m_closed[call.next], None)
             /\ currentlyOpen' = call.next
             /\ UNCHANGED iterations
    <3>1. ControlTypeOK' /\ m_closed' \in [Iter -> CloseStatus]
      BY <2>1, <2>3, StartStepType DEF ObjectTypeOK
    <3> QED BY <1>25, <1>27, <2>1, <2>3, <3>1 DEF ReturnToLoop, ObjectTypeOK, UserTypeOK
  <2> QED BY <1>27, <2>2, <2>3 DEF ReturnToLoop
<1>28. CASE UNCHANGED vars
  BY <1>28 DEF vars, objects, control, user, storage, flags, assocs, files, fixed,
     BackendTypeOK, ObjectTypeOK, UserTypeOK, ControlTypeOK
<1>29. CASE Modify
  BY <1>1, <1>2, <1>3, <1>4, <1>29 DEF Modify
<1>30. CASE CallAPI
  BY <1>5, <1>6, <1>7, <1>8, <1>9, <1>10, <1>30 DEF CallAPI
<1>31. CASE Internal
  BY <1>11, <1>12, <1>14, <1>15, <1>16, <1>17, <1>18, <1>19, <1>20, <1>22, <1>23,
     <1>24, <1>26, <1>27, <1>31 DEF Internal, Visit
<1> QED BY <1>28, <1>29, <1>30, <1>31 DEF Next

\* Every variable keeps its type: in particular every queued task belongs to an
\* iteration of the Series and every call about an iteration knows which.
THEOREM TypeCorrect == Spec => []TypeOK
<1>1. Init => TypeOK
  BY TypeInit
<1>2. TypeOK /\ [Next]_vars => TypeOK'
  BY TypeNext
<1> QED BY <1>1, <1>2, PTL DEF Spec


-----------------------------------------------------------------------------
(* What a step of the frontend does to storage, queue and close status.    *)

\* The steps that neither enqueue a task nor execute one.
FrontendStep ==
  \/ Modify \/ CallAPI \/ UNCHANGED vars
  \/ \E i \in Iter : RejectUnwritten(i) \/ RejectAccess(i) \/ SkipClosed(i) \/ Drained(i)
  \/ BackendThrows \/ FlushDone \/ StepOnClosed \/ LastDrained \/ Return \/ ReturnToLoop

Unqueued == /\ m_work' = m_work /\ written' = written /\ access' = access

\* What such a step may do to a close status.
Moves(j) ==
  \/ m_closed'[j] = m_closed[j]
  \/ m_closed[j] # "ClosedInBackend" /\ m_closed'[j] \in {"Open", "ClosedInFrontend"}
  \/ ~Writing /\ m_closed[j] = "ClosedTemporarily" /\ m_closed'[j] = "ClosedInBackend"

LEMMA StartStepMoves ==
  ASSUME TypeOK, NEW op, NEW i \in Iter, NEW s \in CloseStatus, NEW next,
         startStep(op, i, s, next), NEW j \in Iter,
         \/ s = m_closed[i]
         \/ m_closed[i] # "ClosedInBackend" /\ s = "ClosedInFrontend"
         \/ ~Writing /\ m_closed[i] = "ClosedTemporarily" /\ s = "ClosedInBackend"
  PROVE  Moves(j)
BY DEF startStep, Moves, TypeOK, ObjectTypeOK, CloseStatus

LEMMA CloseMoves ==
  ASSUME TypeOK, NEW i \in Iter, NEW now \in BOOLEAN, NEW next,
         closeIteration(i, now, next), NEW j \in Iter
  PROVE  Moves(j)
<1> DEFINE status == CASE m_closed[i] = "ClosedInBackend" -> "ClosedInBackend"
                       [] m_closed[i] = "ClosedTemporarily" /\ ~dirtyRecursive(i)
                            /\ ~Writing -> "ClosedInBackend"
                       [] OTHER -> "ClosedInFrontend"
<1>1. /\ status \in CloseStatus
      /\ \/ status = m_closed[i]
         \/ m_closed[i] # "ClosedInBackend" /\ status = "ClosedInFrontend"
         \/ ~Writing /\ m_closed[i] = "ClosedTemporarily" /\ status = "ClosedInBackend"
  BY DEF CloseStatus
<1>2. CASE startStep("end", i, status, next)
  BY <1>1, <1>2, StartStepMoves
<1>3. CASE m_closed' = [m_closed EXCEPT ![i] = status]
  BY <1>1, <1>3 DEF Moves, TypeOK, ObjectTypeOK
<1> QED BY <1>2, <1>3 DEF closeIteration

LEMMA FrontendMoves ==
  ASSUME TypeOK, FrontendStep, NEW j \in Iter
  PROVE  Moves(j)
<1> USE DEF Moves
<1>1. CASE Modify
  BY <1>1 DEF Modify, Insert, SetAttribute, StoreChunk, LoadChunk, CreateEmptyRecord,
     SetGroupAttribute, SetSeriesAttribute
<1>2. CASE Flush \/ FlushNothing \/ Destroy \/ \E i \in Iter : Open(i)
  BY <1>2 DEF Flush, FlushNothing, Destroy, Open, objects
<1>3. ASSUME NEW i \in Iter, NEW now \in BOOLEAN, Close(i, now) PROVE Moves(j)
  BY <1>3, CloseMoves DEF Close
<1>4. ASSUME NEW i \in Iter, select(i) PROVE Moves(j)
  BY <1>4, StartStepMoves DEF select, TypeOK, ObjectTypeOK
<1>5. ASSUME NEW i \in Iter, SwitchTo(i) PROVE Moves(j)
  BY <1>4, <1>5, CloseMoves DEF SwitchTo, TypeOK, UserTypeOK
<1>6. ASSUME NEW i \in Iter, startStep("begin", i, m_closed[i], None) PROVE Moves(j)
  BY <1>6, StartStepMoves DEF TypeOK, ObjectTypeOK
<1>7. ASSUME NEW i \in Iter, ReadFirst(i) PROVE Moves(j)
  BY <1>6, <1>7 DEF ReadFirst
<1>8. ASSUME NEW i \in Iter \cup {None}, ReadNext(i) PROVE Moves(j)
  BY <1>6, <1>8, CloseMoves DEF ReadNext, TypeOK, UserTypeOK
<1>9. CASE CallAPI
  BY <1>2, <1>3, <1>5, <1>7, <1>8, <1>9 DEF CallAPI
<1>10. CASE ReturnToLoop
  <2>1. call.next \in Iter
    BY <1>10 DEF ReturnToLoop, TypeOK, ControlTypeOK, Call
  <2> QED BY <1>4, <1>6, <1>10, <2>1 DEF ReturnToLoop
<1>11. CASE \E i \in Iter : RejectUnwritten(i) \/ RejectAccess(i) \/ SkipClosed(i) \/ Drained(i)
  BY <1>11 DEF RejectUnwritten, RejectAccess, SkipClosed, Drained, objects
<1>12. CASE BackendThrows \/ FlushDone \/ StepOnClosed \/ LastDrained \/ Return \/ UNCHANGED vars
  BY <1>12 DEF BackendThrows, FlushDone, StepOnClosed, LastDrained, Return, vars, objects
<1> QED BY <1>1, <1>9, <1>10, <1>11, <1>12 DEF FrontendStep

LEMMA FrontendUnqueued ==
  ASSUME FrontendStep
  PROVE  Unqueued
<1> USE DEF Unqueued, storage, flags, fixed
<1>1. CASE Modify
  BY <1>1 DEF Modify, Insert, SetAttribute, StoreChunk, LoadChunk, CreateEmptyRecord,
     SetGroupAttribute, SetSeriesAttribute
<1>2. CASE CallAPI
  BY <1>2 DEF CallAPI, Flush, FlushNothing, Destroy, Close, Open, SwitchTo, ReadFirst,
     ReadNext, closeIteration
<1>3. CASE \E i \in Iter : RejectUnwritten(i) \/ RejectAccess(i) \/ SkipClosed(i) \/ Drained(i)
  BY <1>3 DEF RejectUnwritten, RejectAccess, SkipClosed, Drained
<1>4. CASE BackendThrows \/ FlushDone \/ StepOnClosed \/ LastDrained \/ UNCHANGED vars
  BY <1>4 DEF BackendThrows, FlushDone, StepOnClosed, LastDrained, flushEnds, vars
<1>5. CASE Return \/ ReturnToLoop
  BY <1>5 DEF Return, ReturnToLoop, afterCall
<1> QED BY <1>1, <1>2, <1>3, <1>4, <1>5 DEF FrontendStep

-----------------------------------------------------------------------------
(* The queue.                                                              *)

QueueInv == NoAccessAfterClose /\ CloseIsFinal /\ ParsedIsIdle

LEMMA SeqElements ==
  ASSUME NEW S, NEW s \in Seq(S)
  PROVE  /\ Len(s) \in Nat /\ DOMAIN s = 1 .. Len(s)
         /\ \A k \in 1 .. Len(s) : s[k] \in S
OBVIOUS

LEMMA SeqConcat ==
  ASSUME NEW S, NEW s \in Seq(S), NEW t \in Seq(S)
  PROVE  /\ s \o t \in Seq(S)
         /\ Len(s \o t) = Len(s) + Len(t)
         /\ \A k \in 1 .. Len(s) : (s \o t)[k] = s[k]
         /\ \A k \in 1 .. Len(s) + Len(t) :
              k > Len(s) => k - Len(s) \in 1 .. Len(t) /\ (s \o t)[k] = t[k - Len(s)]
OBVIOUS

LEMMA SeqAppend ==
  ASSUME NEW S, NEW s \in Seq(S), NEW e \in S
  PROVE  /\ s \o <<e>> \in Seq(S)
         /\ Len(s \o <<e>>) = Len(s) + 1
         /\ \A k \in 1 .. Len(s) : (s \o <<e>>)[k] = s[k]
         /\ (s \o <<e>>)[Len(s) + 1] = e
OBVIOUS

LEMMA QueuedItems ==
  ASSUME TypeOK, NEW k \in DOMAIN m_work
  PROVE  m_work[k] \in IOTask /\ m_work[k].it \in Iter /\ k \in 1 .. Len(m_work)
<1>1. m_work[k] \in IOTask /\ k \in 1 .. Len(m_work)
  BY SeqElements DEF TypeOK, BackendTypeOK
<1> QED BY <1>1 DEF IOTask

LEMMA FrontendQueue ==
  ASSUME TypeOK, QueueInv, FrontendStep
  PROVE  QueueInv'
<1>1. Unqueued /\ \A j \in Iter : Moves(j)
  BY FrontendUnqueued, FrontendMoves
<1>2. \A k \in DOMAIN m_work : m_work[k].it \in Iter
  BY QueuedItems
<1>3. CloseIsFinal'
  BY <1>1, <1>2 DEF QueueInv, CloseIsFinal, Unqueued, Moves
<1>4. ParsedIsIdle'
  BY <1>1, <1>2 DEF QueueInv, ParsedIsIdle, Unqueued, Moves, Writing
<1>5. NoAccessAfterClose'
  <2>1. \A k \in DOMAIN m_work : m_closed'[m_work[k].it] = "ClosedInBackend"
                                   => m_closed[m_work[k].it] = "ClosedInBackend"
    BY <1>1, <1>2 DEF QueueInv, ParsedIsIdle, Moves
  <2> QED BY <1>1, <2>1 DEF QueueInv, NoAccessAfterClose, Unqueued, Queued
<1> QED BY <1>3, <1>4, <1>5 DEF QueueInv

\* s holds tasks of iteration i only, and does not close its file.
WorkOf(i, s) ==
  /\ s \in Seq(IOTask)
  /\ \A k \in DOMAIN s : s[k].it = i /\ s[k].op # "CLOSE_FILE"

\* They are followed by CLOSE_FILE exactly if its status becomes ClosedInBackend.
Closes(i, closing, new) ==
  /\ new \in Seq(IOTask)
  /\ \A k \in 1 .. Len(new) : new[k].it = i
  /\ \A k \in 1 .. Len(new) : new[k].op = "CLOSE_FILE" => closing /\ k = Len(new)
  /\ closing => Len(new) > 0 /\ new[Len(new)] = Task("CLOSE_FILE", i)

LEMMA ClosingTasks ==
  ASSUME NEW i \in Iter, NEW s, WorkOf(i, s), NEW closing \in BOOLEAN
  PROVE  Closes(i, closing, s \o When(closing, Task("CLOSE_FILE", i)))
<1> DEFINE new == s \o When(closing, Task("CLOSE_FILE", i))
<1>1. Task("CLOSE_FILE", i) \in IOTask
  BY TaskType, VersionAssumption DEF Operation, Version
<1>2. /\ s \in Seq(IOTask) /\ Len(s) \in Nat
      /\ \A k \in 1 .. Len(s) : s[k].it = i /\ s[k].op # "CLOSE_FILE"
  BY SeqElements DEF WorkOf
<1>3. CASE closing
  <2> DEFINE e == Task("CLOSE_FILE", i)
  <2>1. new = s \o <<e>> /\ e.it = i
    BY <1>3 DEF When, Task
  <2> HIDE DEF e, new
  <2>2. /\ new \in Seq(IOTask) /\ Len(new) = Len(s) + 1
        /\ \A k \in 1 .. Len(s) : new[k] = s[k]
        /\ new[Len(s) + 1] = e
    BY <1>1, <1>2, <2>1, SeqAppend DEF e
  <2>3. \A k \in 1 .. Len(new) : k \in 1 .. Len(s) \/ k = Len(s) + 1
    BY <1>2, <2>2
  <2>4. Closes(i, closing, new)
    BY <1>2, <1>3, <2>1, <2>2, <2>3 DEF e, Closes
  <2> QED BY <2>4 DEF new
<1>4. CASE ~closing
  <2>1. new = s
    BY <1>2, <1>4 DEF When
  <2> HIDE DEF new
  <2>2. Closes(i, closing, new)
    BY <1>2, <1>4, <2>1 DEF Closes
  <2> QED BY <2>2 DEF new
<1> QED BY <1>3, <1>4

LEMMA EnqueueQueue ==
  ASSUME TypeOK, QueueInv, NEW i \in Iter, NEW closing \in BOOLEAN,
         NEW new, Closes(i, closing, new),
         m_closed[i] # "ClosedInBackend",
         m_work' = m_work \o new,
         \A j \in Iter \ {i} : m_closed'[j] = m_closed[j],
         m_closed'[i] = "ClosedInBackend" <=> closing,
         ~Writing /\ m_closed'[i] = "ClosedTemporarily" =>
           new = <<>> /\ m_closed[i] = "ClosedTemporarily",
         access' = access
  PROVE  QueueInv'
<1> DEFINE L == Len(m_work)
<1>1. /\ new \in Seq(IOTask)
      /\ \A k \in 1 .. Len(new) : new[k].it = i
      /\ \A k \in 1 .. Len(new) : new[k].op = "CLOSE_FILE" => closing /\ k = Len(new)
      /\ closing => Len(new) > 0 /\ new[Len(new)] = Task("CLOSE_FILE", i)
  BY DEF Closes
<1>2. m_work \in Seq(IOTask) /\ L \in Nat /\ Len(new) \in Nat /\ DOMAIN m_work = 1 .. L
  BY <1>1, SeqElements DEF TypeOK, BackendTypeOK
<1>3. /\ Len(m_work') = L + Len(new)
      /\ DOMAIN m_work' = 1 .. L + Len(new)
      /\ \A k \in 1 .. L : m_work'[k] = m_work[k]
      /\ \A k \in 1 .. L + Len(new) : k > L => k - L \in 1 .. Len(new) /\ m_work'[k] = new[k - L]
  <2>1. m_work' \in Seq(IOTask) /\ Len(m_work') = L + Len(new)
    BY <1>1, <1>2, SeqConcat
  <2>2. DOMAIN m_work' = 1 .. L + Len(new)
    BY <2>1, SeqElements
  <2> QED BY <1>1, <1>2, <2>1, <2>2, SeqConcat
<1> HIDE DEF L
<1>4. \A k \in 1 .. L : m_work[k].it \in Iter
  BY <1>2, QueuedItems
<1>5. \A k \in 1 .. L : m_work[k].op = "CLOSE_FILE" =>
        m_closed[m_work[k].it] = "ClosedInBackend" /\ m_work[k].it # i
  BY <1>2 DEF QueueInv, CloseIsFinal
<1>6. CloseIsFinal'
  <2> SUFFICES ASSUME NEW k \in 1 .. L + Len(new), m_work'[k].op = "CLOSE_FILE"
               PROVE  m_closed'[m_work'[k].it] = "ClosedInBackend"
    BY <1>3 DEF CloseIsFinal
  <2>1. CASE k <= L
    BY <1>2, <1>3, <1>4, <1>5, <2>1
  <2>2. CASE k > L
    BY <1>1, <1>2, <1>3, <2>2
  <2> QED BY <1>2, <2>1, <2>2
<1>7. ParsedIsIdle'
  <2> SUFFICES ASSUME ~Writing, NEW k \in 1 .. L + Len(new)
               PROVE  m_closed'[m_work'[k].it] # "ClosedTemporarily"
    BY <1>3 DEF ParsedIsIdle, Writing
  <2>1. CASE k <= L
    <3>1. k \in 1 .. L /\ m_work'[k] = m_work[k] /\ m_work[k].it \in Iter
      BY <1>2, <1>3, <1>4, <2>1
    <3>2. m_closed[m_work[k].it] # "ClosedTemporarily"
      BY <1>2, <3>1 DEF QueueInv, ParsedIsIdle
    <3> QED BY <3>1, <3>2
  <2>2. CASE k > L
    <3>1. k - L \in 1 .. Len(new) /\ m_work'[k].it = i
      BY <1>1, <1>2, <1>3, <2>2
    <3>2. m_closed'[i] # "ClosedTemporarily"
      BY <1>1, <3>1
    <3> QED BY <3>1, <3>2
  <2> QED BY <1>2, <2>1, <2>2
<1>8. NoAccessAfterClose'
  <2>1. ASSUME NEW k \in DOMAIN m_work', NEW l \in DOMAIN m_work',
               k < l, m_work'[k].op = "CLOSE_FILE"
        PROVE  m_work'[l].it # m_work'[k].it
    <3>1. CASE l <= L
      <4>1. k \in DOMAIN m_work /\ l \in DOMAIN m_work
        BY <1>2, <2>1, <3>1
      <4> QED BY <1>2, <1>3, <2>1, <4>1 DEF QueueInv, NoAccessAfterClose
    <3>2. CASE k <= L /\ l > L
      BY <1>1, <1>2, <1>3, <1>5, <2>1, <3>2
    <3>3. CASE k > L
      BY <1>1, <1>2, <1>3, <2>1, <3>3
    <3> QED BY <1>2, <2>1, <3>1, <3>2, <3>3
  <2>2. ASSUME NEW k \in DOMAIN m_work', m_closed'[m_work'[k].it] = "ClosedInBackend"
        PROVE  \E c \in DOMAIN m_work' : m_work'[c] = Task("CLOSE_FILE", m_work'[k].it)
    <3>1. CASE closing /\ m_work'[k].it = i
      <4>1. L + Len(new) \in DOMAIN m_work' /\ m_work'[L + Len(new)] = Task("CLOSE_FILE", i)
        BY <1>1, <1>2, <1>3, <3>1
      <4> QED BY <3>1, <4>1 DEF Queued
    <3>2. CASE m_work'[k].it # i
      <4>1. k <= L /\ m_work'[k] = m_work[k]
        BY <1>1, <1>2, <1>3, <3>2
      <4>2. m_closed[m_work[k].it] = "ClosedInBackend"
        BY <1>2, <1>4, <2>2, <3>2, <4>1
      <4>3. Queued(Task("CLOSE_FILE", m_work[k].it))
        BY <1>2, <4>1, <4>2 DEF QueueInv, NoAccessAfterClose
      <4> QED BY <1>2, <1>3, <4>1, <4>3 DEF Queued
    <3> QED BY <2>2, <3>1, <3>2
  <2> QED BY <2>1, <2>2 DEF NoAccessAfterClose, Queued, Task
<1> QED BY <1>6, <1>7, <1>8 DEF QueueInv

LEMMA DrainQueue ==
  ASSUME TypeOK, QueueInv, Drain
  PROVE  QueueInv'
<1>1. /\ m_work # <<>> /\ m_work' = Tail(m_work)
      /\ m_closed' = m_closed /\ access' = access
      /\ m_work \in Seq(IOTask)
  BY DEF Drain, ProcessTask, objects, fixed, TypeOK, BackendTypeOK
<1>2. /\ DOMAIN m_work' = 1 .. Len(m_work) - 1
      /\ \A k \in 1 .. Len(m_work) - 1 : m_work'[k] = m_work[k + 1] /\ k + 1 \in DOMAIN m_work
      /\ DOMAIN m_work = 1 .. Len(m_work) /\ Len(m_work) \in Nat /\ Len(m_work) > 0
  BY <1>1
<1>3. CloseIsFinal' /\ ParsedIsIdle'
  BY <1>1, <1>2 DEF QueueInv, CloseIsFinal, ParsedIsIdle, Writing
<1>4. NoAccessAfterClose'
  <2>1. ASSUME NEW k \in DOMAIN m_work', NEW l \in DOMAIN m_work',
               k < l, m_work'[k].op = "CLOSE_FILE"
        PROVE  m_work'[l].it # m_work'[k].it
    BY <1>2, <2>1 DEF QueueInv, NoAccessAfterClose
  <2>2. ASSUME NEW k \in DOMAIN m_work', m_closed[m_work'[k].it] = "ClosedInBackend"
        PROVE  \E c \in DOMAIN m_work' : m_work'[c] = Task("CLOSE_FILE", m_work'[k].it)
    <3>1. PICK c \in DOMAIN m_work : m_work[c] = Task("CLOSE_FILE", m_work[k + 1].it)
      BY <1>2, <2>2 DEF QueueInv, NoAccessAfterClose, Queued
    <3>2. c # 1
      BY <1>2, <3>1 DEF QueueInv, NoAccessAfterClose, Task
    <3>3. c - 1 \in DOMAIN m_work' /\ m_work'[c - 1] = m_work[c]
      BY <1>2, <3>1, <3>2
    <3> QED BY <1>2, <3>1, <3>3 DEF Queued
  <2> QED BY <1>1, <2>1, <2>2 DEF NoAccessAfterClose, Queued, Task
<1> QED BY <1>3, <1>4 DEF QueueInv

-----------------------------------------------------------------------------
(* What the flush of an iteration enqueues.                                *)

LEMMA WorkOne ==
  ASSUME NEW i \in Iter, NEW o \in Operation \ {"CLOSE_FILE"}, NEW v \in Version
  PROVE  WorkOf(i, <<VersionTask(o, i, v)>>) /\ WorkOf(i, <<Task(o, i)>>)
<1>1. \A t \in IOTask : t.it = i /\ t.op # "CLOSE_FILE" => WorkOf(i, <<t>>)
  BY DEF WorkOf
<1> QED BY <1>1, TaskType DEF Task, VersionTask

LEMMA WorkNothing == ASSUME NEW i PROVE WorkOf(i, <<>>)
BY DEF WorkOf

LEMMA WorkWhen ==
  ASSUME NEW i, NEW c, NEW t, WorkOf(i, <<t>>)
  PROVE  WorkOf(i, When(c, t))
BY WorkNothing DEF When

LEMMA WorkConcat ==
  ASSUME NEW i, NEW s, NEW t, WorkOf(i, s), WorkOf(i, t)
  PROVE  WorkOf(i, s \o t)
<1>1. s \in Seq(IOTask) /\ t \in Seq(IOTask)
  BY DEF WorkOf
<1>2. /\ \A k \in 1 .. Len(s) : s[k].it = i /\ s[k].op # "CLOSE_FILE"
      /\ \A k \in 1 .. Len(t) : t[k].it = i /\ t[k].op # "CLOSE_FILE"
      /\ Len(s) \in Nat /\ Len(t) \in Nat
  BY <1>1, SeqElements DEF WorkOf
<1>3. s \o t \in Seq(IOTask) /\ DOMAIN (s \o t) = 1 .. Len(s) + Len(t)
  BY <1>1, SeqConcat, SeqElements
<1>4. ASSUME NEW k \in 1 .. Len(s) + Len(t)
      PROVE  (s \o t)[k].it = i /\ (s \o t)[k].op # "CLOSE_FILE"
  <2>1. CASE k <= Len(s)
    <3>1. k \in 1 .. Len(s)
      BY <1>2, <2>1
    <3> QED BY <1>1, <1>2, <3>1, SeqConcat
  <2>2. CASE k > Len(s)
    BY <1>1, <1>2, <2>2, SeqConcat
  <2> QED BY <1>2, <2>1, <2>2
<1> QED BY <1>3, <1>4 DEF WorkOf

LEMMA WorkOfFlush ==
  ASSUME TypeOK, NEW i \in Iter
  PROVE  /\ WorkOf(i, openIteration(i)) /\ WorkOf(i, createIteration(i))
         /\ WorkOf(i, prologue(i)) /\ WorkOf(i, meshesTasks(i)) /\ WorkOf(i, chunkTasks(i))
         /\ WorkOf(i, attributeTasks(i)) /\ WorkOf(i, writeTasks(i))
<1>0. /\ mem[i].data \in Version /\ mem[i].attr \in Version /\ mem[i].group \in Version
      /\ seriesAttr \in Version /\ 0 \in Version
  BY VersionAssumption DEF TypeOK, UserTypeOK, Content, Version
<1>1. WorkOf(i, openIteration(i)) /\ WorkOf(i, createIteration(i))
  <2>1. ASSUME NEW a \in Operation \ {"CLOSE_FILE"}, NEW b \in Operation \ {"CLOSE_FILE"},
               NEW c \in Operation \ {"CLOSE_FILE"}
        PROVE  WorkOf(i, <<Task(a, i), Task(b, i), Task(c, i)>>)
    <3>1. Task(a, i) \in IOTask /\ Task(b, i) \in IOTask /\ Task(c, i) \in IOTask
      BY <1>0, TaskType
    <3> QED BY <3>1 DEF WorkOf, Task
  <2> QED BY <2>1 DEF openIteration, createIteration, Operation
<1>2. WorkOf(i, prologue(i))
  BY <1>1 DEF prologue
<1>3. WorkOf(i, chunkTasks(i))
  <2>1. /\ WorkOf(i, <<VersionTask("WRITE_DATASET", i, mem[i].data)>>)
        /\ WorkOf(i, <<Task("READ_DATASET", i)>>)
    BY <1>0, WorkOne DEF Operation
  <2> QED BY <2>1, WorkWhen DEF chunkTasks
<1>4. WorkOf(i, attributeTasks(i))
  <2>1. /\ WorkOf(i, When(dirty[i], VersionTask("WRITE_ATT", i, mem[i].attr)))
        /\ WorkOf(i, <<Task("CREATE_BASEPATH", i)>>)
        /\ WorkOf(i, When(seriesDirty \/ dirty[i] \/ flushesMeshes(i) # meshesPath,
                          VersionTask("WRITE_SERIES_ATT", i, seriesAttr)))
    BY <1>0, WorkOne, WorkWhen DEF Operation
  <2> QED BY <2>1, WorkConcat DEF attributeTasks
<1>5. WorkOf(i, meshesTasks(i))
  <2>1. /\ WorkOf(i, <<Task("WRITE_MESHES_PATH", i)>>)
        /\ WorkOf(i, When(groupDirty[i], VersionTask("WRITE_GROUP_ATT", i, mem[i].group)))
    BY <1>0, WorkOne, WorkWhen DEF Operation
  <2> QED BY <2>1, WorkConcat, WorkNothing DEF meshesTasks
<1>6. WorkOf(i, writeTasks(i))
  BY <1>2, <1>3, <1>4, <1>5, WorkConcat DEF writeTasks
<1> QED BY <1>1, <1>2, <1>3, <1>4, <1>5, <1>6

-----------------------------------------------------------------------------
(* The steps that enqueue tasks.                                           *)

LEMMA EnqueueAndCloseQueue ==
  ASSUME TypeOK, QueueInv, NEW i \in Iter, NEW status \in CloseStatus, NEW s, WorkOf(i, s),
         enqueueAndClose(i, status, s), access' = access,
         m_closed[i] # "ClosedInBackend", status # "ClosedInBackend",
         status = "ClosedTemporarily" => s = <<>> /\ m_closed[i] = "ClosedTemporarily"
  PROVE  QueueInv'
<1> DEFINE closing == status = "ClosedInFrontend"
           new == s \o When(closing, Task("CLOSE_FILE", i))
<1>1. Closes(i, closing, new)
  BY ClosingTasks
<1>2. m_work' = m_work \o new
  BY DEF enqueueAndClose, enqueue
<1>3. /\ \A j \in Iter \ {i} : m_closed'[j] = m_closed[j]
      /\ m_closed'[i] = IF closing THEN "ClosedInBackend" ELSE status
  BY DEF enqueueAndClose, TypeOK, ObjectTypeOK
<1>4. status = "ClosedTemporarily" => new = <<>>
  <2>1. <<>> \o <<>> = <<>>
    OBVIOUS
  <2> QED BY <2>1 DEF When
<1> HIDE DEF new
<1> QED BY <1>1, <1>2, <1>3, <1>4, EnqueueQueue

LEMMA FlushQueue ==
  ASSUME TypeOK, QueueInv, NEW i \in Iter,
         WriteIteration(i) \/ ReadIteration(i) \/ PassClean(i)
  PROVE  QueueInv'
<1>0. m_closed[i] \in CloseStatus /\ m_closed[i] # "ClosedInBackend" /\ access' = access
  BY DEF TypeOK, ObjectTypeOK, WriteIteration, ReadIteration, PassClean, toFlush, fixed, storage
<1>1. reopened(i) \in CloseStatus \ {"ClosedInBackend", "ClosedTemporarily"}
  BY <1>0 DEF reopened, CloseStatus
<1>2. CASE WriteIteration(i)
  <2>1. WorkOf(i, writeTasks(i))
    BY WorkOfFlush, WorkConcat
  <2>2. enqueueAndClose(i, reopened(i), writeTasks(i))
    BY <1>2 DEF WriteIteration
  <2> QED BY <1>0, <1>1, <2>1, <2>2, EnqueueAndCloseQueue
<1>3. CASE ReadIteration(i)
  <2>1. WorkOf(i, openIteration(i) \o chunkTasks(i))
    BY WorkOfFlush, WorkConcat
  <2>2. enqueueAndClose(i, reopened(i), openIteration(i) \o chunkTasks(i))
    BY <1>3 DEF ReadIteration
  <2> QED BY <1>0, <1>1, <2>1, <2>2, EnqueueAndCloseQueue
<1>4. CASE PassClean(i)
  <2>1. enqueueAndClose(i, m_closed[i], <<>>)
    BY <1>4 DEF PassClean
  <2> QED BY <1>0, <2>1, WorkNothing, EnqueueAndCloseQueue
<1> QED BY <1>2, <1>3, <1>4

LEMMA RejectQueue ==
  ASSUME TypeOK, QueueInv, NEW i \in Iter, NEW early \in BOOLEAN, RejectRecord(i, early)
  PROVE  QueueInv'
<1> DEFINE s == prologue(i) \o meshesTasks(i) \o (IF early THEN chunkTasks(i) ELSE <<>>)
           new == s \o When(FALSE, Task("CLOSE_FILE", i))
<1>1. WorkOf(i, s)
  BY WorkOfFlush, WorkNothing, WorkConcat
<1>2. Closes(i, FALSE, new)
  BY <1>1, ClosingTasks
<1>3. m_work' = m_work \o new
  <2>1. s \o <<>> = s
    BY <1>1 DEF WorkOf
  <2> QED BY <2>1 DEF RejectRecord, enqueue, When
<1>4. /\ m_closed[i] # "ClosedInBackend" /\ Writing /\ access' = access
      /\ \A j \in Iter \ {i} : m_closed'[j] = m_closed[j]
      /\ m_closed'[i] \in {m_closed[i], reopened(i)}
  BY DEF RejectRecord, toFlush, fixed, TypeOK, ObjectTypeOK
<1>5. m_closed'[i] # "ClosedInBackend"
  BY <1>4 DEF reopened
<1> HIDE DEF new
<1>6. QueueInv'
  BY <1>2, <1>3, <1>4, <1>5, EnqueueQueue
<1> QED BY <1>6

LEMMA AdvanceQueue ==
  ASSUME TypeOK, QueueInv, StepIsOpen, Advance
  PROVE  QueueInv'
<1> DEFINE i == call.it
           closing == call.old = "ClosedInFrontend" /\ call.op = "end"
           s == When(call.old = "ClosedInFrontend" \/ m_closed[i] # "ClosedTemporarily",
                     Task("ADVANCE", i))
           new == s \o When(closing, Task("CLOSE_FILE", i))
<1>1. i \in Iter /\ m_closed[i] \in {"Open", "ClosedTemporarily"}
  BY DEF Advance, LoopDone, StepIsOpen, TypeOK, ControlTypeOK
<1>2. WorkOf(i, s)
  <2>1. "ADVANCE" \in Operation \ {"CLOSE_FILE"} /\ 0 \in Version
    BY VersionAssumption DEF Operation, Version
  <2>2. WorkOf(i, <<Task("ADVANCE", i)>>)
    BY <1>1, <2>1, WorkOne
  <2> QED BY <2>2, WorkWhen
<1>3. Closes(i, closing, new)
  BY <1>1, <1>2, ClosingTasks
<1>4. m_work' = m_work \o new /\ access' = access
  BY DEF Advance, enqueue, flushEnds, storage, fixed
<1>5. /\ \A j \in Iter \ {i} : m_closed'[j] = m_closed[j]
      /\ m_closed'[i] = IF closing THEN "ClosedInBackend"
                        ELSE IF call.old = "ClosedInFrontend" THEN "ClosedInFrontend"
                        ELSE m_closed[i]
  BY <1>1 DEF Advance, TypeOK, ObjectTypeOK
<1>6. m_closed'[i] = "ClosedTemporarily" => new = <<>>
  <2>1. <<>> \o <<>> = <<>>
    OBVIOUS
  <2> QED BY <1>5, <2>1 DEF When
<1> HIDE DEF new
<1>7. m_closed'[i] = "ClosedInBackend" <=> closing
  BY <1>1, <1>5
<1>8. m_closed'[i] = "ClosedTemporarily" => m_closed[i] = "ClosedTemporarily"
  BY <1>1, <1>5
<1>9. m_closed[i] # "ClosedInBackend" /\ \A j \in Iter \ {i} : m_closed'[j] = m_closed[j]
  BY <1>1, <1>5
<1> HIDE DEF i, closing
<1> QED BY <1>1, <1>3, <1>4, <1>6, <1>7, <1>8, <1>9, EnqueueQueue

-----------------------------------------------------------------------------
(* Every step is one of the frontend's, or enqueues, or executes a task.   *)

QueueStep ==
  \/ Advance \/ Drain
  \/ \E i \in Iter : \/ WriteIteration(i) \/ ReadIteration(i) \/ PassClean(i)
                     \/ \E early \in BOOLEAN : RejectRecord(i, early)

LEMMA Steps == [Next]_vars => FrontendStep \/ QueueStep
BY DEF Next, Internal, Visit, FrontendStep, QueueStep

LEMMA QueueNext ==
  ASSUME TypeOK, QueueInv, StepIsOpen, [Next]_vars
  PROVE  QueueInv'
BY Steps, FrontendQueue, AdvanceQueue, DrainQueue, FlushQueue, RejectQueue DEF QueueStep

\* The steps that enqueue tasks close an iteration only if it is not closed yet.
LEMMA QueueMoves ==
  ASSUME TypeOK, StepIsOpen, QueueStep, NEW j \in Iter, m_closed[j] = "ClosedInBackend"
  PROVE  m_closed'[j] = "ClosedInBackend"
<1>1. CASE Drain
  BY <1>1 DEF Drain, objects
<1>2. CASE Advance
  <2>1. call.it \in Iter /\ call.it # j
    BY <1>2 DEF Advance, LoopDone, StepIsOpen, TypeOK, ControlTypeOK
  <2> QED BY <1>2, <2>1 DEF Advance, TypeOK, ObjectTypeOK
<1>3. ASSUME NEW i \in Iter,
             WriteIteration(i) \/ ReadIteration(i) \/ PassClean(i)
             \/ \E early \in BOOLEAN : RejectRecord(i, early)
      PROVE  m_closed'[j] = "ClosedInBackend"
  <2>1. i # j
    BY <1>3 DEF WriteIteration, ReadIteration, PassClean, RejectRecord, toFlush
  <2> QED BY <1>3, <2>1 DEF WriteIteration, ReadIteration, PassClean, RejectRecord,
          enqueueAndClose, TypeOK, ObjectTypeOK
<1> QED BY <1>1, <1>2, <1>3 DEF QueueStep

LEMMA ClosedNext ==
  ASSUME TypeOK, StepIsOpen, [Next]_vars, NEW j \in Iter, m_closed[j] = "ClosedInBackend"
  PROVE  m_closed'[j] = "ClosedInBackend"
BY Steps, QueueMoves, FrontendMoves DEF Moves

-----------------------------------------------------------------------------
(* A step flushes an open iteration.                                       *)

LEMMA StepStarts ==
  ASSUME TypeOK, NEW op, NEW i \in Iter, NEW s \in CloseStatus, NEW next,
         startStep(op, i, s, next)
  PROVE  StepIsOpen'
BY DEF startStep, startFlush, StepIsOpen, TypeOK, ObjectTypeOK, CloseStatus

LEMMA NoStep ==
  ASSUME call'.op \notin {"begin", "end"} \/ phase' \notin {"flush", "drain"}
  PROVE  StepIsOpen'
BY DEF StepIsOpen

LEMMA CloseStep ==
  ASSUME TypeOK, phase = "idle",
         NEW i \in Iter, NEW now \in BOOLEAN, NEW next, closeIteration(i, now, next)
  PROVE  StepIsOpen'
<1> DEFINE status == CASE m_closed[i] = "ClosedInBackend" -> "ClosedInBackend"
                       [] m_closed[i] = "ClosedTemporarily" /\ ~dirtyRecursive(i)
                            /\ ~Writing -> "ClosedInBackend"
                       [] OTHER -> "ClosedInFrontend"
<1>1. status \in CloseStatus
  BY DEF CloseStatus
<1>2. CASE startStep("end", i, status, next)
  BY <1>1, <1>2, StepStarts
<1>3. CASE startFlush("close", i, "Open", next, {i})
  BY <1>3, NoStep DEF startFlush
<1>4. CASE UNCHANGED <<phase, call, todo, failures>>
  BY <1>4, NoStep
<1> QED BY <1>2, <1>3, <1>4 DEF closeIteration

LEMMA LeaveStep ==
  ASSUME NEW r, leave(r)
  PROVE  StepIsOpen' /\ call' = NoCall /\ call'.op = "none" /\ call'.next = None /\ todo' = {}
BY NoStep DEF leave, NoCall

LEMMA StepNext ==
  ASSUME TypeOK, StepIsOpen, [Next]_vars
  PROVE  StepIsOpen'
<1>1. CASE Modify
  BY <1>1 DEF Modify, Insert, SetAttribute, StoreChunk, LoadChunk, CreateEmptyRecord,
     SetGroupAttribute, SetSeriesAttribute, unobserved, change, StepIsOpen
<1>2. CASE Flush \/ FlushNothing \/ Destroy \/ \E i \in Iter : Open(i)
  BY <1>2, NoStep DEF Flush, FlushNothing, Destroy, Open, startFlush, Idle
<1>3. ASSUME NEW i \in Iter, NEW now \in BOOLEAN, Close(i, now) PROVE StepIsOpen'
  BY <1>3, CloseStep DEF Close, Idle
<1>4. ASSUME NEW i \in Iter, select(i) PROVE StepIsOpen'
  BY <1>4, StepStarts, NoStep DEF select, TypeOK, ObjectTypeOK, NoCall
<1>5. ASSUME NEW i \in Iter, SwitchTo(i) PROVE StepIsOpen'
  BY <1>4, <1>5, CloseStep DEF SwitchTo, Idle, TypeOK, UserTypeOK
<1>6. ASSUME NEW i \in Iter, startStep("begin", i, m_closed[i], None) PROVE StepIsOpen'
  BY <1>6, StepStarts DEF TypeOK, ObjectTypeOK
<1>7. ASSUME NEW i \in Iter, ReadFirst(i) PROVE StepIsOpen'
  BY <1>6, <1>7 DEF ReadFirst
<1>8. ASSUME NEW i \in Iter \cup {None}, ReadNext(i) PROVE StepIsOpen'
  BY <1>6, <1>8, CloseStep DEF ReadNext, Idle, TypeOK, UserTypeOK
<1>9. CASE CallAPI
  BY <1>2, <1>3, <1>5, <1>7, <1>8, <1>9 DEF CallAPI
<1>10. CASE ReturnToLoop
  <2>1. call.next \in Iter
    BY <1>10 DEF ReturnToLoop, TypeOK, ControlTypeOK, Call
  <2> QED BY <1>4, <1>6, <1>10, <2>1 DEF ReturnToLoop
<1>11. CASE \/ Return \/ BackendThrows
            \/ \E i \in Iter : RejectUnwritten(i) \/ RejectAccess(i)
                               \/ \E early \in BOOLEAN : RejectRecord(i, early)
  BY <1>11, LeaveStep DEF Return, BackendThrows, RejectUnwritten, RejectAccess, RejectRecord
<1>12. CASE FlushDone \/ StepOnClosed \/ Advance \/ LastDrained
  BY <1>12, NoStep DEF FlushDone, StepOnClosed, Advance, LastDrained, flushEnds
<1>13. CASE Drain \/ UNCHANGED vars
  BY <1>13 DEF Drain, vars, objects, control, StepIsOpen
<1>14. ASSUME NEW i \in Iter, SkipClosed(i) \/ Drained(i) PROVE StepIsOpen'
  BY <1>14 DEF SkipClosed, Drained, objects, StepIsOpen, Reached
<1>15. ASSUME NEW i \in Iter, WriteIteration(i) \/ ReadIteration(i) \/ PassClean(i)
       PROVE  StepIsOpen'
  <2>1. \E status : /\ status \in {m_closed[i], reopened(i)}
                    /\ m_closed' = [m_closed EXCEPT ![i] =
                          IF status = "ClosedInFrontend" THEN "ClosedInBackend" ELSE status]
    BY <1>15 DEF WriteIteration, ReadIteration, PassClean, enqueueAndClose
  <2>2. phase = "flush" /\ call' = call
    BY <1>15 DEF WriteIteration, ReadIteration, PassClean, Reached
  <2> QED BY <2>1, <2>2 DEF StepIsOpen, reopened, TypeOK, ObjectTypeOK, ControlTypeOK
<1> QED BY <1>1, <1>9, <1>10, <1>11, <1>12, <1>13, <1>14, <1>15 DEF Next, Internal, Visit

-----------------------------------------------------------------------------
(* Iterations are created before they are closed.                          *)

\* Tasks already in the queue stay there when others are enqueued.
LEMMA StillQueued ==
  ASSUME TypeOK, NEW s \in Seq(IOTask), m_work' = m_work \o s, NEW t, Queued(t)
  PROVE  Queued(t)'
<1>1. m_work \in Seq(IOTask)
  BY DEF TypeOK, BackendTypeOK
<1>2. PICK k \in DOMAIN m_work : m_work[k] = t
  BY DEF Queued
<1>3. k \in 1 .. Len(m_work) /\ m_work'[k] = t
  BY <1>1, <1>2, SeqConcat, SeqElements
<1>4. k \in DOMAIN m_work'
  BY <1>1, <1>3, SeqConcat, SeqElements
<1> QED BY <1>3, <1>4 DEF Queued

\* An iteration once written stays so.
LEMMA DrainKeepsWritten ==
  ASSUME TypeOK, Drain, NEW i \in Iter, written[i]
  PROVE  written'[i]
<1> DEFINE t == Head(m_work)
<1>1. Execute(t) /\ written \in [Iter -> BOOLEAN] /\ t \in IOTask
  BY DEF Drain, ProcessTask, TypeOK, BackendTypeOK
<1>2. t.it \in Iter
  BY <1>1 DEF IOTask
<1> HIDE DEF t
<1> QED BY <1>1, <1>2 DEF Execute, noEffect, createFile, openFile, basePath, iterationPath,
        writeDataset, writeAttribute, writeGroupAttribute, writeSeriesAttribute,
        writeMeshesPath, closeFile, flags

LEMMA CreatedByDrain ==
  ASSUME TypeOK, Drain, NEW i \in Iter, Created(i)
  PROVE  Created(i)'
<1> DEFINE t == Head(m_work)
<1>1. /\ m_work \in Seq(IOTask) /\ m_work # <<>> /\ m_work' = Tail(m_work)
      /\ Execute(t) /\ written \in [Iter -> BOOLEAN]
  BY DEF Drain, ProcessTask, TypeOK, BackendTypeOK
<1>3. CASE written[i]
  BY <1>3, DrainKeepsWritten DEF Created
<1>4. CASE Queued(Task("CREATE_PATH", i))
  <2>1. PICK k \in DOMAIN m_work : m_work[k] = Task("CREATE_PATH", i)
    BY <1>4 DEF Queued
  <2>2. CASE k = 1
    <3>1. t.op = "CREATE_PATH" /\ t.it = i
      BY <1>1, <2>1, <2>2 DEF Task
    <3>2. written'[i]
      BY <1>1, <3>1 DEF Execute, Skipped, noEffect, flags, iterationPath
    <3> QED BY <3>2 DEF Created
  <2>3. CASE k # 1
    <3>1. k - 1 \in DOMAIN m_work' /\ m_work'[k - 1] = m_work[k]
      BY <1>1, <2>1, <2>3
    <3> QED BY <2>1, <3>1 DEF Created, Queued, Task
  <2> QED BY <2>2, <2>3
<1> QED BY <1>3, <1>4 DEF Created

\* What is enqueued is a sequence of tasks.
LEMMA QueueGrows ==
  ASSUME TypeOK, StepIsOpen, QueueStep, ~Drain
  PROVE  written' = written /\ \E s \in Seq(IOTask) : m_work' = m_work \o s
<1>1. ASSUME NEW i \in Iter, NEW status, NEW s, WorkOf(i, s), enqueueAndClose(i, status, s)
      PROVE  \E q \in Seq(IOTask) : m_work' = m_work \o q
  <2>1. Closes(i, status = "ClosedInFrontend",
               s \o When(status = "ClosedInFrontend", Task("CLOSE_FILE", i)))
    BY <1>1, ClosingTasks
  <2> QED BY <1>1, <2>1 DEF enqueueAndClose, enqueue, Closes
<1>2. ASSUME NEW i \in Iter, WriteIteration(i)
      PROVE  written' = written /\ \E q \in Seq(IOTask) : m_work' = m_work \o q
  <2>1. WorkOf(i, writeTasks(i))
    BY WorkOfFlush, WorkConcat
  <2> QED BY <1>1, <1>2, <2>1 DEF WriteIteration
<1>3. ASSUME NEW i \in Iter, ReadIteration(i)
      PROVE  written' = written /\ \E q \in Seq(IOTask) : m_work' = m_work \o q
  <2>1. WorkOf(i, openIteration(i) \o chunkTasks(i))
    BY WorkOfFlush, WorkConcat
  <2> QED BY <1>1, <1>3, <2>1 DEF ReadIteration, storage, flags
<1>4. ASSUME NEW i \in Iter, PassClean(i)
      PROVE  written' = written /\ \E q \in Seq(IOTask) : m_work' = m_work \o q
  BY <1>1, <1>4, WorkNothing DEF PassClean, storage, flags
<1>5. ASSUME NEW i \in Iter, NEW early \in BOOLEAN, RejectRecord(i, early)
      PROVE  written' = written /\ \E q \in Seq(IOTask) : m_work' = m_work \o q
  <2>1. WorkOf(i, prologue(i) \o meshesTasks(i) \o (IF early THEN chunkTasks(i) ELSE <<>>))
    BY WorkOfFlush, WorkNothing, WorkConcat
  <2> QED BY <1>5, <2>1 DEF RejectRecord, enqueue, WorkOf
<1>6. CASE Advance
  <2>1. call.it \in Iter
    BY <1>6 DEF Advance, LoopDone, TypeOK, ControlTypeOK
  <2>2. Task("ADVANCE", call.it) \in IOTask /\ Task("CLOSE_FILE", call.it) \in IOTask
    BY <2>1, TaskType, VersionAssumption DEF Operation, Version
  <2>3. \A a, b : When(a, Task("ADVANCE", call.it)) \o When(b, Task("CLOSE_FILE", call.it))
                    \in Seq(IOTask)
    BY <2>2, WhenType
  <2> QED BY <1>6, <2>3 DEF Advance, enqueue, flushEnds, storage, flags
<1> QED BY <1>2, <1>3, <1>4, <1>5, <1>6 DEF QueueStep

LEMMA CreatedNext ==
  ASSUME TypeOK, StepIsOpen, [Next]_vars, NEW i \in Iter, Created(i)
  PROVE  Created(i)'
<1>1. CASE FrontendStep
  BY <1>1, FrontendUnqueued DEF Unqueued, Created, Queued, Task
<1>2. CASE Drain
  BY <1>2, CreatedByDrain
<1>3. CASE QueueStep /\ ~Drain
  BY <1>3, QueueGrows, StillQueued DEF Created, Task
<1> QED BY <1>1, <1>2, <1>3, Steps

\* The flush of an iteration creates it: CREATE_PATH is the third task.
LEMMA ThirdStays ==
  ASSUME NEW s \in Seq(IOTask), NEW u \in Seq(IOTask), Len(s) >= 3
  PROVE  s \o u \in Seq(IOTask) /\ Len(s \o u) >= 3 /\ (s \o u)[3] = s[3]
<1>1. Len(s) \in Nat /\ Len(u) \in Nat /\ 3 \in 1 .. Len(s)
  BY SeqElements
<1>2. s \o u \in Seq(IOTask) /\ Len(s \o u) = Len(s) + Len(u) /\ (s \o u)[3] = s[3]
  BY <1>1, SeqConcat
<1> QED BY <1>1, <1>2

LEMMA WriteCreates ==
  ASSUME TypeOK, NEW i \in Iter, WriteIteration(i)
  PROVE  Created(i)'
<1>1. CASE written[i]
  BY <1>1 DEF WriteIteration, Created
<1>2. CASE ~written[i]
  <2> DEFINE close == When(reopened(i) = "ClosedInFrontend", Task("CLOSE_FILE", i))
             body == (createIteration(i) \o meshesTasks(i)) \o chunkTasks(i)
             new == (body \o attributeTasks(i)) \o close
  <2>1. /\ createIteration(i) \in Seq(IOTask) /\ chunkTasks(i) \in Seq(IOTask)
        /\ meshesTasks(i) \in Seq(IOTask)
        /\ attributeTasks(i) \in Seq(IOTask) /\ close \in Seq(IOTask)
    <3>1. Task("CLOSE_FILE", i) \in IOTask
      BY TaskType, VersionAssumption DEF Operation, Version
    <3> QED BY <3>1, WorkOfFlush, WhenType DEF WorkOf
  <2>2. Len(createIteration(i)) >= 3 /\ createIteration(i)[3] = Task("CREATE_PATH", i)
    BY DEF createIteration
  <2>3. m_work' = m_work \o new
    <3>1. prologue(i) = createIteration(i)
      BY <1>2 DEF prologue
    <3> QED BY <3>1 DEF WriteIteration, writeTasks, enqueueAndClose, enqueue
  <2> HIDE DEF close
  <2>4. new \in Seq(IOTask) /\ Len(new) >= 3 /\ new[3] = Task("CREATE_PATH", i)
    <3>1. /\ createIteration(i) \o meshesTasks(i) \in Seq(IOTask)
          /\ Len(createIteration(i) \o meshesTasks(i)) >= 3
          /\ (createIteration(i) \o meshesTasks(i))[3] = Task("CREATE_PATH", i)
      BY <2>1, <2>2, ThirdStays
    <3>2. body \in Seq(IOTask) /\ Len(body) >= 3 /\ body[3] = Task("CREATE_PATH", i)
      BY <2>1, <3>1, ThirdStays
    <3> HIDE DEF body
    <3>3. /\ body \o attributeTasks(i) \in Seq(IOTask)
          /\ Len(body \o attributeTasks(i)) >= 3
          /\ (body \o attributeTasks(i))[3] = Task("CREATE_PATH", i)
      BY <2>1, <3>2, ThirdStays
    <3> QED BY <2>1, <3>3, ThirdStays
  <2> HIDE DEF new
  <2>5. Len(m_work) + 3 \in DOMAIN m_work' /\ m_work'[Len(m_work) + 3] = Task("CREATE_PATH", i)
    <3>1. m_work \in Seq(IOTask) /\ Len(m_work) \in Nat /\ Len(new) \in Nat
      BY <2>4, SeqElements DEF TypeOK, BackendTypeOK
    <3>2. DOMAIN m_work' = 1 .. Len(m_work) + Len(new)
      BY <2>3, <2>4, <3>1, SeqConcat, SeqElements
    <3> QED BY <2>3, <2>4, <3>1, <3>2
  <2> QED BY <2>5 DEF Created, Queued, Task
<1> QED BY <1>1, <1>2

-----------------------------------------------------------------------------
(* New iterations, flushes of one iteration, readers.                      *)

\* The frontend clears a dirty bit only of an iteration that has been created.
LEMMA FrontendDirty ==
  ASSUME TypeOK, FlushCreates, FrontendStep, NEW i \in Iter, dirty[i]
  PROVE  dirty'[i] \/ Created(i)
<1> USE DEF TypeOK, ObjectTypeOK
<1>1. CASE Modify
  BY <1>1 DEF Modify, Insert, SetAttribute, StoreChunk, LoadChunk, CreateEmptyRecord,
     SetGroupAttribute, SetSeriesAttribute
<1>2. CASE CallAPI
  BY <1>2 DEF CallAPI, Flush, FlushNothing, Destroy, Close, Open, SwitchTo, ReadFirst,
     ReadNext, closeIteration, objects
<1>3. CASE \E j \in Iter : RejectUnwritten(j) \/ RejectAccess(j) \/ SkipClosed(j) \/ Drained(j)
  BY <1>3 DEF RejectUnwritten, RejectAccess, SkipClosed, Drained, objects
<1>4. CASE BackendThrows \/ FlushDone \/ StepOnClosed \/ LastDrained \/ UNCHANGED vars
  BY <1>4 DEF BackendThrows, FlushDone, StepOnClosed, LastDrained, flushEnds, vars, objects
<1>5. CASE Return \/ ReturnToLoop
  <2>1. dirty' = IF call.op = "open" THEN [dirty EXCEPT ![call.it] = FALSE] ELSE dirty
    BY <1>5 DEF Return, ReturnToLoop, afterCall
  <2>2. phase = "return"
    BY <1>5 DEF Return, ReturnToLoop
  <2> QED BY <2>1, <2>2 DEF FlushCreates
<1> QED BY <1>1, <1>2, <1>3, <1>4, <1>5 DEF FrontendStep

LEMMA NewNext ==
  ASSUME LifecycleInv, [Next]_vars
  PROVE  NewIsDirty'
<1> SUFFICES ASSUME NEW i \in Iter
             PROVE  Created(i)' \/ (dirty'[i] /\ m_closed'[i] \in {"Open", "ClosedInFrontend"})
  BY DEF NewIsDirty
<1>1. TypeOK /\ StepIsOpen /\ FlushCreates /\ NewIsDirty
  BY DEF LifecycleInv
<1>2. CASE Created(i)
  BY <1>1, <1>2, CreatedNext
<1>3. CASE ~Created(i)
  <2>1. dirty[i] /\ m_closed[i] \in {"Open", "ClosedInFrontend"} /\ ~written[i]
    BY <1>1, <1>3 DEF NewIsDirty, Created
  <2>2. CASE FrontendStep
    BY <1>1, <1>3, <2>1, <2>2, FrontendMoves, FrontendDirty DEF Moves
  <2>3. CASE Drain
    BY <2>1, <2>3 DEF Drain, objects
  <2>4. CASE Advance
    <3>1. call.it \in Iter /\ call.it # i
      BY <1>1, <1>3, <2>4 DEF Advance, LoopDone, FlushCreates, TypeOK, ControlTypeOK
    <3> QED BY <1>1, <2>1, <2>4, <3>1 DEF Advance, flushEnds, TypeOK, ObjectTypeOK
  <2>5. ASSUME NEW j \in Iter, WriteIteration(j)
        PROVE  Created(i)' \/ (dirty'[i] /\ m_closed'[i] \in {"Open", "ClosedInFrontend"})
    <3>1. CASE j = i
      BY <1>1, <2>5, <3>1, WriteCreates
    <3>2. CASE j # i
      BY <1>1, <2>1, <2>5, <3>2 DEF WriteIteration, enqueueAndClose, TypeOK, ObjectTypeOK
    <3> QED BY <3>1, <3>2
  <2>6. ASSUME NEW j \in Iter, ReadIteration(j)
        PROVE  dirty'[i] /\ m_closed'[i] \in {"Open", "ClosedInFrontend"}
    <3>1. j # i
      BY <2>1, <2>6 DEF ReadIteration, Reached, Least, LifecycleInv, ReaderFindsAll
    <3> QED BY <1>1, <2>1, <2>6, <3>1 DEF ReadIteration, enqueueAndClose, TypeOK, ObjectTypeOK
  <2>7. ASSUME NEW j \in Iter, PassClean(j)
        PROVE  dirty'[i] /\ m_closed'[i] \in {"Open", "ClosedInFrontend"}
    <3>1. j # i
      BY <2>1, <2>7 DEF PassClean, toFlush, dirtyRecursive
    <3> QED BY <1>1, <2>1, <2>7, <3>1 DEF PassClean, enqueueAndClose, TypeOK, ObjectTypeOK
  <2>8. ASSUME NEW j \in Iter, NEW early \in BOOLEAN, RejectRecord(j, early)
        PROVE  dirty'[i] /\ m_closed'[i] \in {"Open", "ClosedInFrontend"}
    BY <1>1, <2>1, <2>8 DEF RejectRecord, TypeOK, ObjectTypeOK
  <2> QED BY <2>2, <2>3, <2>4, <2>5, <2>6, <2>7, <2>8, Steps DEF QueueStep
<1> QED BY <1>2, <1>3

-----------------------------------------------------------------------------
(* Readers.                                                                *)

LEMMA WrittenNext ==
  ASSUME TypeOK, StepIsOpen, [Next]_vars, NEW i \in Iter, written[i]
  PROVE  written'[i]
<1>1. CASE FrontendStep
  BY <1>1, FrontendUnqueued DEF Unqueued
<1>2. CASE QueueStep
  BY <1>2, DrainKeepsWritten, QueueGrows
<1> QED BY <1>1, <1>2, Steps

LEMMA AccessFixed == [Next]_vars /\ TypeOK /\ StepIsOpen => access' = access
<1>1. CASE QueueStep
  BY <1>1 DEF QueueStep, Advance, flushEnds, Drain, ProcessTask, WriteIteration, ReadIteration,
     PassClean, RejectRecord, storage, fixed
<1>2. CASE FrontendStep
  BY <1>2, FrontendUnqueued DEF Unqueued
<1> QED BY <1>1, <1>2, Steps

LEMMA ReaderCloses ==
  ASSUME LifecycleInv, ~Writing, NEW i \in iterations, NEW now \in BOOLEAN,
         NEW next \in iterations \cup {None}, closeIteration(i, now, next)
  PROVE  /\ todo' \subseteq iterations
         /\ {currentlyOpen', call'.it, call'.next} \subseteq iterations \cup {None}
BY DEF closeIteration, startStep, startFlush, LifecycleInv, ReaderFindsAll

LEMMA ReaderStarts ==
  ASSUME NEW op, NEW i \in iterations, NEW s, NEW next \in iterations \cup {None},
         startStep(op, i, s, next)
  PROVE  todo' \subseteq iterations /\ {call'.it, call'.next} \subseteq iterations \cup {None}
BY DEF startStep, startFlush

LEMMA ReaderControl ==
  ASSUME LifecycleInv, ~Writing, [Next]_vars
  PROVE  /\ iterations' = iterations
         /\ todo' \subseteq iterations
         /\ {currentlyOpen', call'.it, call'.next} \subseteq iterations \cup {None}
<1> DEFINE Goal == /\ iterations' = iterations
                   /\ todo' \subseteq iterations
                   /\ {currentlyOpen', call'.it, call'.next} \subseteq iterations \cup {None}
<1>0. /\ TypeOK
      /\ todo \subseteq iterations
      /\ {currentlyOpen, call.it, call.next} \subseteq iterations \cup {None}
  BY DEF LifecycleInv, ReaderFindsAll
<1>1. CASE Modify
  BY <1>0, <1>1 DEF Modify, Insert, SetAttribute, StoreChunk, LoadChunk, CreateEmptyRecord,
     SetGroupAttribute, SetSeriesAttribute, unobserved, user
<1>2. CASE Flush \/ FlushNothing \/ Destroy \/ \E i \in Iter : Open(i)
  BY <1>0, <1>2 DEF Flush, FlushNothing, Destroy, Open, startFlush, user, objects
<1>3. ASSUME NEW i \in Iter, NEW now \in BOOLEAN, Close(i, now) PROVE Goal
  <2>1. iterations' = iterations
    BY <1>3 DEF Close, closeIteration
  <2> QED BY <1>3, <2>1, ReaderCloses DEF Close
<1>4. ASSUME NEW i \in Iter, ReadFirst(i) PROVE Goal
  <2>1. i \in iterations /\ iterations' = iterations /\ currentlyOpen' = currentlyOpen
    BY <1>4 DEF ReadFirst, Least, user
  <2> QED BY <1>0, <1>4, <2>1, ReaderStarts DEF ReadFirst
<1>5. ASSUME NEW i \in Iter \cup {None}, ReadNext(i) PROVE Goal
  <2>1. i \in iterations \cup {None} /\ currentlyOpen \in iterations
    BY <1>0, <1>5 DEF ReadNext, Least, successors
  <2>2. iterations' = iterations
    BY <1>5 DEF ReadNext, closeIteration
  <2>3. CASE ~closed(currentlyOpen)
    BY <1>5, <2>1, <2>2, <2>3, ReaderCloses DEF ReadNext
  <2>4. CASE closed(currentlyOpen)
    BY <1>5, <2>1, <2>2, <2>4, ReaderStarts DEF ReadNext
  <2> QED BY <2>3, <2>4
<1>6. CASE CallAPI
  BY <1>2, <1>3, <1>4, <1>5, <1>6 DEF CallAPI, SwitchTo
<1>7. CASE ReturnToLoop
  <2>1. call.next \in iterations
    BY <1>0, <1>7 DEF ReturnToLoop
  <2> QED BY <1>7, <2>1, ReaderStarts DEF ReturnToLoop
<1>8. CASE Return
  BY <1>0, <1>8, LeaveStep DEF Return, NoCall, TypeOK, ControlTypeOK
<1>9. CASE BackendThrows \/ \E i \in Iter : RejectUnwritten(i) \/ RejectAccess(i)
  BY <1>0, <1>9, LeaveStep DEF BackendThrows, RejectUnwritten, RejectAccess, objects, user, NoCall
<1>10. CASE \E i \in Iter : SkipClosed(i) \/ Drained(i)
  BY <1>0, <1>10 DEF SkipClosed, Drained, objects, user
<1>11. CASE FlushDone \/ StepOnClosed \/ Advance \/ LastDrained
  BY <1>0, <1>11 DEF FlushDone, StepOnClosed, Advance, LastDrained, flushEnds, objects, user
<1>12. CASE Drain \/ UNCHANGED vars
  BY <1>0, <1>12 DEF Drain, vars, objects, control, user
<1>13. CASE \E i \in Iter : ReadIteration(i) \/ PassClean(i)
  BY <1>0, <1>13 DEF ReadIteration, PassClean, user
<1>14. CASE \E i \in Iter : WriteIteration(i) \/ \E early \in BOOLEAN : RejectRecord(i, early)
  BY <1>14 DEF WriteIteration, RejectRecord
<1> QED BY <1>1, <1>6, <1>7, <1>8, <1>9, <1>10, <1>11, <1>12, <1>13, <1>14
        DEF Next, Internal, Visit

LEMMA ReaderNext ==
  ASSUME LifecycleInv, [Next]_vars
  PROVE  ReaderFindsAll'
<1>1. TypeOK /\ StepIsOpen /\ ReaderFindsAll
  BY DEF LifecycleInv
<1>2. access' = access
  BY <1>1, AccessFixed
<1> SUFFICES ASSUME ~Writing PROVE ReaderFindsAll'
  BY <1>2 DEF ReaderFindsAll, Writing
<1>3. \A i \in iterations' : written'[i]
  BY <1>1, ReaderControl, WrittenNext DEF ReaderFindsAll, TypeOK, ObjectTypeOK
<1> QED BY <1>3, ReaderControl DEF ReaderFindsAll

-----------------------------------------------------------------------------
(* The flush of one iteration creates it.                                  *)

LEMMA CreatesLater ==
  ASSUME NEW op \in {"begin", "end"}, NEW i, NEW s, NEW next, startStep(op, i, s, next),
         s # "ClosedInBackend" => Created(i)' \/ (Writing' /\ dirty'[i])
  PROVE  FlushCreates'
<1>1. /\ phase' = "flush" /\ todo' = {i}
      /\ call'.it = i /\ call'.old = s /\ call'.op = op
  BY DEF startStep, startFlush
<1> QED BY <1>1 DEF FlushCreates, Created, Queued, Task

LEMMA CloseCreates ==
  ASSUME LifecycleInv, phase = "idle", FlushCreates, NEW i \in Iter, NEW now \in BOOLEAN,
         NEW next, closeIteration(i, now, next), Writing \/ i \in iterations
  PROVE  FlushCreates'
<1> DEFINE status == CASE m_closed[i] = "ClosedInBackend" -> "ClosedInBackend"
                       [] m_closed[i] = "ClosedTemporarily" /\ ~dirtyRecursive(i)
                            /\ ~Writing -> "ClosedInBackend"
                       [] OTHER -> "ClosedInFrontend"
<1>1. m_work' = m_work /\ written' = written /\ access' = access
  BY DEF closeIteration, storage, flags, fixed
<1>2. Created(i)' \/ (Writing' /\ dirty'[i])
  <2>1. CASE Writing
    BY <1>1, <2>1 DEF closeIteration, Writing, LifecycleInv, TypeOK, ObjectTypeOK
  <2>2. CASE ~Writing
    BY <1>1, <2>2 DEF Created, LifecycleInv, ReaderFindsAll
  <2> QED BY <2>1, <2>2
<1>3. CASE startStep("end", i, status, next)
  BY <1>2, <1>3, CreatesLater
<1>4. CASE startFlush("close", i, "Open", next, {i})
  BY <1>4 DEF startFlush, FlushCreates
<1>5. CASE UNCHANGED <<phase, call, todo, failures>>
  BY <1>1, <1>5 DEF FlushCreates, Created, Queued, Task
<1> QED BY <1>3, <1>4, <1>5 DEF closeIteration

\* Whose flush it is.
OneFlushed == call.op = "open" \/ (call.op \in {"begin", "end"} /\ call.old # "ClosedInBackend")

LEMMA CreatesNext ==
  ASSUME LifecycleInv, [Next]_vars
  PROVE  FlushCreates'
<1>0. /\ TypeOK /\ StepIsOpen /\ FlushCreates /\ access' = access
      /\ \A i \in iterations : ~Writing => Created(i)'
      /\ NewIsDirty'
      /\ currentlyOpen \in Iter \cup {None}
      /\ m_closed \in [Iter -> CloseStatus]
  <2>1. \A i \in iterations : ~Writing => i \in Iter /\ written[i]
    BY DEF LifecycleInv, ReaderFindsAll, TypeOK, ObjectTypeOK
  <2>2. \A i \in Iter : written[i] => written'[i]
    BY WrittenNext DEF LifecycleInv
  <2> QED BY <2>1, <2>2, AccessFixed, NewNext DEF LifecycleInv, Created, TypeOK, UserTypeOK,
          ObjectTypeOK
<1>a. \A i \in Iter : Created(i) => Created(i)'
  BY <1>0, CreatedNext
<1>b. OneFlushed => call.it \in Iter
  BY <1>0 DEF OneFlushed, TypeOK, ControlTypeOK
<1>c. ASSUME call' = call, OneFlushed => Created(call.it)
      PROVE  FlushCreates'
  BY <1>a, <1>b, <1>c DEF FlushCreates, OneFlushed, Created, Queued, Task
<1>d. ASSUME call' = call, phase' = phase, todo' = todo, \A i \in Iter : dirty[i] => dirty'[i]
      PROVE  FlushCreates'
  <2>1. CASE OneFlushed => Created(call.it)
    BY <1>c, <1>d, <2>1
  <2>2. CASE OneFlushed /\ ~Created(call.it)
    <3>1. phase = "flush" /\ todo = {call.it} /\ dirty[call.it] /\ Writing
      BY <1>0, <2>2 DEF FlushCreates, OneFlushed
    <3> QED BY <1>0, <1>b, <1>d, <2>2, <3>1 DEF FlushCreates, Writing
  <2> QED BY <2>1, <2>2
<1>e. ASSUME NEW i \in Iter, startStep("begin", i, m_closed[i], None),
             Writing \/ i \in iterations
      PROVE  FlushCreates'
  <2>1. CASE ~Writing
    BY <1>0, <1>e, <2>1, CreatesLater
  <2>2. CASE Writing
    <3>1. Created(i)' \/ dirty'[i]
      BY <1>0 DEF NewIsDirty
    <3> QED BY <1>0, <1>e, <2>2, <3>1, CreatesLater DEF Writing
  <2> QED BY <2>1, <2>2
<1>1. CASE Modify
  <2>1. call' = call /\ phase' = phase /\ todo' = todo
    BY <1>1 DEF Modify, Insert, SetAttribute, StoreChunk, LoadChunk, CreateEmptyRecord,
       SetGroupAttribute, SetSeriesAttribute, unobserved, change
  <2>2. \A i \in Iter : dirty[i] => dirty'[i]
    BY <1>1, <1>0 DEF Modify, Insert, SetAttribute, StoreChunk, LoadChunk, CreateEmptyRecord,
       SetGroupAttribute, SetSeriesAttribute, TypeOK, ObjectTypeOK
  <2> QED BY <1>d, <2>1, <2>2
<1>2. CASE FlushNothing \/ Flush \/ Destroy
  <2>1. CASE FlushNothing \/ (Destroy /\ iterations = {})
    <3>1. call' = call /\ todo' = todo /\ dirty' = dirty /\ phase = "idle"
      BY <2>1 DEF FlushNothing, Destroy, objects, Idle
    <3>2. OneFlushed => Created(call.it)
      BY <1>0, <3>1 DEF FlushCreates, OneFlushed
    <3> QED BY <1>c, <3>1, <3>2
  <2>2. CASE Flush \/ (Destroy /\ iterations # {})
    BY <2>2 DEF Flush, Destroy, startFlush, FlushCreates
  <2> QED BY <1>2, <2>1, <2>2
<1>3. ASSUME NEW i \in Iter, Open(i) PROVE FlushCreates'
  <2>1. /\ phase' = "flush" /\ todo' = {i} /\ call'.it = i /\ dirty'[i] /\ i \in iterations
    BY <1>3, <1>0 DEF Open, startFlush, TypeOK, ObjectTypeOK
  <2> QED BY <1>0, <2>1 DEF FlushCreates, Writing, Created, Queued, Task
<1>4. ASSUME NEW i \in Iter, NEW now \in BOOLEAN, Close(i, now) PROVE FlushCreates'
  BY <1>0, <1>4, CloseCreates DEF Close, Idle
<1>5. ASSUME NEW i \in Iter, select(i), Writing PROVE FlushCreates'
  BY <1>5, <1>e DEF select, NoCall, FlushCreates
<1>6. ASSUME NEW i \in Iter, SwitchTo(i) PROVE FlushCreates'
  BY <1>0, <1>5, <1>6, CloseCreates DEF SwitchTo, Idle
<1>7. ASSUME NEW i \in Iter, ReadFirst(i) PROVE FlushCreates'
  BY <1>7, <1>e DEF ReadFirst, Least
<1>8. ASSUME NEW i \in Iter \cup {None}, ReadNext(i) PROVE FlushCreates'
  <2>1. /\ currentlyOpen \in iterations /\ currentlyOpen \in Iter
        /\ i \in iterations \cup {None} /\ phase = "idle"
    BY <1>0, <1>8 DEF ReadNext, Least, successors, Idle, LifecycleInv, ReaderFindsAll
  <2> QED BY <1>0, <1>8, <1>e, <2>1, CloseCreates DEF ReadNext
<1>9. CASE CallAPI
  BY <1>2, <1>3, <1>4, <1>6, <1>7, <1>8, <1>9 DEF CallAPI
<1>10. CASE ReturnToLoop
  <2>1. call.next \in Iter /\ (Writing \/ call.next \in iterations)
    BY <1>0, <1>10 DEF ReturnToLoop, TypeOK, ControlTypeOK, Call, LifecycleInv, ReaderFindsAll
  <2> QED BY <1>5, <1>10, <1>e, <2>1 DEF ReturnToLoop
<1>11. CASE \/ Return \/ BackendThrows
            \/ \E i \in Iter : RejectUnwritten(i) \/ RejectAccess(i)
                               \/ \E early \in BOOLEAN : RejectRecord(i, early)
  <2>1. call'.op = "none"
    BY <1>11, LeaveStep DEF Return, BackendThrows, RejectUnwritten, RejectAccess, RejectRecord
  <2> QED BY <2>1 DEF FlushCreates
<1>12. CASE \/ FlushDone \/ StepOnClosed \/ Advance \/ LastDrained
            \/ \E i \in Iter : Drained(i)
  <2>1. call' = call /\ (phase # "flush" \/ todo = {})
    BY <1>12 DEF FlushDone, StepOnClosed, Advance, LastDrained, flushEnds, LoopDone, Drained
  <2>2. OneFlushed => Created(call.it)
    BY <1>0, <2>1 DEF FlushCreates, OneFlushed
  <2> QED BY <1>c, <2>1, <2>2
<1>13. CASE Drain \/ UNCHANGED vars
  BY <1>13, <1>d DEF Drain, vars, objects, control
<1>14. ASSUME NEW i \in Iter,
              SkipClosed(i) \/ WriteIteration(i) \/ ReadIteration(i) \/ PassClean(i)
       PROVE  FlushCreates'
  <2>1. call' = call /\ i \in todo
    BY <1>14 DEF SkipClosed, WriteIteration, ReadIteration, PassClean, Reached, Least
  <2>2. CASE OneFlushed => Created(call.it)
    BY <1>c, <2>1, <2>2
  <2>3. CASE OneFlushed /\ ~Created(call.it)
    <3>1. i = call.it /\ dirty[i] /\ Writing
      BY <1>0, <2>1, <2>3 DEF FlushCreates, OneFlushed
    <3>2. WriteIteration(i)
      BY <1>14, <3>1 DEF SkipClosed, ReadIteration, PassClean, toFlush, dirtyRecursive
    <3>3. Created(i)'
      BY <1>0, <3>2, WriteCreates
    <3> QED BY <2>1, <3>1, <3>3 DEF FlushCreates, Created, Queued, Task
  <2> QED BY <2>2, <2>3
<1> QED BY <1>1, <1>9, <1>10, <1>11, <1>12, <1>13, <1>14 DEF Next, Internal, Visit

-----------------------------------------------------------------------------
(* The theorems.                                                           *)

LEMMA LifecycleInit == Init => LifecycleInv
<1> SUFFICES ASSUME Init PROVE LifecycleInv
  OBVIOUS
<1>1. TypeOK /\ m_work = <<>> /\ DOMAIN m_work = {}
  BY TypeInit DEF Init
<1>2. \A i \in Iter : m_closed[i] # "ClosedInBackend"
  BY DEF Init
<1>3. NoAccessAfterClose /\ CloseIsFinal /\ ParsedIsIdle
  BY <1>1 DEF NoAccessAfterClose, CloseIsFinal, ParsedIsIdle
<1>4. StepIsOpen /\ FlushCreates
  BY DEF Init, NoCall, StepIsOpen, FlushCreates
<1>5. NewIsDirty
  BY DEF Init, NewIsDirty, Created
<1>6. ReaderFindsAll
  BY DEF Init, ReaderFindsAll, NoCall
<1> QED BY <1>1, <1>3, <1>4, <1>5, <1>6 DEF LifecycleInv

LEMMA LifecycleNext == LifecycleInv /\ [Next]_vars => LifecycleInv'
<1> SUFFICES ASSUME LifecycleInv, [Next]_vars PROVE LifecycleInv'
  OBVIOUS
<1>1. TypeOK'
  BY TypeNext DEF LifecycleInv
<1>2. NoAccessAfterClose' /\ CloseIsFinal' /\ ParsedIsIdle'
  BY QueueNext DEF LifecycleInv, QueueInv
<1>3. StepIsOpen'
  BY StepNext DEF LifecycleInv
<1>4. NewIsDirty' /\ FlushCreates' /\ ReaderFindsAll'
  BY NewNext, CreatesNext, ReaderNext
<1> QED BY <1>1, <1>2, <1>3, <1>4 DEF LifecycleInv

\* Whatever is thrown, once an iteration is closed in the backend the queue
\* holds nothing of it but what precedes its CLOSE_FILE.
THEOREM ClosedFilesAreNotTouched == Spec => []NoAccessAfterClose
<1>1. Init => LifecycleInv
  BY LifecycleInit
<1>2. LifecycleInv /\ [Next]_vars => LifecycleInv'
  BY LifecycleNext
<1>3. LifecycleInv => NoAccessAfterClose
  BY DEF LifecycleInv
<1> QED BY <1>1, <1>2, <1>3, PTL DEF Spec

\* No call, no exception and no access mode closes an iteration that has not
\* been created.
THEOREM ClosedIterationsExist == Spec => []ClosedIsWritten
<1>1. Init => LifecycleInv
  BY LifecycleInit
<1>2. LifecycleInv /\ [Next]_vars => LifecycleInv'
  BY LifecycleNext
<1>3. LifecycleInv => ClosedIsWritten
  BY DEF LifecycleInv, NewIsDirty, ClosedIsWritten, Created
<1> QED BY <1>1, <1>2, <1>3, PTL DEF Spec

\* No step takes an iteration out of ClosedInBackend.
THEOREM ClosingIsFinal == Spec => ClosedForever
<1>1. Init => LifecycleInv
  BY LifecycleInit
<1>2. LifecycleInv /\ [Next]_vars => LifecycleInv'
  BY LifecycleNext
<1>3. LifecycleInv /\ [Next]_vars =>
        [\A i \in Iter : m_closed[i] = "ClosedInBackend" => m_closed'[i] = "ClosedInBackend"]_vars
  BY ClosedNext DEF LifecycleInv
<1> QED BY <1>1, <1>2, <1>3, PTL DEF Spec, ClosedForever

=============================================================================
