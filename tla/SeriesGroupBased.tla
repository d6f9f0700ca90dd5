--------------------------- MODULE SeriesGroupBased ---------------------------
(***************************************************************************)
(* Writing a group-based Series with ADIOS2: all iterations live in one    *)
(* file, and the step-wise loop over WriteIterations turns each of them    *)
(* into one step of the engine.  The frontend enqueues tasks, the queue    *)
(* runs them, and at the end of each IOHandler()->flush() the buffered     *)
(* actions of the file are flushed.                                        *)
(*                                                                         *)
(* The calls have the shape they have in SeriesFileBased: a flush loop     *)
(* that visits iterations, then the queue, then what the caller does next. *)
(***************************************************************************)
EXTENDS BufferedActions

CONSTANTS
  MaxChanges,   \* bound: how many changes the user makes
  MaxBacklog,   \* bound: calls are made with at most this many old tasks queued
  Configs,      \* engine configurations a run looks at
  Extras        \* what the user does beyond writing iterations in order

ASSUME ChangesAssumption == MaxChanges \in Nat
ASSUME BacklogAssumption == MaxBacklog \in Nat
ASSUME ConfigsAssumption == Configs \subseteq Engines
ASSUME ExtrasAssumption == Extras \subseteq {"direct", "deferred", "any_order"}

VARIABLES
  engine,        \* configuration of the ADIOS2 backend
  file,          \* the BufferedActions of the Series' file
  m_work,        \* AbstractIOHandler::m_work
  seriesWritten, \* Writable::written of the Series: its file has been created
  written,       \* Writable::written of the iterations
  iterations,    \* the indices in Series::iterations
  m_closed,      \* Iteration::m_closed
  dirty,         \* dirty bit of the Iteration object
  pending,       \* chunks wait in the iteration's RecordComponents
  seriesDirty,   \* dirty bit of the Series
  seriesAttr,    \* version of the Series attributes
  mem,           \* version of every iteration as the user sees it
  m_stepStatus,  \* SeriesData::m_stepStatus
  currentlyOpen, \* WriteIterations' current iteration
  phase,         \* where the call in progress is
  call,          \* its operation and locals
  todo,          \* iterations its flush loop has not reached
  result,        \* how the call that has just ended ended
  changes,       \* changes the user has made so far
  finished       \* history: what was closed in a step, with its contents then

backendVars == <<engine, file, seriesWritten, written>>
objects     == <<iterations, m_closed, dirty, pending, seriesDirty>>
user        == <<seriesAttr, mem, currentlyOpen, changes>>
control     == <<phase, call, todo, result>>
writerVars  == <<backendVars, m_work, objects, user, control, m_stepStatus, finished>>

CloseStatus == {"Open", "ClosedInFrontend", "ClosedInBackend"}
Content     == [attr : Version, data : Version]

Call == [op : {"none", "flush", "close", "begin", "end", "destroy"},
         it : Iter \cup {None}, old : CloseStatus, next : Iter \cup {None}]
NoCall == [op |-> "none", it |-> None, old |-> "Open", next |-> None]

Result == {"none", "ok", "closed_access", "internal_error", "deferred_close",
           "terminate"}

Operation == {"CREATE_FILE", "CREATE_PATH", "WRITE_DATASET", "WRITE_ATT", "ADVANCE",
              "CLOSE_PATH"}
Modes     == {"BEGINSTEP", "ENDSTEP"}
IOTask    == [op : Operation, of : Owner, v : Version, mode : Modes]

Task(op, o)           == [op |-> op, of |-> o, v |-> 0, mode |-> "BEGINSTEP"]
VersionTask(op, o, v) == [Task(op, o) EXCEPT !.v = v]
AdvanceTask(mode)     == [Task("ADVANCE", Root) EXCEPT !.mode = mode]

enqueue(tasks) == m_work' = m_work \o tasks
When(condition, task) == IF condition THEN <<task>> ELSE <<>>

dirtyRecursive(i) == dirty[i] \/ pending[i]
closed(i) == m_closed[i] \in {"ClosedInFrontend", "ClosedInBackend"}
Least(i, S) == i \in S /\ \A j \in S : i <= j

\* A new iteration has attributes, and so it is dirty.
Init ==
  /\ engine \in Configs
  /\ file = newFile(engine, "Write")
  /\ m_work = <<>>
  /\ seriesWritten = FALSE /\ written = [i \in Iter |-> FALSE]
  /\ iterations = {}
  /\ m_closed = [i \in Iter |-> "Open"]
  /\ dirty = [i \in Iter |-> TRUE]
  /\ pending = [i \in Iter |-> FALSE]
  /\ seriesDirty = TRUE /\ seriesAttr = 1
  /\ mem = [i \in Iter |-> [attr |-> 1, data |-> 0]]
  /\ m_stepStatus = "NoStep" /\ currentlyOpen = None
  /\ phase = "idle" /\ call = NoCall /\ todo = {} /\ result = "none"
  /\ changes = 0 /\ finished = <<>>

-----------------------------------------------------------------------------
(* What the user does between two calls.                                   *)

Idle == phase = "idle"

change ==
  /\ Idle /\ changes < MaxChanges /\ changes' = changes + 1
  /\ result' = "none" /\ UNCHANGED <<phase, call, todo>>

SetAttribute(i) ==
  /\ i \in iterations /\ mem[i].attr < MaxVersion
  /\ mem' = [mem EXCEPT ![i].attr = @ + 1]
  /\ dirty' = [dirty EXCEPT ![i] = TRUE]
  /\ change
  /\ UNCHANGED <<backendVars, m_work, iterations, m_closed, pending, seriesDirty,
                 seriesAttr, currentlyOpen, m_stepStatus, finished>>

StoreChunk(i) ==
  /\ i \in iterations /\ mem[i].data < MaxVersion
  /\ mem' = [mem EXCEPT ![i].data = @ + 1]
  /\ pending' = [pending EXCEPT ![i] = TRUE]
  /\ change
  /\ UNCHANGED <<backendVars, m_work, iterations, m_closed, dirty, seriesDirty,
                 seriesAttr, currentlyOpen, m_stepStatus, finished>>

SetSeriesAttribute ==
  /\ seriesAttr < MaxVersion
  /\ seriesAttr' = seriesAttr + 1
  /\ seriesDirty' = TRUE
  /\ change
  /\ UNCHANGED <<backendVars, m_work, iterations, m_closed, dirty, pending, mem,
                 currentlyOpen, m_stepStatus, finished>>

\* Series::iterations used beside writeIterations().
Insert(i) ==
  /\ Idle /\ "direct" \in Extras
  /\ i \notin iterations
  /\ iterations' = iterations \cup {i}
  /\ result' = "none"
  /\ UNCHANGED <<backendVars, m_work, m_closed, dirty, pending, seriesDirty, user,
                 phase, call, todo, m_stepStatus, finished>>

-----------------------------------------------------------------------------
(* Entering and leaving a call.  The flush loop of flushGroupBased begins  *)
(* with the file and the base path.                                        *)

startFlush(op, i, old, next, S) ==
  /\ Len(m_work) <= MaxBacklog
  /\ phase' = "flush"
  /\ todo' = S
  /\ call' = [op |-> op, it |-> i, old |-> old, next |-> next]
  /\ result' = "none"
  /\ enqueue(When(~seriesWritten, Task("CREATE_FILE", Root)))

\* SeriesImpl::advance pretends that a closed iteration is open while it flushes.
startStep(op, i, status, next) ==
  /\ startFlush(op, i, status, next, {i})
  /\ m_closed' = [m_closed EXCEPT ![i] =
                    IF status = "ClosedInFrontend" THEN "Open" ELSE status]

\* ~SeriesInternal flushes; ~SharedResources cannot close the last iteration
\* once the Series is gone and throws; then the backend's file is finalized.
leave(r) ==
  LET destroyed == call.op = "destroy"
      crash == destroyed /\ currentlyOpen # None /\ ~closed(currentlyOpen)
  IN /\ phase' = IF destroyed THEN "destroyed" ELSE "idle"
     /\ result' = IF crash THEN "terminate" ELSE r
     /\ file' = IF destroyed /\ ~crash /\ seriesWritten THEN finalize(file) ELSE file
     /\ call' = NoCall
     /\ todo' = {}
     /\ UNCHANGED <<engine, seriesWritten, written>>

Flush ==
  /\ Idle
  /\ startFlush("flush", None, "Open", None, iterations)
  /\ UNCHANGED <<backendVars, objects, user, m_stepStatus, finished>>

Destroy ==
  /\ Idle
  /\ startFlush("destroy", None, "Open", None, iterations)
  /\ UNCHANGED <<backendVars, objects, user, m_stepStatus, finished>>

\* Iteration::close up to the flush.  Closing any iteration ends the step.
closeIteration(i, now, next) ==
  LET status == IF m_closed[i] = "ClosedInBackend" THEN m_closed[i]
                ELSE "ClosedInFrontend"
      step == m_stepStatus = "DuringStep"
  IN /\ mem' = [mem EXCEPT ![i].attr = IF @ < MaxVersion THEN @ + 1 ELSE @]
     /\ dirty' = [dirty EXCEPT ![i] = TRUE]
     /\ \/ now /\ step /\ startStep("end", i, status, next)
        \/ /\ now /\ ~step
           /\ startFlush("close", i, "Open", next, {i})
           /\ m_closed' = [m_closed EXCEPT ![i] = status]
        \/ /\ ~now
           /\ m_closed' = [m_closed EXCEPT ![i] = status]
           /\ result' = (IF step THEN "deferred_close" ELSE "ok")
           /\ UNCHANGED <<m_work, phase, call, todo>>
     /\ UNCHANGED <<backendVars, pending, seriesDirty, seriesAttr, changes,
                    m_stepStatus, finished>>

Close(i, now) ==
  /\ Idle /\ i \in iterations
  /\ now \/ "deferred" \in Extras
  /\ closeIteration(i, now, None)
  /\ UNCHANGED <<iterations, currentlyOpen>>

\* WriteIterations::operator[] once the previous iteration is closed.
select(i) ==
  /\ currentlyOpen' = i
  /\ iterations' = iterations \cup {i}
  /\ \/ /\ m_stepStatus = "NoStep"
        /\ startStep("begin", i, m_closed[i], None)
     \/ /\ m_stepStatus = "DuringStep"
        /\ phase' = "idle" /\ call' = NoCall /\ todo' = {} /\ result' = "ok"
        /\ UNCHANGED <<m_closed, m_work>>

inOrder(i) == "any_order" \in Extras \/ i \in iterations \/ \A j \in iterations : j < i

SwitchTo(i) ==
  /\ Idle /\ inOrder(i)
  /\ IF currentlyOpen # None /\ currentlyOpen # i /\ ~closed(currentlyOpen)
     THEN closeIteration(currentlyOpen, TRUE, i) /\ UNCHANGED <<iterations, currentlyOpen>>
     ELSE /\ select(i)
          /\ UNCHANGED <<backendVars, dirty, pending, seriesDirty, seriesAttr, mem,
                         changes, m_stepStatus, finished>>

-----------------------------------------------------------------------------
(* The loop of flushGroupBased.  Nothing is run before its end.            *)

Reached(i) == phase = "flush" /\ Least(i, todo)

Reject(i) ==
  /\ Reached(i)
  /\ m_closed[i] = "ClosedInBackend" /\ (~written[i] \/ dirtyRecursive(i))
  /\ leave(IF written[i] THEN "closed_access" ELSE "internal_error")
  /\ UNCHANGED <<m_work, objects, user, m_stepStatus, finished>>

SkipClosed(i) ==
  /\ Reached(i)
  /\ m_closed[i] = "ClosedInBackend" /\ written[i] /\ ~dirtyRecursive(i)
  /\ todo' = todo \ {i}
  /\ UNCHANGED <<backendVars, m_work, objects, user, phase, call, result, m_stepStatus,
                 finished>>

\* Mutant: the chunks of a clean iteration are left for later.
tasksOfDirty(i) ==
  When(~written[i], Task("CREATE_PATH", i))
  \o When(pending[i] /\ dirty[i], VersionTask("WRITE_DATASET", i, mem[i].data))
  \o When(dirty[i], VersionTask("WRITE_ATT", i, mem[i].attr))

iterationTasks(i) ==
  When(~written[i], Task("CREATE_PATH", i))
  \o When(pending[i], VersionTask("WRITE_DATASET", i, mem[i].data))
  \o When(dirty[i], VersionTask("WRITE_ATT", i, mem[i].attr))

WriteIteration(i) ==
  /\ Reached(i) /\ m_closed[i] # "ClosedInBackend"
  /\ enqueue(iterationTasks(i))
  /\ dirty' = [dirty EXCEPT ![i] = FALSE]
  /\ pending' = [pending EXCEPT ![i] = FALSE]
  /\ m_closed' = [m_closed EXCEPT ![i] =
                    IF @ = "ClosedInFrontend" THEN "ClosedInBackend" ELSE @]
  /\ todo' = todo \ {i}
  /\ UNCHANGED <<backendVars, iterations, seriesDirty, user, phase, call, result,
                 m_stepStatus, finished>>

\* The attributes of the Series come last.
LoopDone ==
  /\ phase = "flush" /\ todo = {}
  /\ enqueue(When(seriesDirty, VersionTask("WRITE_ATT", Root, seriesAttr)))
  /\ seriesDirty' = FALSE
  /\ phase' = "drain"
  /\ UNCHANGED <<backendVars, iterations, m_closed, dirty, pending, user, call, todo,
                 result, m_stepStatus, finished>>

-----------------------------------------------------------------------------
(* IOHandler()->flush(): the tasks, then the buffered actions of the file. *)

\* An engine that refuses what it is asked to do is not followed any further.
Draining == phase \in {"drain", "last"} /\ file.fault = "none"

effect(t) ==
  CASE t.op = "WRITE_DATASET" -> writeDataset(file, t.of, t.v)
    [] t.op = "WRITE_ATT" -> writeAttribute(file, t.of, t.v)
    [] t.op = "ADVANCE" -> advance(file, t.mode)
    [] t.op = "CLOSE_PATH" -> closePath(file, t.of)
    [] OTHER -> file

Execute ==
  /\ Draining /\ m_work # <<>>
  /\ LET t == Head(m_work)
     IN /\ file' = effect(t)
        /\ seriesWritten' = (seriesWritten \/ t.op = "CREATE_FILE")
        /\ written' = [i \in Iter |-> written[i] \/ t = Task("CREATE_PATH", i)]
  /\ m_work' = Tail(m_work)
  /\ UNCHANGED <<engine, objects, user, control, m_stepStatus, finished>>

\* Mutant: the file is not known to be dirty.
notFlushed == file

\* ADIOS2IOHandlerImpl::flush.
flushed == flush(file, "putget", FALSE, FALSE)

\* SeriesImpl::flush_impl flushes the handler once more, to no effect.
Settle ==
  /\ Draining /\ m_work = <<>>
  /\ file' = flushed
  /\ phase' = IF phase = "drain" /\ call.op \in {"begin", "end"} THEN "advance"
              ELSE "return"
  /\ UNCHANGED <<engine, seriesWritten, written, m_work, objects, user, call, todo,
                 result, m_stepStatus, finished>>

-----------------------------------------------------------------------------
(* The rest of SeriesImpl::advance and of its callers.                     *)

Advance ==
  LET i == call.it
      closing == call.old = "ClosedInFrontend" /\ call.op = "end"
  IN /\ phase = "advance"
     /\ enqueue(<<AdvanceTask(IF call.op = "begin" THEN "BEGINSTEP" ELSE "ENDSTEP")>>
                \o When(closing, Task("CLOSE_PATH", i)))
     /\ m_closed' = [m_closed EXCEPT ![i] =
                       IF closing THEN "ClosedInBackend"
                       ELSE IF call.old = "ClosedInFrontend" THEN call.old ELSE @]
     /\ finished' = IF closing
                    THEN Append(finished, [it |-> i, attr |-> mem[i].attr,
                                           data |-> mem[i].data])
                    ELSE finished
     /\ phase' = "last"
     /\ UNCHANGED <<backendVars, iterations, dirty, pending, seriesDirty, user, call,
                    todo, result, m_stepStatus>>

afterCall ==
  /\ m_stepStatus' = CASE call.op = "begin" -> "DuringStep"
                       [] call.op = "end" -> "NoStep"
                       [] OTHER -> m_stepStatus
  /\ UNCHANGED <<dirty, pending, seriesDirty, seriesAttr, mem, changes, finished>>

Return ==
  /\ phase = "return" /\ call.next = None
  /\ leave("ok")
  /\ afterCall
  /\ UNCHANGED <<m_work, iterations, m_closed, currentlyOpen>>

\* WriteIterations::operator[] goes on to the iteration it was called for.
ReturnToLoop ==
  /\ phase = "return" /\ call.next # None
  /\ currentlyOpen' = call.next
  /\ iterations' = iterations \cup {call.next}
  /\ startStep("begin", call.next, m_closed[call.next], None)
  /\ afterCall
  /\ UNCHANGED backendVars

-----------------------------------------------------------------------------
Modify ==
  \/ \E i \in Iter : SetAttribute(i) \/ StoreChunk(i) \/ Insert(i)
  \/ SetSeriesAttribute

CallAPI ==
  \/ Flush \/ Destroy
  \/ \E i \in Iter : SwitchTo(i) \/ \E now \in BOOLEAN : Close(i, now)

Internal ==
  \/ \E i \in Iter : Reject(i) \/ SkipClosed(i) \/ WriteIteration(i)
  \/ LoopDone \/ Execute \/ Settle \/ Advance
  \/ Return \/ ReturnToLoop

WriterNext == Modify \/ CallAPI \/ Internal

Spec == Init /\ [][WriterNext]_writerVars /\ WF_writerVars(Internal)

-----------------------------------------------------------------------------
(* Properties of the writer.                                               *)

FileTypeOK ==
  /\ file.mode = "Write"
  /\ file.layout = engine.layout /\ file.streaming = engine.stream
  /\ file.streamStatus \in StreamStatus
  /\ {file.opened, file.finalized, file.declaresSteps, file.inStep} \subseteq BOOLEAN
  /\ {file.m_lastStepStatus, file.status} \subseteq {"OK", "EndOfStream"}
  /\ file.advanceStatus \in {"OK", "OVER"}
  /\ file.m_buffer \in [Iter -> Version]
  /\ {file.m_attributeWrites, file.attributes} \subseteq [Owner -> Version]
  /\ file.uncommitted \subseteq Owner
  /\ file.step \in Step /\ file.steps \in Seq(Step)
  /\ file.fault \in {"none", "begin", "end", "get", "put", "control_flow", "stream_over"}

FrontendTypeOK ==
  /\ m_work \in Seq(IOTask)
  /\ seriesWritten \in BOOLEAN /\ written \in [Iter -> BOOLEAN]
  /\ iterations \subseteq Iter
  /\ m_closed \in [Iter -> CloseStatus]
  /\ dirty \in [Iter -> BOOLEAN] /\ pending \in [Iter -> BOOLEAN]
  /\ seriesDirty \in BOOLEAN /\ seriesAttr \in Version
  /\ mem \in [Iter -> Content]
  /\ m_stepStatus \in {"NoStep", "DuringStep"}
  /\ currentlyOpen \in Iter \cup {None}
  /\ phase \in {"idle", "flush", "drain", "advance", "last", "return", "destroyed"}
  /\ call \in Call /\ (call.op \in {"begin", "end", "close"} => call.it \in Iter)
  /\ todo \subseteq Iter
  /\ result \in Result
  /\ changes \in 0 .. MaxChanges
  /\ finished \in Seq([it : Iter, attr : Version, data : Version])

\* Every variable of the writer has its type.
TypeOK == engine \in Configs /\ FileTypeOK /\ FrontendTypeOK

\* However steps are begun, by the loop or implicitly by a flush, the engine is
\* never asked for what it must refuse: BeginStep in a step, EndStep or a put
\* outside of one; and the stream status knows whether a step is open.
StepProtocol ==
  /\ file.fault = "none"
  /\ ~file.finalized => (file.inStep <=> file.streamStatus = "DuringStep")

\* When a call has returned, no buffered action refers to the user's memory.
BuffersReleased == Idle /\ result = "ok" => file.m_buffer = NoChunks

\* A value is in the file, or something still knows that it has to be written:
\* the frontend, the queue, the buffered actions, or the engine's step.
Queued(t) == t \in {m_work[k] : k \in DOMAIN m_work}

dataOnItsWay(i) ==
  \/ pending[i]
  \/ Queued(VersionTask("WRITE_DATASET", i, mem[i].data))
  \/ file.m_buffer[i] = mem[i].data
  \/ file.step.data[i] = mem[i].data
  \/ \E k \in DOMAIN file.steps : file.steps[k].data[i] = mem[i].data

attrOnItsWay(i) ==
  \/ dirty[i]
  \/ Queued(VersionTask("WRITE_ATT", i, mem[i].attr))
  \/ file.m_attributeWrites[i] = mem[i].attr
  \/ file.attributes[i] = mem[i].attr
  \/ file.step.attr[i] = mem[i].attr
  \/ \E k \in DOMAIN file.steps : file.steps[k].attr[i] = mem[i].attr

NothingForgotten == \A i \in iterations : dataOnItsWay(i) /\ attrOnItsWay(i)

\* docs: "Each iteration will be published as one atomical step".  An iteration
\* closed in a step, with steps in use, is there in exactly one step, complete
\* as it was closed, and shares that step with no other.
publishedAs(k, c) ==
  /\ file.steps[k].data[c.it] = c.data
  /\ file.steps[k].attr[c.it] = c.attr
  /\ \A j \in Iter \ {c.it} : file.steps[k].data[j] = 0

PublishedAtomically ==
  Idle /\ m_work = <<>> /\ file.declaresSteps =>
    \A n \in DOMAIN finished :
      \E k \in DOMAIN file.steps :
        /\ publishedAs(k, finished[n])
        /\ \A l \in DOMAIN file.steps \ {k} : file.steps[l].data[finished[n].it] = 0

=============================================================================
