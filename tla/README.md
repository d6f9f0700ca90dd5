# A verification project for openPMD-api

openPMD-api writes and reads self-describing particle and mesh data.  A program
works on an object model (`Series`, `Iteration`, records); a *flush* turns what
has changed since the last one into a queue of I/O tasks, and a backend (JSON,
HDF5, ADIOS1, ADIOS2) executes the queue.  Almost everything that is hard to
get right lies between the two: dirty bits, close statuses, `written` flags and
the association of objects with files are set at different moments, some when a
task is enqueued, some when it runs, and any of these moments may be followed by
an exception.

This directory holds TLA+ modules translated from the source under `src/`, TLC
configurations that check them on small instances, and TLAPS proofs of theorems
about them for every instance.  `PROJECT.json` names, for every definition, the
lines it stands for.

## 1. Inventory

| Part | State it keeps | Operations | Hard behaviour | Modelled |
|---|---|---|---|---|
| `Series`, file-based (`Series.cpp`) | iterations, dirty bit, attributes, current step iteration | flush, partial flush (`flush_impl` of one iteration), `advance`, destructor, `readIterations`, `writeIterations` | one Writable for many files; dirty bit juggled over the loop; pretended close status in `advance`; exceptions half-way | `SeriesFileBased` |
| `Iteration` | `m_closed`, `m_stepStatus`, dirty bits of the subtree | close (immediate, deferred), open, closed, beginStep, endStep | four close statuses; a close that dirties what it closes | `SeriesFileBased`, abstractly `IterationLifecycle` |
| `Series`, group-based | one file, step status in the Series | flushGroupBased, CLOSE_PATH, re-parsing in beginStep | steps and iterations that need not coincide; switching `m_frontendAccess` during parsing | `SeriesGroupBased` (writer), `SeriesIterator` (reader), abstractly `IterationStream` |
| I/O queue (`AbstractIOHandler`) | `m_work` | enqueue, flush | a task whose handler throws stays at the head | `IOHandler` |
| JSON, HDF5 backends | file table, associations, `written` flags, contents; JSON: a copy of each file in memory, the dirty set | one handler per task kind | file looked up when the task runs; early returns that leave a flag unset; JSON truncates a file and writes it as a whole, and may fail in between | `IOHandler` (files and associations), `DatasetHandlers` (contents of one file) |
| ADIOS2 backend | one `BufferedActions` per file: stream status, buffered puts/gets, deferred attribute writes | flush, advance, finalize | steps opened implicitly; buffers run in a different order than queued | `BufferedActions` |
| ADIOS1 backend | its own set-up queue | - | two-phase queue | not modelled |
| Attributable, Container | attributes, dirty bit, children | setAttribute, deleteAttribute, operator[], erase | dirty bits of containers; the object model is changed behind a flush that may throw | `SeriesFileBased`, `RecordStorage` |
| Records and components | pending chunks, dataset or constant value | resetDataset, makeConstant, storeChunk, loadChunk, availableChunks, flush | order of creation, stores and loads; tasks that are enqueued again after a failure; records without components throw | `RecordStorage`, abstractly `DatasetStore`; one dataset per iteration in `SeriesFileBased` |
| Particle species and patches | records | flush | one broken record empties the I/O queue while parsing | not modelled |
| File name patterns | padding, set of known iterations | matching, detecting the padding, computing names | a padding detected by one session, names computed again by another | `FileNames` |
| Slices and chunk tables | none | `OneDimensionalBlockSlicer`, `slice1D`, `availableChunks` of JSON | rounding, empty slices, merging while looping | `Chunks`, `ChunkTables` |
| Python bindings, CLI, helpers, `auxiliary` | none of their own | forwarding | - | not modelled, but for the slices of openpmd-pipe |

How they interact: the user's calls change the object model without any I/O.
`Series::flush`, `Iteration::close`, `Iteration::open` and the step functions
walk the object model, *enqueue* tasks into the one `m_work` of the Series and
then call `IOHandler()->flush()`, which runs the queue to its end inside the
calling thread (`std::future` is only the return type).  There are no threads and
no messages inside the library: the concurrency of this code is between *moments of
enqueueing* and *moments of execution*, and between a call that failed half-way and
the calls that follow it.  With ADIOS2 there may be a second process, which reads
the steps that this one writes.

What makes each part correct is what `PROJECT.json` lists as hazards, with the
properties that would catch each of them.

## 2. The modules

### `IOHandler.tla`

The queue and the two serial file backends.  A file is named by the iteration it
belongs to; contents are version numbers (how often the user has changed the
iteration's attributes, an attribute of the container `meshes`, or the dataset).

| variable | code |
|---|---|
| `m_work` | `AbstractIOHandler::m_work` |
| `seriesWritten`, `basePathWritten`, `written` | `Writable::written` of the Series, of `Series::iterations`, of an iteration |
| `seriesFile`, `basePathFile`, `iterationFile` | `m_fileNames` (HDF5), `m_files` (JSON) of the same Writables |
| `openFiles` | `m_fileNamesWithID` (HDF5); JSON has the same set, but asks it for nothing |
| `onDisk`, `disk`, `diskSeries` | files that exist and their contents |

Each action is one handler; `ProcessTask` is one turn of the loop of
`AbstractIOHandlerImpl::flush`: the task is popped only after its handler has
returned.  `Skipped` are the handlers' silent early returns, `Refused` their
exceptions that do not depend on the storage.  JSON holds a file in memory until
the end of the flush; `disk` is that value.

### `SeriesFileBased.tla`

The frontend, extending `IOHandler`.  A call of the user is a sequence of steps,
driven by `phase`:

    idle --call--> flush --Visit(i)--> drain --Drained(i)--> flush  (next iteration)
                     |                   |
                     |                   +-- BackendThrows --> idle (exception)
                     +-- loop over --> last (final IOHandler()->flush()) --> return --> idle

`call` holds the locals that survive (`oldCloseStatus`, `allDirty`, which
iteration, and which one a loop over iterations goes on to); `todo` is what the
flush loop has not reached.  Loops over a `std::map` go in increasing order,
hence `Least`.  Exceptions end a call and leave everything as it is: `leave`.

| action | code |
|---|---|
| `Insert`, `SetAttribute`, `StoreChunk`, `LoadChunk`, `SetGroupAttribute`, `SetSeriesAttribute`, `CreateEmptyRecord` | `Container::operator[]`, `setAttribute`, `storeChunk`, `loadChunk` |
| `Flush`, `FlushNothing`, `Destroy` | `Series::flush`, the exception for no iterations, `~SeriesInternal` followed by `~SharedResources` |
| `Close`, `Open` | `Iteration::close(bool)`, `Iteration::open` |
| `SwitchTo`, `ReadFirst`, `ReadNext` | `WriteIterations::operator[]`, `SeriesIterator` and its `++`, closing the previous iteration first |
| `RejectUnwritten`, `RejectAccess`, `SkipClosed`, `WriteIteration`, `RejectRecord`, `ReadIteration`, `PassClean` | one turn of the loops of `flushFileBased` |
| `Drain`, `BackendThrows`, `Drained` | `IOHandler()->flush()` |
| `FlushDone`, `StepOnClosed`, `Advance`, `LastDrained`, `Return`, `ReturnToLoop` | what `flush_impl`, `advance` and their callers do after the loop |

The initial states are a Series that has just been created or parsed:
`CREATE` with nothing on disk, `READ_ONLY` and `READ_WRITE` with any set of
existing files, all parsed and closed again (`ClosedTemporarily`).
`basePathFile` is then one of the files, whichever was parsed last.

What one iteration enqueues is `writeTasks`: the `prologue` that creates or opens its file,
the container of its meshes (`meshesTasks`), the chunks (`chunkTasks`), and its own
attributes with those of the Series (`attributeTasks`).  `Iteration::flush` comes to the
container only if it holds a mesh or the Series has the attribute `meshesPath`, which the
first mesh brings (`flushesMeshes`); attributes of an empty container stay dirty until
then.  `meshes` stands for `particles` too, whose turn is the same.

Not in the model: reading through `readIterations` in `READ_WRITE`, a second
dataset per iteration, file-based encoding with ADIOS, deleting, renaming the
Series while files exist.

### `IterationLifecycle.tla`

The abstract specification: what `Iteration` promises, without flushes, tasks or
files.  The user changes an iteration, the library saves some of it some time
later and never saves older or foreign contents over newer ones, and closing is
the last thing it does, with nothing left unsaved.  `SeriesFileBased` implements
it (`KeepsPromise`) with `latest` = the versions the user sees, `saved` = the
versions in the iteration's file, `sealed` = the iterations closed in the
backend whose CLOSE_FILE has been executed.  Attributes of the containers
`meshes` and `particles` are left out of the promise because the code does not
keep it for them (`SeriesGroupAttribute`).

### `BufferedActions.tla`

One file of the ADIOS2 backend, as a record with the members of
`detail::BufferedActions` and a function per method, because the reader and the
writer each have one.  `streamStatus` is the code's; `inStep`, `step`, `steps`,
`position` are the engine, an external library, which refuses (`fault`) what
ADIOS2 refuses: BeginStep in a step, EndStep and a put outside of one, a get of a
variable that is not there.  An engine configuration (`Engines`) is whether the
engine streams, the option `usesteps`, and the attribute layout.

| field | code |
|---|---|
| `m_buffer`, `m_attributeWrites` | the members of these names: per iteration, resp. owner, the version that waits |
| `uncommitted` | `uncommittedAttributes` |
| `attributes` | the attributes defined in the ADIOS2 IO object (attribute layout) |
| `m_lastStepStatus`, `finalized` | the members of these names |
| `status`, `advanceStatus` | what the last BeginStep, the last `advance` returned |
| `loaded` | what the gets have put into the user's memory |

### `SeriesGroupBased.tla`

The writing frontend over it, in the shape of `SeriesFileBased`: `flush` loop,
`drain` of the queue and then of the buffered actions (`Settle`), the `advance`
tasks, a second drain (`last`), `return`.  `finished` records what was closed in a
step, with its contents.  `Extras` names what the user does beyond writing
iterations in increasing order: "direct" inserts through `Series::iterations`,
"deferred" calls `close(false)`, "any_order" takes up any index.  Access mode
`CREATE`; once the engine has refused something the run is not followed further.

### `SeriesIterator.tla`, `IterationStream.tla`

A reading process beside the writer: `Construct` (the constructor's parsing),
`Begin` (`SeriesIterator`'s constructor), `ReadIteration` (the loop's body, which
loads the dataset and closes the iteration) and `Increment` (`operator++`).
A streaming engine hands over every step as soon as it is published and makes
BeginStep wait for the next one (`mayBegin`); a file is opened when its writer
has closed it.  Nobody sees the reader's state between its calls, so each call is
one action.  `IterationStream` is the promise of both together: what is sent is
received, once, unchanged and in order; `sent` is `finished`, `received` is
`visited`.

### `DatasetHandlers.tla`

The JSON and HDF5 backends again, this time from inside one file, which holds one
record: `IOHandler` knows which file a task goes to, `DatasetHandlers` what it does
there.  A component is a dataset with a version per cell, a group with a constant
value, or nothing.

| variable | code |
|---|---|
| `fileWritten`, `recordWritten`, `written` | `Writable::written` of the Series, the record, its components |
| `m_jsonVals`, `m_dirty` | JSON's copy of the file and whether it has to be written |
| `disk` | the file; `Torn` when it was truncated and writing it failed |
| `isOpen` | the file is in the backend's table of open files |
| `loaded` | what a READ_DATASET has put into the user's buffer |

`markDirty`, `putJsonContents` and `obtainJsonContents` are the three ways in which
JSON's handlers end; for HDF5 the first two change the file at once.  `PutFails` is a
failing write behind the truncation.

### `RecordStorage.tla`, `DatasetStore.tla`

The frontend of the record: what users do to components, the loop of `Mesh::flush_impl`
and `Record::flush_impl` (the same code) with `RecordComponent::flush` for each
component (`Visit`), erasing, deleting attributes, chunk tables, and the destructors.
`Modes` gives access, backend and encoding; a file that exists is parsed first by
`call.op = "construct"`.

`stored` is what the user has stored into each cell.  `DatasetStore` is the promise
about it: values saved for a cell never become older, and are lost by erasing only;
`RecordStorage` implements it (`KeepsStore`) with `saved` = what the backend holds of
the file, in memory or on disk.

What the model leaves out, because the code answers with a task that blocks the queue
and no document allows it: declaring a component again behind chunks or when it is
empty (`Undeclared`), loading cells that were never stored (JSON), erasing or deleting
from an object with unsaved changes (`Settled`), asking a closed file or a constant
component for chunks, deleting an attribute HDF5 does not have yet.  `doomed` holds the
components whose erasing or deleting has thrown: the user leaves them alone.
Scalar records, DELETE_DATASET, EXTEND_DATASET and DELETE_FILE are not in the model,
nor is creating a file-based Series, which is `SeriesFileBased`'s subject.

### `Chunks.tla`, `ChunkTables.tla`

`Chunks` has the arithmetic as operators: `firstIndex`, `sliceLength`, `sliceBlock` of
`OneDimensionalBlockSlicer`, `mergeable` and `merged` of JSON's `mergeChunks`.
`ChunkTables` is a JSON dataset into which chunks or slices are stored in any order,
and the loop that merges its chunk table, one merge per step.  Slices may be made along
any dimension: which one `slice1D` picks by itself is not modelled (see section 6).
`chunksInJSON` is a recursive function over the positions of nested arrays, `runs` one
over the indices of an array: where a run of equal slabs `begins`, their table is taken
over, an index in front.

### `FileNames.tla`

The names of the files of a file-based Series over several sessions on one directory.
A name is an index and the number of digits it is written with; prefix, postfix and
extension are the same for all.  `Open` is `readFileBased`, `iterationFilename` the
function of that name, `Flush` what CREATE_FILE or OPEN_FILE then do.  A file holds one
iteration, and the directory exists.  A file that is missing is noticed by different tasks
(`missing`): HDF5 refuses OPEN_FILE, JSON the OPEN_PATH behind it, which reads the file.

### The proof modules

`SeriesFileBased_proofs` (whatever fails) and `SeriesWorkflow_proofs` (when nothing
does), `SeriesGroupBased_proofs` and `SeriesIterator_proofs`, `RecordStorage_proofs` and
`RecordSafety_proofs`, `Chunks_proofs`, `FileNames_proofs`, see section 5.  The second
of each pair builds on the first.

## 3. The runs

The `Series` and `Stream` runs use two iterations: every interaction in the code is
between the iteration a call is about and *another* one whose file, flag or task is in
the way; a third iteration would only repeat the role of the second.  `MaxVersion` =
2 lets a value differ from both the one on disk and the one in the queue.
Deadlock is not checked where the model stops for good when the Series has
been destroyed, or when all sessions are over.

| run | instance | shows |
|---|---|---|
| `SeriesWorkflow` | all access modes, JSON and HDF5, one change by the user besides the ones `close` makes, group attributes, no failures | `TypeOK`, `TaskFindsItsFile`, `NoLostUpdate`, `ClosedIsDurable`, `FlushSavesIterations`, `KeepsPromise`, `CallReturns`, `StaysClosed` hold (1,054,960 states) |
| `SeriesFailures` | `CREATE`, HDF5, one change, one failing handler, records without components, up to 5 tasks of failed calls left when the next call is made | `NoAccessAfterClose`, `ClosedIsWritten`, `ClosedForever` hold (2,529,345 states) |
| `SeriesGlobalChange` | `CREATE`, HDF5, one change | `SeriesAttributesInEveryFile` is violated |
| `SeriesGroupAttribute` | one group attribute | `FlushSavesGroups` is violated |
| `SeriesEmptyRecord` | one record without components | `NoForeignFile` is violated |
| `SeriesDestructor` | no change | `DestructorDoesNotThrow` is violated |
| `StreamDirect` | a writer with ADIOS2, all eight engine configurations, direct insertion, deferred closing and any order, one change | `TypeOK`, `BuffersReleased`, `StepProtocol` hold (613,093 states) |
| `StreamDelivery` | writer and reader, all configurations, iterations in order, two changes | `NothingForgotten`, `PublishedAtomically`, `ReaderProtocol`, `SeesAll`, `InOrderDelivery`, `LoopEnds` hold (359,485 states) |
| `RecordStorage` | two components of up to two elements, JSON and HDF5, all access modes and both encodings, two changes, two failing handlers or writes | `TypeOK`, `LoadsSeeStores`, `FlushIsDurable`, `NothingTornForGood`, `NeverBlocked`, `KeepsStore` hold (2,116,072 states) |
| `RecordDeletedAttribute` | a new JSON file, no failures | `DeletedAttributesAreGone` is violated |
| `ChunkTables` | datasets of 1 by 1 to 3 by 3 elements, any chunks, or the slices of 1, 2, 3 or 5 ranks | `TypeOK`, `TableIsExact`, `NothingToMerge`, `SlicesTile` hold (7,082 states) |
| `FileNames` | indices 5, 10 and 100, `%T` and `%01T` to `%03T`, four sessions | `TypeOK`, `KnownFilesExist`, `NothingMissed`, `SafeExtension` hold (877,406 states) |

Bounds: `MaxChanges` limits the user's changes (a dirty iteration, a dirty
Series and their combination with the change `close` itself makes are reached
with one), `MaxFailures` the handlers that throw by themselves, `MaxBacklog` the
number of old tasks in the queue when a new call is made, without which a user
who retries for ever would grow the queue without end (with 5, the user
goes on after a close that failed at the third of its seven tasks or later, and after a
flush refused at an empty record, which leaves three or four; the theorems about the
same properties have no such bound).  Failures and
the properties that do not survive them are separated on purpose: `NoLostUpdate` and
`StaysClosed` are *not* true after a handler has thrown (see the hazards), and
the properties of `SeriesFailures` are the ones that do survive.  Those of `RecordStorage` all survive.

In `RecordStorage` two changes are a store and the load, store, erasing or deletion that
meets it, in one flush or in two; new components are free.  `Representatives` are the
files that exist at first: empty, with a dataset, a constant component, or one of each;
others differ from these in names, or in a component the user can add.  Two failures let the call
that repeats a failed one fail too.  Two elements make chunks that overlap in part.
In `ChunkTables` five ranks are more than there are elements in any dimension, and
3 by 3 has chunks with a hole.  In `FileNames` an index is shorter than, as long as and
longer than the padding, and four sessions are: two that write, one that extends what
they wrote, and one that reads that.

For the streaming runs two iterations give the reader a step before, a step
behind and the end of the stream; two changes let the user write an attribute
and a dataset of the same iteration, in the same or in different flushes.
`NothingForgotten` and `PublishedAtomically` are about iterations that are written
one after the other.  With "direct" and "any_order" the first one does *not* hold:
in the attribute layout a value of an earlier step cannot be replaced, and the ADIOS2
backend drops it with a warning (`ADIOS2IOHandler.cpp:1267`).  `SeesAll` does not hold
when iterations are written with decreasing indices either: `operator++`
(`Series.cpp:1374`) takes the next larger index once the step has begun, finds none, and
ends the loop without an error.

## 4. Fairness

`Spec` has `WF_vars(Internal)`: once a call is made, the calling thread runs it to
its end, since no step of it waits for anybody.  Nothing is assumed of the user,
who may never make another call.  `CallReturns`: every call returns or throws.

`FairStreamSpec` assumes weak fairness of the reading program only: it goes on
whenever its engine does not make it wait.  `LoopEnds`: once the writer has closed its file, the
reading loop comes to its end.  The fairness is written with `mayRead`, which is
`ENABLED Reading` spelled out (the two agree on all reachable states of an instance with one iteration, where TLC
can evaluate ENABLED).

## 5. Proofs

The assumptions of all theorems are the named ones of the modules: iterations are
naturals, `None` is not one, bounds are naturals, modes, backends and engine
configurations are among those of the code.  Further hypotheses are stated with the
theorem, and named here.

### The file-based Series, whatever fails (`SeriesFileBased_proofs`)

For every set `Iter` of natural numbers, every bound, every set of modes and backends,
with handlers that throw and records that cannot be written:

- `TypeCorrect`: `Spec => []TypeOK`.
- `ClosedFilesAreNotTouched`: `Spec => []NoAccessAfterClose`.  Behind CLOSE_FILE of an
  iteration the queue holds no task of it, and nothing is ever queued for an iteration
  whose CLOSE_FILE has run.
- `ClosedIterationsExist`: `Spec => []ClosedIsWritten`.
- `ClosingIsFinal`: `Spec => ClosedForever`, an action property.

`NoAccessAfterClose` is not inductive.  What makes it so is `LifecycleInv`, whose
parts say why the code is right:

- `CloseIsFinal`: CLOSE_FILE is queued only for an iteration that already has the
  status `ClosedInBackend`; so the loop that visits an iteration with another
  status finds no CLOSE_FILE of it.
- `StepIsOpen`: while `advance` flushes under its pretence, the iteration is not
  closed in the backend, and so `Advance` may enqueue behind the flush.
- `ParsedIsIdle`: a read-only iteration that is only parsed has no task in the
  queue; closing it jumps to `ClosedInBackend` without a CLOSE_FILE, which would
  be wrong otherwise.
- `NewIsDirty`, `FlushCreates`: an iteration not created yet is dirty and not
  closed in the backend, and the flush of a partial call creates it before
  anything else; `ClosedIsWritten` rests on these.
- `ReaderFindsAll`: a read-only Series has only iterations that exist on disk.

`LifecycleInit` and `LifecycleNext` prove it inductive, one step per action;
lemmas about sequences (`SeqElements`, `SeqConcat`, `SeqAppend`) say what a queue
holds after tasks are appended or popped.

### The file-based Series when nothing fails (`SeriesWorkflow_proofs`)

Hypotheses: `MaxFailures = 0` (no handler throws by itself) and `"empty_record" \notin
Extras` (every record has a component).  Both are needed: with either of them the
properties are false, which the hazards and finding 3 are about.

- `TasksFindTheirFiles`: `Spec => []TaskFindsItsFile`.
- `NothingIsLost`: `Spec => []NoLostUpdate`.
- `ClosedIterationsAreDurable`: `Spec => []ClosedIsDurable`.
- `FlushSavesAll`: `Spec => []FlushSavesIterations`.
- `ClosedStaysClosed`: `Spec => StaysClosed`, an action property.
- `SeriesImplementsLifecycle`: `Spec => KeepsPromise`, the refinement of
  `IterationLifecycle`.  Every step maps to one of its actions or to none: a handler of
  WRITE_ATT or WRITE_DATASET to `Save`, that of CLOSE_FILE to `CloseIteration`, what the
  user sets and what `close` marks to `Change`.  So a file is saved neither with older
  contents than it has nor with those of another iteration, and an iteration is sealed
  complete.

Their inductive invariant is `LifecycleInv /\ WorkflowInv`.  The parts of `WorkflowInv`
stand in `SeriesFileBased`, since they are the argument why the code works:

- `TasksInv`: the queue is filled and emptied for one iteration at a time, `AtWork`,
  CLOSE_FILE is its last task, and it is empty between the iterations and between the
  calls.  This is why `MaxBacklog` may be anything.
- `PrologueInv`: what is left in front of the queue is a rest of the prologue, file, base
  path, path (`Preparing(n)`), and what of it has run has associated the Writables with
  the right file (`Prepared(n, i)`).  There is one Writable of the Series and one of the base
  path for all files, and `seriesFile`, `basePathFile` follow the queue.
- `ExistInv`, `OpenInv`: which files exist and are open.  An open iteration whose file is
  closed is dirty, and so the next flush opens the file.
- `FlushedInv`: what the loop has passed has no dirty bit left.
- `ValueInv`, `VersionInv`: the newest version of each part is in the file, queued, or a
  dirty bit remembers it; no task carries an older one.
- `CallInv`: the pretended status is back before the call returns.

`SettledInv` is what remains to be shown for steps between which the queue is empty.

### The group-based writer with ADIOS2 (`SeriesGroupBased_proofs`)

For every set of engine configurations and every combination of `Extras`:

- `WriterTypes`: `Spec => []TypeOK`, the engine and its buffered actions included.
- `StepsAreBeginAndEnd`: `Spec => []StepProtocol`.  In whatever order the user
  inserts, jumps, flushes, closes and defers closing, no step is begun in a
  step, and none is ended, nor is anything put, where no step is open.
- `BuffersAreReleased`: `Spec => []BuffersReleased`.

`StepProtocol` is not inductive.  Its `Inv` has three parts besides the types:

- `FileInv`: `streamStatus` and the engine agree (`Agrees`), also about a file that
  does without steps and about one that is not open yet.  A lemma per method of
  `BufferedActions` (`GetEngine`, `StepOn`, `Put`, `Run`, ...) says which of them
  keep this, which open the engine and which leave no step closed.
- `AdvanceInv`: ADVANCE is enqueued only behind an emptied queue and emptied
  puts, alone or in front of CLOSE_PATH; so BEGINSTEP has nothing to flush, which
  would begin a step implicitly, before it begins its own.
- `StepInv`: while `m_stepStatus` says `DuringStep`, the file is in a step or
  does not use steps; so ENDSTEP, which only that status causes, has one to end.

`BufferInv` says that the buffer is empty but while a queue is emptied: `Settle` is the
only way out of the drain.

### Writing and reading iteration by iteration (`SeriesIterator_proofs`)

Hypothesis: `Extras = {}`, iterations are written in order, by `writeIterations`.  With
"direct" or "any_order" `NothingForgotten` is false (section 3).

- `NothingIsForgotten`: `StreamSpec => []NothingForgotten`.
- `StepsArePublished`: `StreamSpec => []PublishedAtomically`.
- `ReaderFollows`: `StreamSpec => []ReaderProtocol`.
- `ReaderSeesAll`: `StreamSpec => []SeesAll`.
- `IterationsAreStreamed`: `StreamSpec => InOrderDelivery`, the refinement of
  `IterationStream`.  The write that ends a `close` maps to `Send`, the body of the
  reader's loop to `Receive`, everything else to a stutter.

The first two rest on `Inv /\ DeliveryInv`:

- `LoopInv`, `CallInv`: no more than one iteration is open, the current one, in the step
  the frontend is in; the call that ends a step closes that iteration with nothing of it
  left in the frontend.
- `TasksInv`: a queue holds tasks of open iterations only.
- `ChainInv`: the newest version of each part is with the last task that writes it or,
  behind the queue, where it was handed on to last.
- `PlacesInv`: nothing of an iteration is in a step before the one that closes it, and in the
  attribute layout its attributes can be changed until then.
- `ClosedOnce`, `StepsInv`, `LastClosed`: the steps are the iterations that were closed, in
  that order, each once; while ENDSTEP is queued there is one step less.

What a reader may see is `ArchiveInv`, which, unlike these, also holds of the complete file:

- `SentInv`: iterations are closed in the order of their indices, and none is left out.
- `FaithfulInv`: what the n-th step tells of a closed iteration is what it was closed with;
  it tells of the n-th one, in a file in the attribute layout of the attributes of the earlier
  ones too, without steps of all of them, and of no other.
- `CountInv`: there are as many steps as closed iterations, or one more that a change of
  the Series itself has caused at the end.  That step shows no iteration that was not there before.
- `KeptInv`: what the buffered actions keep of closed iterations for the steps to come.

`ReaderInv` relates the reader to it:

- `PrefixInv`: its engine was given a prefix of the steps, a file as a whole.
- `KnownInv`: the iterations it has parsed are those closed up to its step or, where
  `AllKnown`, all of them.
- `VisitedInv`: what the loop has seen is a prefix of `finished`, and a dataset is
  loaded only in the loop's body.
- `ParsedInv`, `LoopingInv`, `NextInv`, `DoneInv`: where engine, step and current
  iteration are in each phase of the loop.

With `NextClosed`, the least index behind the current one is that of the iteration that was closed
next; this is the place where writing in order is needed.

### Records in one file (`RecordStorage_proofs`, `RecordSafety_proofs`)

For every set of components, every extent, every number of changes and failures of a
record over JSON or HDF5:

- `TypeCorrect`: `Spec => []TypeOK`, frontend and backend.
- `TruncatedFilesRecover`: `Spec => []NothingTornForGood`.
- `NothingBlocks`: `Spec => []NeverBlocked`.
- `LoadsAreCurrent`: `Spec => []LoadsSeeStores`.
- `FlushesAreDurable`: `Spec => []FlushIsDurable`.
- `RecordImplementsStore`: `Spec => KeepsStore`, the refinement of `DatasetStore`: the
  abstract saved values are what the backend holds of the file, in JSON's copy or on disk, and a
  component counts as erased once its DELETE_PATH has been enqueued.

`NothingTornForGood` becomes inductive as `TornInv`: while a file is torn, JSON has the
copy, and either the dirty set or the task at the head of the queue (`Pending`) will
write it.  That task is neither skipped, since whether it is depends on flags that only
handlers set, nor passed by, since a call only appends to the queue.  `CallInv`, which
says that the component of a call stays in the container, is what the types rest on.

The other four share `QueueInv`, about a queue in which the tasks of failed calls are
still waiting when the next calls repeat them:

- `OrderInv`: tasks of one component stand in the order in which it must live: created,
  written and read, deleted.
- `ReadyInv`: when a task's turn comes, what it looks for is there (`ReadyAt`), or is
  created by a task in front of it.
- `FileInv`, `FileTaskInv`, `PhaseInv`: the same about the file and its record, and what a phase of
  a call has seen to.
- `CompInv`, per component: `TasksInv` relates what the frontend remembers to the tasks
  that are queued, `NodeInv` to what the backend has, `CellInv` and `AttInv` follow the
  newest values of cells and attributes, `DeletionInv` and `CleanInv` say what is left of
  a component that is deleted, or has nothing unsaved.

### Slices, chunks, file names (`Chunks_proofs`, `FileNames_proofs`)

For every rank, extent and number of ranks of slices and chunks:

- `SlicesPartition`: every index of a dimension is in the slice of exactly one rank.
- `SlicesAreBalanced`: no slice is longer than another by more than one.
- `MergingKeepsCells`: mergeable chunks have no cell in common, and merging them keeps
  their cells.
- `FreshTableTells`: the table `chunksInJSON` returns has exactly the written cells, in
  disjoint chunks, and is the whole dataset if all of it is written.
- `TablesAreTyped`, `TablesAreExact`, `NothingIsLeftToMerge`, `SlicesMakeTheWhole`: every
  property of the run `ChunkTables` (`TypeOK`, `TableIsExact`, `NothingToMerge`,
  `SlicesTile`), from the inductive invariant `TableInv`.

For every set of indices and paddings, every number of digits and sessions:

- `TypeCorrect`, `NamesAreFound` (`Spec => []KnownFilesExist`),
  `OnePatternMissesNothing` (`Spec => []NothingMissed`), and `ExtendingIsSafe`, the
  action property `SafeExtension`.

The slices: `RoundedUp` shows that `firstIndex` is N * rank / size rounded up although
the code never forms that product, `SlicesAreContiguous` that each slice ends where the
next begins, and `OwnerBounds` that index k belongs to rank r iff
N * r <= size * k < N * (r + 1), which one r satisfies.

The chunk tables: both recursions, over the indices of an array and over the nesting, are
handled by taking the smallest number for which the claim fails (`SmallestNumber`).
`UpToExists` and `ChunksRecursion` show that the recursive functions have values at all,
`RunsEnumerate` that `runs` lists each entry of each slab where a run begins once.
`Good` says of the table of an array at any depth which of the cells below it are written,
and that no two entries have a cell in common; `RunsAreGood` carries it from the slabs to
the array, because every slab that is there lies in one run (`RunOf`) and runs do not
overlap (`RunsApart`).  `MergingKeepsTable` is one turn of `mergeChunks`.  `NoPairIsLeft`
needs geometry: two disjoint chunks whose union is a box touch in one dimension and agree
in all others (`BoxIsMergeable`, by looking at their corners), so the test of `mergeable`
misses none.  That all slices together are one chunk rests on `chunksInJSON`, which finds
a full dataset in one piece (`FullArrays`); merging alone would not get there from every
exact table.

The file names: `Names` says that each file was named with the padding of a pattern the
directory was written with, `Session` that with a fixed pattern the padding is the
pattern's and that a READ_WRITE session with `%T` knows every file.

### Model-checked only

`CallReturns` and `LoopEnds` are liveness and out of the prover's reach.

## 6. Findings

1. *Changed Series attributes do not reach every file* (`Series.cpp:606`).
   A flush of one iteration takes back the dirty bit that was set for all.
2. *Attributes of `meshes` and `particles` are skipped* (`Iteration.cpp:543`).
   `dirtyRecursive` does not ask the containers.
3. *A refused flush poisons the next one* (`BaseRecord.hpp:302`): CREATE_FILE is left
   in the queue, and another iteration's contents land in that file.
4. *A destructor throws* (`Series.cpp:1465`): the last iteration of
   `writeIterations` is closed after its Series is gone.
5. *Deleted attributes stay in JSON files* (`JSONIOHandlerImpl.cpp:845`): the handler
   erases a name where no attribute is kept.

Met while modelling and without a run of their own; each is listed among the hazards:

- One failure of a handler while an iteration is closed makes it `ClosedInBackend` and
  unwritten for ever; later flushes throw the internal error of `Series.cpp:541`.
- A reader passes over iterations written with decreasing indices (`Series.cpp:1374`).
- A READ_ONLY Series with file names of several lengths parses its iterations and cannot
  open those with leading zeros again (`Series.cpp:807`): the padding stays 0.
- `slice1D` of openpmd-pipe does not pick the largest dimension of three (`pipe/__init__.py:84`).

## 7. Plan

Done: the file-based Series over JSON and HDF5; writing and reading steps with ADIOS2;
records and their contents in one file; slices, chunk tables and file names.  Next:

1. Group-based files in READ_WRITE, and over JSON and HDF5: the access mode that is
   switched during parsing, failing parses, species that empty the queue.
2. Scalar records, extending and deleting datasets, deleting files; more than one file
   with a copy in memory.
3. Dataset definition and `drop` of ADIOS2, preloaded attributes by prefix.
4. ADIOS1 and its two queues.

## 8. Not modelled

About two thirds of the lines of the repository are third-party headers under
`src/share/openPMD/thirdParty` (nlohmann/json, Catch2, mpark/variant, pybind11), which
are used and not part of this program.  Of the rest these parts are left out: the
Python bindings, examples, helpers and the command line (they forward), datatype
conversions and the traits behind them (no state), MPI and the parallel backends (one
process per file is what the models have), the libraries HDF5 and ADIOS2 themselves
(modelled by how the code uses them, marked external), and ADIOS1, a legacy backend.
