---------------------------- MODULE RecordStorage ----------------------------
(***************************************************************************)
(* The frontend of a record and its components over one file: what a user  *)
(* does to components (declaring them, storing and loading chunks,         *)
(* attributes, erasing), how Series::flush turns that into tasks, and what *)
(* is left of it in the file, also when a handler throws.                  *)
(*                                                                         *)
(* The record belongs to the only iteration of its file.  What a new file  *)
(* gets before the record (paths, attributes of the Series) is part of     *)
(* CREATE_FILE, what a parser reads is one READ_ATT.                       *)
(***************************************************************************)
EXTENDS DatasetHandlers

CONSTANTS
  Modes,        \* <<access, backend, encoding>> a run starts with
  Existing,     \* files that a run starts with
  MaxFailures,  \* bound on handlers that throw by themselves
  MaxBacklog    \* bound on the tasks of failed calls left in the queue

\* A new file-based Series is SeriesFileBased's subject.
AllModes == {m \in Access \X Backend \X Encoding :
               m[1] = "CREATE" => m[3] = "groupBased"}
JSONWriting == {<<"CREATE", "JSON", "groupBased">>}

ASSUME ModesAssumption == Modes \subseteq AllModes
ASSUME FailuresAssumption == MaxFailures \in Nat

VARIABLES
  components,  \* keys of the record, a Container
  rc,          \* the RecordComponent of each key
  m_closed,    \* Iteration::m_closed: "Open" or "ClosedTemporarily"
  stored,      \* the newest value the user has given to each cell
  doomed,      \* components a failed call was to erase or to delete from
  phase,       \* where the calling thread is
  call,        \* the call it is in
  todo,        \* components the flush has not reached
  result,      \* "flushed" until the user's next change, "threw" in a destructor
  changes,     \* counters behind the bounds
  failures

frontend == <<components, rc, m_closed, stored, doomed>>
control  == <<phase, call, todo, result>>
counters == <<changes, failures>>
backendVars == <<fixed, m_work, flags, isOpen, file, loaded>>
vars == <<backendVars, frontend, control, counters>>
untouched == <<fixed, m_work, flags, isOpen>>  \* by a handler that throws

RecordComponent == [box : SUBSET Cell, empty : BOOLEAN, constant : BOOLEAN,
                    value : Version, att : Version, dirty : BOOLEAN,
                    chunks : Seq(IOTask)]
\* RecordComponent's constructor: a dataset of one element, dirty.
NewComponent == [box |-> {1}, empty |-> FALSE, constant |-> FALSE, value |-> 0,
                 att |-> 0, dirty |-> TRUE, chunks |-> <<>>]

Calls == {"none", "construct", "flush", "destroy", "erase", "deleteAttribute",
          "availableChunks"}
Call(o, c) == [op |-> o, comp |-> c]
NoCall == Call("none", None)

Least(S) == CHOOSE c \in S : \A d \in S : c <= d

-----------------------------------------------------------------------------
(* Initial states: a new file, or one that an earlier program has written  *)
(* and the constructor is about to parse.                                  *)

\* What an earlier program has written has version 1.  It has left one cell
\* of the dataset unwritten.
ExistingNode ==
  {NoNode,
   [NoNode EXCEPT !.kind = "dataset", !.box = Cell, !.att = 1,
                  !.cells = [k \in Cell |-> IF k = 1 THEN 0 ELSE 1]],
   [NoNode EXCEPT !.kind = "group", !.box = Cell, !.value = 1]}
AllFiles == [Comp -> ExistingNode]
ASSUME ExistingAssumption == Existing \subseteq AllFiles

\* Files without two components alike, one of each set that differ in the
\* names of components only.
Representatives ==
  {d \in AllFiles : \A a, b \in Comp :
     a < b => d[b].kind # "dataset" /\ (d[b].kind = "group" => d[a].kind = "dataset")}

\* RecordComponent::readBase, readAttributes.
Parsed(n) == [NewComponent EXCEPT !.box = n.box, !.constant = n.kind = "group",
                                  !.value = n.value, !.att = n.att,
                                  !.dirty = FALSE]

parseTasks == <<FileTask("OPEN_FILE"), FileTask("READ_ATT")>>
              \o IF encoding = "fileBased" THEN <<FileTask("CLOSE_FILE")>> ELSE <<>>

InitContents ==
  IF access = "CREATE"
  THEN /\ disk = None
       /\ components = {}
       /\ rc = [c \in Comp |-> NewComponent]
       /\ stored = [c \in Comp |-> Nothing]
       /\ m_work = <<>>
       /\ phase = "idle" /\ call = NoCall
  ELSE /\ disk \in Existing
       /\ components = {c \in Comp : disk[c].kind # "none"}
       /\ rc = [c \in Comp |-> IF disk[c].kind = "none" THEN NewComponent
                               ELSE Parsed(disk[c])]
       /\ stored = [c \in Comp |-> disk[c].cells]
       /\ m_work = parseTasks
       /\ phase = "drain" /\ call = Call("construct", None)

Init ==
  /\ \E m \in Modes : access = m[1] /\ backend = m[2] /\ encoding = m[3]
  /\ InitContents
  /\ fileWritten = FALSE
  /\ recordWritten = (components # {})
  /\ written = [c \in Comp |-> c \in components]
  /\ isOpen = FALSE
  /\ m_jsonVals = None
  /\ m_dirty = FALSE
  /\ loaded = NotLoaded
  /\ m_closed = IF encoding = "fileBased" THEN "ClosedTemporarily" ELSE "Open"
  /\ doomed = {}
  /\ todo = {}
  /\ result = "none"
  /\ changes = 0
  /\ failures = 0

-----------------------------------------------------------------------------
(* The user changes the object model; nothing is written by that.          *)

Idle == phase = "idle" /\ UNCHANGED <<backendVars, m_closed, phase, call, todo, failures>>
Writable(c) == access # "READ_ONLY" /\ c \in components \ doomed

Change == changes < MaxChanges /\ changes' = changes + 1
newest == changes + 2   \* the version the next change gives

\* A component is declared before chunks are stored and, once it is empty,
\* not again: the code accepts both and the queue does not recover from them.
Undeclared(c) ==
  Writable(c) /\ ~written[c] /\ ~rc[c].empty /\ rc[c].chunks = <<>> /\ ~QueuedFor(c)

\* Container::operator[]
Component(c) ==
  /\ Idle /\ access # "READ_ONLY" /\ c \notin components
  /\ components' = components \cup {c}
  /\ rc' = [rc EXCEPT ![c] = NewComponent]
  /\ stored' = [stored EXCEPT ![c] = Nothing]
  /\ result' = "none"
  /\ UNCHANGED <<doomed, changes>>

\* Mutant: one element too many.
resetDatasetTooLarge(c, e) ==
  /\ Idle /\ Undeclared(c) /\ Change
  /\ rc' = [rc EXCEPT ![c].box = 1 .. e + 1, ![c].dirty = TRUE]
  /\ result' = "none"
  /\ UNCHANGED <<components, stored, doomed>>

\* resetDataset, which is makeEmpty for an extent of zero; that takes the
\* default value of the type, as old as any.
resetDataset(c, e) ==
  /\ Idle /\ Undeclared(c) /\ Change
  /\ rc' = [rc EXCEPT ![c] =
              IF e = 0
              THEN [@ EXCEPT !.box = {}, !.empty = TRUE, !.constant = TRUE,
                             !.value = 1, !.dirty = TRUE]
              ELSE [@ EXCEPT !.box = 1 .. e, !.dirty = TRUE]]
  /\ result' = "none"
  /\ UNCHANGED <<components, stored, doomed>>

makeConstant(c) ==
  /\ Idle /\ Undeclared(c) /\ Change
  /\ rc' = [rc EXCEPT ![c].constant = TRUE, ![c].value = newest]
  /\ result' = "none"
  /\ UNCHANGED <<components, stored, doomed>>

storeChunk(c, b) ==
  /\ Idle /\ Writable(c) /\ Change
  /\ ~rc[c].constant /\ ~rc[c].empty
  /\ b # {} /\ b \subseteq rc[c].box
  /\ rc' = [rc EXCEPT ![c].chunks = Append(@, Task("WRITE_DATASET", c, b, newest))]
  /\ stored' = [stored EXCEPT ![c] = [k \in Cell |-> IF k \in b THEN newest ELSE @[k]]]
  /\ result' = "none"
  /\ UNCHANGED <<components, doomed>>

\* A constant component fills the buffer at once.  Cells that were never
\* stored are not asked for: JSON throws, and its queue does not recover.
loadChunk(c, b) ==
  /\ Idle /\ c \in components \ doomed /\ Change
  /\ ~rc[c].constant
  /\ b # {} /\ b \subseteq rc[c].box
  /\ \A k \in b : stored[c][k] # 0
  /\ rc' = [rc EXCEPT ![c].chunks = Append(@,
              [Task("READ_DATASET", c, b, 0) EXCEPT
                 !.want = [k \in Cell |-> IF k \in b THEN stored[c][k] ELSE 0]])]
  /\ result' = "none"
  /\ UNCHANGED <<components, stored, doomed>>

setAttribute(c) ==
  /\ Idle /\ Writable(c) /\ Change
  /\ rc' = [rc EXCEPT ![c].att = newest, ![c].dirty = TRUE]
  /\ result' = "none"
  /\ UNCHANGED <<components, stored, doomed>>

-----------------------------------------------------------------------------
(* Calls that run the queue.                                               *)

Begin(o, c) ==
  /\ phase = "idle"
  /\ Len(m_work) <= MaxBacklog
  /\ call' = Call(o, c)
  /\ result' = "none"
  /\ UNCHANGED <<fixed, flags, isOpen, file, loaded, stored, doomed, failures>>

dirtyRecursive == \E c \in components : rc[c].dirty \/ rc[c].chunks # <<>>

\* What comes before the components: Series::flush, Iteration::flush,
\* Mesh::flush_impl.  A file-based Series passes over a clean iteration.
flushTasks ==
  IF encoding = "fileBased" THEN <<FileTask("OPEN_FILE")>>
  ELSE IF access = "CREATE" /\ ~fileWritten THEN <<FileTask("CREATE_FILE")>>
  ELSE <<>>
recordTasks ==
  IF access # "READ_ONLY" /\ ~recordWritten THEN <<FileTask("CREATE_PATH")>> ELSE <<>>

Flush(o) ==
  /\ Begin(o, None)
  /\ IF encoding = "fileBased" /\ ~dirtyRecursive
     THEN phase' = "drain" /\ UNCHANGED <<m_work, todo, m_closed>>
     ELSE /\ components # {} \/ recordWritten
          /\ enqueue(flushTasks \o recordTasks)
          /\ m_closed' = "Open"
          /\ todo' = components
          /\ phase' = "flush"
  /\ UNCHANGED <<components, rc, changes>>

\* Series::flush; ~SeriesInternal does the same.
flush == Flush("flush")
Destroy == Flush("destroy")

\* BaseRecord::flush throws for a record without components.
FlushEmpty ==
  /\ Begin("flush", None)
  /\ encoding = "groupBased" /\ access # "READ_ONLY"
  /\ components = {} /\ ~recordWritten
  /\ enqueue(flushTasks)
  /\ UNCHANGED <<components, rc, m_closed, phase, todo, changes>>

\* RecordComponent::flush
createTasks(c) ==
  LET r == rc[c]
  IN IF written[c] THEN <<>>
     ELSE IF r.constant
     THEN <<Task("CREATE_GROUP", c, {}, 0), Task("WRITE_VALUE", c, {}, r.value),
            Task("WRITE_SHAPE", c, r.box, 0)>>
     ELSE <<Task("CREATE_DATASET", c, r.box, 0)>>

attributeTasks(c) ==
  IF rc[c].dirty /\ rc[c].att # 0 THEN <<Task("WRITE_ATT", c, {}, rc[c].att)>> ELSE <<>>

\* Mutants: all loads first; the chunks before the dataset.
componentTasksLoadingFirst(c) ==
  LET loads(t) == t.op = "READ_DATASET"
      stores(t) == ~loads(t)
  IN createTasks(c) \o SelectSeq(rc[c].chunks, loads)
     \o SelectSeq(rc[c].chunks, stores) \o attributeTasks(c)
componentTasksChunksFirst(c) == rc[c].chunks \o createTasks(c) \o attributeTasks(c)

componentTasks(c) ==
  IF access = "READ_ONLY" THEN rc[c].chunks
  ELSE createTasks(c) \o rc[c].chunks \o attributeTasks(c)

Visit(c) ==
  /\ phase = "flush" /\ todo # {} /\ c = Least(todo)
  /\ enqueue(componentTasks(c))
  /\ rc' = [rc EXCEPT ![c].chunks = <<>>,
                      ![c].dirty = @ /\ access = "READ_ONLY"]
  /\ todo' = todo \ {c}
  /\ UNCHANGED <<fixed, flags, isOpen, file, loaded, components, m_closed, stored,
                 doomed, phase, call, result, counters>>

Visited ==
  /\ phase = "flush" /\ todo = {}
  /\ phase' = "drain"
  /\ UNCHANGED <<backendVars, frontend, call, todo, result, counters>>

\* A component with unsaved changes is erased only if it was never written,
\* and never while tasks of a failed call refer to it.
Settled(c) ==
  /\ ~QueuedFor(c)
  /\ written[c] => rc[c].chunks = <<>> /\ ~rc[c].dirty

\* Container::erase
EraseWritten(c) ==
  /\ Begin("erase", c) /\ Change
  /\ access # "READ_ONLY" /\ c \in components /\ Settled(c) /\ written[c] /\ isOpen
  /\ enqueue(<<Task("DELETE_PATH", c, {}, 0)>>)
  /\ phase' = "drain"
  /\ UNCHANGED <<components, rc, m_closed, todo>>

EraseUnwritten(c) ==
  /\ Idle /\ Change
  /\ access # "READ_ONLY" /\ c \in components /\ Settled(c) /\ ~written[c]
  /\ components' = components \ {c}
  /\ doomed' = doomed \ {c}
  /\ result' = "none"
  /\ UNCHANGED <<rc, stored>>

\* AttributableImpl::deleteAttribute.  An attribute HDF5 does not have yet is
\* not deleted: the handler throws, and its queue does not recover.
DeleteAttribute(c) ==
  /\ Begin("deleteAttribute", c) /\ Change
  /\ Writable(c) /\ rc[c].att # 0 /\ Settled(c)
  /\ written[c] => isOpen
  /\ enqueue(<<Task("DELETE_ATT", c, {}, 0)>>)
  /\ phase' = "drain"
  /\ UNCHANGED <<components, rc, m_closed, todo>>

\* BaseRecordComponent::availableChunks, asked of a dataset in an open file.
AvailableChunks(c) ==
  /\ Begin("availableChunks", c)
  /\ c \in components \ doomed /\ ~rc[c].constant /\ written[c] /\ isOpen
  /\ enqueue(<<Task("AVAILABLE_CHUNKS", c, {}, 0)>>)
  /\ phase' = "drain"
  /\ UNCHANGED <<components, rc, m_closed, todo, changes>>

-----------------------------------------------------------------------------
(* IOHandler()->flush() and the end of a call.                             *)

Drain ==
  /\ phase = "drain"
  /\ ProcessTask \/ FlushDirty
  /\ UNCHANGED <<frontend, control, counters>>

\* The container and the attribute map are changed behind the flush.
Drained ==
  /\ phase = "drain" /\ m_work = <<>> /\ ~m_dirty
  /\ phase' = IF call.op = "destroy" \/ result = "threw" THEN "gone" ELSE "idle"
  /\ call' = NoCall
  /\ result' = IF call.op \in {"flush", "destroy"} THEN "flushed" ELSE "none"
  /\ loaded' = NotLoaded
  /\ components' = IF call.op = "erase" THEN components \ {call.comp} ELSE components
  /\ doomed' = IF call.op = "erase" THEN doomed \ {call.comp} ELSE doomed
  /\ rc' = IF call.op = "deleteAttribute"
           THEN [rc EXCEPT ![call.comp].att = 0] ELSE rc
  /\ UNCHANGED <<untouched, file, m_closed, stored, todo, counters>>

\* An exception leaves the call and the queue as it is.  The destructor of
\* the JSON backend flushes once more, of a Series that was destroyed or not
\* constructed at all; then nobody is left to care for the queue.
Throw ==
  /\ IF call.op \in {"construct", "destroy"}
     THEN IF backend = "JSON" /\ result # "threw"
          THEN result' = "threw" /\ UNCHANGED <<phase, call>>
          ELSE phase' = "gone" /\ call' = NoCall /\ result' = "threw"
     ELSE phase' = "idle" /\ call' = NoCall /\ result' = "none"
  /\ loaded' = NotLoaded
  /\ doomed' = IF call.op \in {"erase", "deleteAttribute"}
               THEN doomed \cup {call.comp} ELSE doomed
  /\ UNCHANGED <<components, rc, m_closed, stored, todo, changes>>

\* A handler refuses its task, or throws by itself before it has had an
\* effect ...
HandlerThrows ==
  /\ phase = "drain" /\ m_work # <<>>
  /\ failures' = IF Refused(Head(m_work)) THEN failures ELSE failures + 1
  /\ failures' <= MaxFailures
  /\ Throw
  /\ UNCHANGED <<untouched, file>>

\* ... or while JSON writes the file.
WriteThrows ==
  /\ phase = "drain"
  /\ failures < MaxFailures /\ failures' = failures + 1
  /\ PutFails
  /\ Throw
  /\ UNCHANGED untouched

-----------------------------------------------------------------------------
Next ==
  \/ \E c \in Comp : \/ Component(c)
                     \/ \E e \in 0 .. MaxExtent : resetDataset(c, e)
                     \/ makeConstant(c)
                     \/ \E b \in SUBSET Cell : storeChunk(c, b) \/ loadChunk(c, b)
                     \/ setAttribute(c)
                     \/ EraseWritten(c) \/ EraseUnwritten(c)
                     \/ DeleteAttribute(c)
                     \/ AvailableChunks(c)
                     \/ Visit(c)
  \/ flush \/ Destroy \/ FlushEmpty
  \/ Visited
  \/ Drain \/ Drained
  \/ HandlerThrows \/ WriteThrows

Spec == Init /\ [][Next]_vars

-----------------------------------------------------------------------------
(* Properties.                                                             *)

\* Every variable of the frontend and of the backend keeps its type.
TypeOK ==
  /\ HandlersTypeOK
  /\ components \subseteq Comp
  /\ rc \in [Comp -> RecordComponent]
  /\ m_closed \in {"Open", "ClosedTemporarily"}
  /\ stored \in [Comp -> [Cell -> Version]]
  /\ doomed \subseteq components
  /\ phase \in {"idle", "flush", "drain", "gone"}
  /\ call \in [op : Calls, comp : Comp \cup {None}]
  /\ todo \subseteq components
  /\ result \in {"none", "flushed", "threw"}
  /\ changes \in 0 .. MaxChanges
  /\ failures \in 0 .. MaxFailures

\* A chunk that was loaded has in every cell what the user stored last before
\* the call of loadChunk, whatever was flushed, has failed or been repeated
\* in between (RecordComponent::flush, AbstractIOHandlerImpl::flush).
LoadsSeeStores == loaded.got = loaded.want

Holds(n, r, cells) ==
  /\ n.kind = IF r.constant THEN "group" ELSE "dataset"
  /\ n.box = r.box
  /\ IF r.constant THEN n.value = r.value ELSE n.cells = cells
  /\ r.att # 0 => n.att = r.att
  /\ r.att = 0 => backend = "JSON" \/ n.att = 0

\* When Series::flush or the destructor comes to its end without an
\* exception, the file on disk holds exactly the components of the record,
\* with all their values, whatever failed before.
FlushIsDurable ==
  result = "flushed" =>
    /\ disk \notin {None, Torn}
    /\ \A c \in Comp \ doomed :
         IF c \in components THEN Holds(disk[c], rc[c], stored[c])
         ELSE disk[c].kind = "none"

\* As long as there is a Series, a file that was truncated when writing it
\* failed can still be written: JSON has the copy and knows that it has to
\* write it (JSONIOHandlerImpl::putJsonContents, flush).
NothingTornForGood ==
  disk = Torn /\ phase # "gone" =>
    m_jsonVals # None /\ (m_dirty \/ m_work # <<>>)

\* No handler refuses the task at the head of the queue, where it would stay
\* and make every later flush throw (AbstractIOHandlerImpl::flush).
NeverBlocked == phase = "drain" /\ m_work # <<>> => ~Refused(Head(m_work))

\* An attribute that deleteAttribute has removed is not in the file either
\* (AttributableImpl::deleteAttribute: "both logically and physically").
DeletedAttributesAreGone ==
  result = "flushed" =>
    \A c \in components \ doomed : rc[c].att = 0 => disk[c].att = 0

\* The record keeps its promise: what it holds of a cell never becomes older,
\* and is lost only by erasing the component.
Store == INSTANCE DatasetStore WITH
  latest  <- [c \in Comp |-> IF c \in components THEN stored[c] ELSE Nothing],
  saved   <- [c \in Comp |-> IF Legible THEN contents[c].cells ELSE Nothing],
  erasing <- {c \in Comp : \E k \in DOMAIN m_work :
                m_work[k].op = "DELETE_PATH" /\ m_work[k].comp = c}
KeepsStore == Store!Spec
=============================================================================
