------------------------- MODULE SeriesWorkflow_proofs -------------------------
(***************************************************************************)
(* The plain workflow of a file-based Series, in which no handler throws by *)
(* itself and every Record has a component: tasks find their files, nothing *)
(* is lost, and iterations are written, closed and saved as the users are   *)
(* promised.                                                                *)
(***************************************************************************)
EXTENDS SeriesFileBased_proofs

\* No handler throws by itself, and every Record has a component.
Plain == MaxFailures = 0 /\ "empty_record" \notin Extras

-----------------------------------------------------------------------------
(* Steps between which the queue is empty.                                 *)

LEMMA LeastUnique ==
  ASSUME NEW S, NEW i \in Iter, NEW j \in Iter, Least(i, S), Least(j, S)
  PROVE  i = j
BY IterAssumption DEF Least

LEMMA AtWorkUnique ==
  ASSUME NEW i \in Iter, NEW j \in Iter, AtWork(i), AtWork(j)
  PROVE  i = j
BY LeastUnique DEF AtWork

\* What WorkflowInv says of an iteration while the queue is empty.
ObjectInv(i) ==
  /\ m_closed[i] \in {"Open", "ClosedInFrontend"} => Opened(i) \/ dirtyRecursive(i)
  /\ m_closed[i] \in {"ClosedTemporarily", "ClosedInBackend"} => i \notin openFiles
  /\ disk[i][i].attr = mem[i].attr \/ (dirty[i] /\ Unsaved(i))
  /\ disk[i][i].data = mem[i].data \/ (pending[i] /\ Writing)
  /\ disk[i][i].group = mem[i].group \/ (groupDirty[i] /\ Writing)
  /\ disk[i][i].attr <= mem[i].attr /\ disk[i][i].data <= mem[i].data
  /\ ~emptyRecord[i]

FlushedOK(i) == /\ Writing => ~dirty[i] /\ ~pending[i]
                /\ m_closed[i] \in {"Open", "ClosedInFrontend"} => Opened(i)

\* What is left to show for such a step.
SettledInv ==
  /\ \A i \in Iter : ObjectInv(i) /\ (Flushed(i) => FlushedOK(i))
  /\ todo \subseteq {i \in Iter : Concerned(i)}
  /\ CallInv

LEMMA WorkflowSettles ==
  ASSUME WorkflowInv, m_work = <<>>
  PROVE  SettledInv
<1>1. DOMAIN m_work = {}
  OBVIOUS
<1>2. \A i \in Iter : ~PathQueued(i) /\ \A t : ~Queued(t)
  BY <1>1 DEF PathQueued, Queued
<1>3. ASSUME NEW i \in Iter PROVE ObjectInv(i) /\ (Flushed(i) => FlushedOK(i))
  <2>1. ObjectInv(i)
    BY <1>2 DEF WorkflowInv, OpenInv, ValueInv, VersionInv, ObjectInv
  <2>2. Flushed(i) => FlushedOK(i)
    BY <1>2 DEF WorkflowInv, FlushedInv, FlushedOK
  <2> QED BY <2>1, <2>2
<1> QED BY <1>3 DEF WorkflowInv, FlushedInv, SettledInv

LEMMA SettledWorks ==
  ASSUME ExistInv, m_work = <<>>, m_work' = <<>>, UNCHANGED storage, phase' # "drain",
         SettledInv'
  PROVE  WorkflowInv'
<1>1. DOMAIN m_work = {} /\ DOMAIN m_work' = {} /\ Len(m_work') = 0
  OBVIOUS
<1>2. TasksInv' /\ PrologueInv'
  <2>1. Preparing(0)'
    BY <1>1 DEF Preparing
  <2> QED BY <1>1, <2>1 DEF TasksInv, PrologueInv
<1>3. ExistInv'
  BY <1>1 DEF ExistInv, PathQueued, storage, flags, files
<1>4. OpenInv' /\ ValueInv' /\ VersionInv' /\ FlushedInv' /\ CallInv'
      /\ \A i \in Iter : ~emptyRecord'[i]
  BY <1>1 DEF SettledInv, ObjectInv, FlushedOK, OpenInv, ValueInv, VersionInv, FlushedInv
<1> QED BY <1>2, <1>3, <1>4 DEF WorkflowInv

\* What is between two calls.
LEMMA NoneCalled ==
  ASSUME SettledInv, Idle
  PROVE  /\ call.op = "none" /\ todo = {}
         /\ \A i \in Iter : ~Concerned(i)
BY DEF SettledInv, CallInv, Idle, Concerned

-----------------------------------------------------------------------------
(* What the user does between two calls.                                   *)

\* A step outside of any call: only objects and contents may change.
LEMMA UncalledSettles ==
  ASSUME SettledInv, Idle, UNCHANGED <<phase, call, todo, access>>,
         \A i \in Iter : ObjectInv(i) => ObjectInv(i)'
  PROVE  SettledInv'
<1>1. call.op = "none" /\ todo = {}
  BY NoneCalled
<1>2. \A i \in Iter : ~Concerned(i)' /\ ~Flushed(i)'
  BY <1>1 DEF Concerned, Flushed
<1>3. \A i \in Iter : ObjectInv(i)'
  BY DEF SettledInv
<1>4. CallInv'
  BY <1>1 DEF SettledInv, CallInv, Idle
<1> QED BY <1>1, <1>2, <1>3, <1>4 DEF SettledInv

LEMMA ContentParts ==
  ASSUME TypeOK, NEW i \in Iter
  PROVE  /\ mem[i] \in Content /\ mem[i].attr \in Nat /\ mem[i].data \in Nat
         /\ mem[i].group \in Nat /\ disk[i][i] \in Content
         /\ disk[i][i].attr \in Nat /\ disk[i][i].data \in Nat /\ disk[i][i].group \in Nat
<1>1. mem[i] \in Content /\ disk[i][i] \in Content
  BY DEF TypeOK, BackendTypeOK, UserTypeOK
<1>2. \A c \in Content : c.attr \in Nat /\ c.data \in Nat /\ c.group \in Nat
  BY VersionAssumption DEF Content, Version
<1> QED BY <1>1, <1>2

LEMMA ModifySettles ==
  ASSUME Plain, TypeOK, SettledInv, Modify
  PROVE  SettledInv' /\ m_work' = m_work /\ UNCHANGED storage /\ Idle /\ phase' = phase
<1> USE DEF unobserved, change, Idle, ObjectInv, Opened, dirtyRecursive, Unsaved, Writing
<1>0. \A i \in Iter : /\ mem[i] \in Content /\ mem[i].attr \in Nat /\ mem[i].data \in Nat
                      /\ disk[i][i].attr \in Nat /\ disk[i][i].data \in Nat
  BY ContentParts
<1>1. ASSUME NEW i \in Iter, Insert(i)
      PROVE  SettledInv' /\ m_work' = m_work /\ UNCHANGED storage /\ Idle /\ phase' = phase
  <2>1. UNCHANGED <<storage, m_work, phase, call, todo, access, m_closed, dirty, pending,
                    groupDirty, emptyRecord, mem>> /\ Idle /\ Writing
    BY <1>1 DEF Insert, storage, fixed, user
  <2>2. UNCHANGED <<openFiles, iterationFile, disk>>
    BY <2>1 DEF storage, files, assocs
  <2> QED BY <2>1, <2>2, UncalledSettles
<1>2. ASSUME NEW i \in Iter, SetAttribute(i)
      PROVE  SettledInv' /\ m_work' = m_work /\ UNCHANGED storage /\ Idle /\ phase' = phase
  <2>1. /\ UNCHANGED <<storage, m_work, phase, call, todo, m_closed, pending,
                       groupDirty, emptyRecord, iterations>> /\ Idle /\ Writing
        /\ mem' = [mem EXCEPT ![i].attr = @ + 1]
        /\ dirty' = [dirty EXCEPT ![i] = TRUE]
    BY <1>2 DEF SetAttribute
  <2>2. UNCHANGED <<openFiles, iterationFile, disk, access>>
    BY <2>1 DEF storage, files, assocs, fixed
  <2>3. \A j \in Iter : /\ mem'[j].data = mem[j].data /\ mem'[j].group = mem[j].group
                        /\ mem'[j].attr = IF j = i THEN mem[j].attr + 1 ELSE mem[j].attr
                        /\ dirty'[j] <=> dirty[j] \/ j = i
    BY <2>1 DEF TypeOK, UserTypeOK, ObjectTypeOK, Content
  <2> QED BY <1>0, <2>1, <2>2, <2>3, UncalledSettles
<1>3. ASSUME NEW i \in Iter, StoreChunk(i)
      PROVE  SettledInv' /\ m_work' = m_work /\ UNCHANGED storage /\ Idle /\ phase' = phase
  <2>1. /\ UNCHANGED <<storage, m_work, phase, call, todo, m_closed, dirty,
                       groupDirty, iterations>> /\ Idle /\ Writing
        /\ mem' = [mem EXCEPT ![i].data = @ + 1]
        /\ pending' = [pending EXCEPT ![i] = TRUE]
        /\ emptyRecord' = [emptyRecord EXCEPT ![i] = FALSE]
    BY <1>3 DEF StoreChunk
  <2>2. UNCHANGED <<openFiles, iterationFile, disk, access>>
    BY <2>1 DEF storage, files, assocs, fixed
  <2>3. \A j \in Iter : /\ mem'[j].attr = mem[j].attr /\ mem'[j].group = mem[j].group
                        /\ mem'[j].data = IF j = i THEN mem[j].data + 1 ELSE mem[j].data
                        /\ pending'[j] <=> pending[j] \/ j = i
                        /\ ~emptyRecord[j] => ~emptyRecord'[j]
    BY <2>1 DEF TypeOK, UserTypeOK, ObjectTypeOK, Content
  <2> QED BY <1>0, <2>1, <2>2, <2>3, UncalledSettles
<1>4. ASSUME NEW i \in Iter, LoadChunk(i)
      PROVE  SettledInv' /\ m_work' = m_work /\ UNCHANGED storage /\ Idle /\ phase' = phase
  <2>1. /\ UNCHANGED <<storage, m_work, phase, call, todo, m_closed, dirty,
                       groupDirty, emptyRecord, iterations, mem>> /\ Idle
        /\ pending' = [pending EXCEPT ![i] = TRUE]
    BY <1>4 DEF LoadChunk, user
  <2>2. UNCHANGED <<openFiles, iterationFile, disk, access>>
    BY <2>1 DEF storage, files, assocs, fixed
  <2>3. \A j \in Iter : pending[j] => pending'[j]
    BY <2>1 DEF TypeOK, ObjectTypeOK
  <2> QED BY <1>0, <2>1, <2>2, <2>3, UncalledSettles
<1>5. ASSUME NEW i \in Iter, SetGroupAttribute(i)
      PROVE  SettledInv' /\ m_work' = m_work /\ UNCHANGED storage /\ Idle /\ phase' = phase
  <2>1. /\ UNCHANGED <<storage, m_work, phase, call, todo, m_closed, pending,
                       dirty, emptyRecord, iterations>> /\ Idle /\ Writing
        /\ mem' = [mem EXCEPT ![i].group = @ + 1]
        /\ groupDirty' = [groupDirty EXCEPT ![i] = TRUE]
    BY <1>5 DEF SetGroupAttribute
  <2>2. UNCHANGED <<openFiles, iterationFile, disk, access>>
    BY <2>1 DEF storage, files, assocs, fixed
  <2>3. \A j \in Iter : /\ mem'[j].data = mem[j].data /\ mem'[j].attr = mem[j].attr
                        /\ j # i => mem'[j].group = mem[j].group
                        /\ groupDirty'[j] <=> groupDirty[j] \/ j = i
    BY <2>1 DEF TypeOK, UserTypeOK, ObjectTypeOK, Content
  <2> QED BY <1>0, <2>1, <2>2, <2>3, UncalledSettles
<1>6. ASSUME SetSeriesAttribute
      PROVE  SettledInv' /\ m_work' = m_work /\ UNCHANGED storage /\ Idle /\ phase' = phase
  <2>1. /\ UNCHANGED <<storage, m_work, phase, call, todo, m_closed, dirty, pending,
                       groupDirty, emptyRecord, iterations, mem>> /\ Idle
    BY <1>6 DEF SetSeriesAttribute
  <2>2. UNCHANGED <<openFiles, iterationFile, disk, access>>
    BY <2>1 DEF storage, files, assocs, fixed
  <2> QED BY <2>1, <2>2, UncalledSettles
<1>7. \A i \in Iter : ~CreateEmptyRecord(i)
  BY DEF CreateEmptyRecord, Plain
<1> QED BY <1>1, <1>2, <1>3, <1>4, <1>5, <1>6, <1>7 DEF Modify

-----------------------------------------------------------------------------
(* Calls.                                                                  *)

LEMMA StartSettles ==
  ASSUME NEW op, NEW i, NEW old, NEW next, NEW S \in SUBSET Iter, op # "none",
         startFlush(op, i, old, next, S),
         S = IF op \in {"flush", "destroy"} THEN iterations' ELSE {i},
         \A j \in Iter : ObjectInv(j)'
  PROVE  SettledInv' /\ phase' = "flush"
<1>1. /\ phase' = "flush" /\ todo' = S /\ call'.op = op /\ call'.it = i
  BY DEF startFlush
<1>2. \A j \in Iter : Concerned(j)' <=> j \in S
  BY <1>1 DEF Concerned
<1>3. \A j \in Iter : ~Flushed(j)'
  BY <1>1, <1>2 DEF Flushed, AtWork
<1>4. CallInv'
  BY <1>1 DEF CallInv
<1> QED BY <1>1, <1>2, <1>3, <1>4 DEF SettledInv

\* An iteration the user has not closed otherwise than in the frontend.
InUse(s) == s \in {"Open", "ClosedInFrontend"}

LEMMA ObjectKept ==
  ASSUME NEW j \in Iter, ObjectInv(j),
         UNCHANGED <<storage, mem, pending, groupDirty, emptyRecord>>,
         m_closed'[j] = m_closed[j] \/ (InUse(m_closed[j]) /\ InUse(m_closed'[j])),
         dirty[j] => dirty'[j],
         Writing \/ iterations' = iterations
  PROVE  ObjectInv(j)'
<1>1. UNCHANGED <<openFiles, iterationFile, disk, access>>
  BY DEF storage, files, assocs, fixed
<1> QED BY <1>1 DEF ObjectInv, InUse, Opened, dirtyRecursive, Unsaved, Writing

LEMMA StepKeeps ==
  ASSUME TypeOK, NEW op, NEW i \in Iter, NEW next, startStep(op, i, m_closed[i], next),
         NEW j \in Iter
  PROVE  m_closed'[j] = m_closed[j] \/ (InUse(m_closed[j]) /\ InUse(m_closed'[j]))
BY DEF startStep, InUse, TypeOK, ObjectTypeOK

LEMMA CloseKeeps ==
  ASSUME TypeOK, SettledInv, NEW i \in Iter, NEW now \in BOOLEAN, NEW next,
         closeIteration(i, now, next), NEW j \in Iter
  PROVE  ObjectInv(j)'
<1> DEFINE status == CASE m_closed[i] = "ClosedInBackend" -> "ClosedInBackend"
                       [] m_closed[i] = "ClosedTemporarily" /\ ~dirtyRecursive(i)
                            /\ ~Writing -> "ClosedInBackend"
                       [] OTHER -> "ClosedInFrontend"
<1>1. /\ UNCHANGED <<storage, pending, groupDirty, emptyRecord, iterations>>
      /\ mem' = [mem EXCEPT ![i].attr = IF Writing /\ @ < MaxVersion THEN @ + 1 ELSE @]
      /\ dirty' = [dirty EXCEPT ![i] = @ \/ Writing]
      /\ ObjectInv(j) /\ m_closed[j] \in CloseStatus
  BY DEF closeIteration, SettledInv, TypeOK, ObjectTypeOK
<1>2. UNCHANGED <<openFiles, iterationFile, disk, access>>
  BY <1>1 DEF storage, files, assocs, fixed
<1>3. /\ mem'[j].data = mem[j].data /\ mem'[j].group = mem[j].group
      /\ j # i \/ ~Writing => mem'[j].attr = mem[j].attr
      /\ mem'[j].attr \in {mem[j].attr, mem[j].attr + 1}
      /\ dirty'[j] <=> dirty[j] \/ (j = i /\ Writing)
  <2>1. mem[i] \in Content /\ mem[j] \in Content /\ mem[j] \in [attr : Nat, group : Nat, data : Nat]
    BY VersionAssumption DEF TypeOK, UserTypeOK, Content, Version
  <2>2. CASE j = i
    <3>1. mem'[i] = [mem[i] EXCEPT !.attr = IF Writing /\ @ < MaxVersion THEN @ + 1 ELSE @]
      BY <1>1 DEF TypeOK, UserTypeOK
    <3> QED BY <1>1, <2>1, <2>2, <3>1 DEF TypeOK, ObjectTypeOK
  <2>3. CASE j # i
    BY <1>1, <2>3 DEF TypeOK, UserTypeOK, ObjectTypeOK
  <2> QED BY <2>2, <2>3
<1>4. /\ j # i => m_closed'[j] = m_closed[j]
      /\ m_closed'[i] = status \/ (status = "ClosedInFrontend" /\ m_closed'[i] = "Open")
  BY DEF closeIteration, startStep, TypeOK, ObjectTypeOK
<1>5. mem[j].attr \in Nat /\ disk[j][j].attr \in Nat
  BY ContentParts
<1>6. CASE j # i
  BY <1>1, <1>2, <1>3, <1>4, <1>6 DEF ObjectInv, Opened, dirtyRecursive, Unsaved, Writing
<1>7. CASE j = i
  <2>1. /\ InUse(m_closed'[i]) => Opened(i)' \/ dirtyRecursive(i)'
        /\ ~InUse(m_closed'[i]) => i \notin openFiles'
    <3>1. CASE InUse(m_closed[i])
      BY <1>1, <1>2, <1>3, <1>4, <1>7, <3>1 DEF ObjectInv, InUse, Opened, dirtyRecursive
    <3>2. CASE m_closed[i] = "ClosedInBackend"
      BY <1>1, <1>2, <1>3, <1>4, <1>7, <3>2 DEF ObjectInv, InUse
    <3>3. CASE m_closed[i] = "ClosedTemporarily"
      BY <1>1, <1>2, <1>3, <1>4, <1>7, <3>3 DEF ObjectInv, InUse, dirtyRecursive
    <3> QED BY <1>1, <1>7, <3>1, <3>2, <3>3 DEF InUse, CloseStatus
  <2>2. disk'[i][i].attr = mem'[i].attr \/ (dirty'[i] /\ Unsaved(i)')
    BY <1>1, <1>2, <1>3, <1>7 DEF ObjectInv, Unsaved, Writing
  <2>3. /\ disk'[i][i].attr <= mem'[i].attr /\ disk'[i][i].data <= mem'[i].data
        /\ disk'[i][i].data = mem'[i].data \/ (pending'[i] /\ Writing')
        /\ disk'[i][i].group = mem'[i].group \/ (groupDirty'[i] /\ Writing')
        /\ ~emptyRecord'[i]
    BY <1>1, <1>2, <1>3, <1>5, <1>7 DEF ObjectInv, Writing
  <2> QED BY <1>7, <2>1, <2>2, <2>3 DEF ObjectInv, InUse
<1> QED BY <1>6, <1>7

LEMMA CloseSettles ==
  ASSUME TypeOK, SettledInv, Idle, NEW i \in Iter, NEW now \in BOOLEAN, NEW next,
         closeIteration(i, now, next)
  PROVE  SettledInv' /\ phase' # "drain"
<1>1. \A j \in Iter : ObjectInv(j)'
  BY CloseKeeps
<1>2. CASE \E op \in {"end", "close"}, old \in CloseStatus : startFlush(op, i, old, next, {i})
  BY <1>1, <1>2, StartSettles
<1>3. CASE UNCHANGED <<phase, call, todo, failures>>
  <2>1. UNCHANGED access
    BY DEF closeIteration, storage, fixed
  <2> QED BY <1>1, <1>3, <2>1, UncalledSettles DEF Idle
<1>4. /\ \A s \in {"ClosedInBackend", "ClosedInFrontend"} : s \in CloseStatus
      /\ "Open" \in CloseStatus
  BY DEF CloseStatus
<1> QED BY <1>2, <1>3, <1>4 DEF closeIteration, startStep

LEMMA LeaveSettles ==
  ASSUME SettledInv, NEW r, leave(r), \A j \in Iter : ObjectInv(j)'
  PROVE  SettledInv' /\ phase' # "drain"
<1>1. call'.op = "none" /\ todo' = {} /\ phase' \in {"idle", "destroyed"}
  BY DEF leave, NoCall
<1> QED BY <1>1 DEF SettledInv, CallInv, Concerned, Flushed

LEMMA SelectSettles ==
  ASSUME TypeOK, NEW i \in Iter, select(i), \A j \in Iter : ObjectInv(j)'
  PROVE  SettledInv' /\ phase' # "drain"
<1>1. CASE startStep("begin", i, m_closed[i], None)
  BY <1>1, StartSettles DEF startStep
<1>2. CASE phase' = "idle" /\ call' = NoCall /\ todo' = {}
  BY <1>2 DEF SettledInv, CallInv, Concerned, Flushed, NoCall
<1> QED BY <1>1, <1>2 DEF select

LEMMA SelectKeeps ==
  ASSUME TypeOK, NEW i \in Iter, select(i), NEW j \in Iter
  PROVE  m_closed'[j] = m_closed[j] \/ (InUse(m_closed[j]) /\ InUse(m_closed'[j]))
BY StepKeeps DEF select

LEMMA CallSettles ==
  ASSUME LifecycleInv, SettledInv, CallAPI
  PROVE  SettledInv' /\ phase' # "drain"
<1>0. /\ TypeOK /\ iterations \subseteq Iter /\ currentlyOpen \in Iter \cup {None}
      /\ \A j \in Iter : ObjectInv(j)
  BY DEF LifecycleInv, SettledInv, TypeOK, ObjectTypeOK, UserTypeOK
<1>1. CASE Flush \/ FlushNothing \/ Destroy
  <2>1. UNCHANGED <<objects, mem, storage>>
    BY <1>1 DEF Flush, FlushNothing, Destroy, user
  <2>2. \A j \in Iter : ObjectInv(j)'
    BY <1>0, <2>1, ObjectKept DEF objects
  <2>3. CASE \E op \in {"flush", "destroy"} : startFlush(op, None, "Open", None, iterations)
    <3>1. iterations' = iterations
      BY <2>1 DEF objects
    <3> QED BY <1>0, <2>2, <2>3, <3>1, StartSettles
  <2>4. CASE FlushNothing
    <3>1. UNCHANGED <<phase, call, todo, access>> /\ Idle
      BY <2>4 DEF FlushNothing, storage, fixed
    <3> QED BY <2>2, <3>1, UncalledSettles DEF Idle
  <2>5. CASE phase' = "destroyed" /\ UNCHANGED <<call, todo>> /\ Idle
    BY <2>2, <2>5, NoneCalled DEF SettledInv, CallInv, Concerned, Flushed
  <2> QED BY <1>1, <2>3, <2>4, <2>5 DEF Flush, Destroy
<1>2. ASSUME NEW i \in Iter, Open(i) PROVE SettledInv' /\ phase' # "drain"
  <2>1. /\ UNCHANGED <<storage, mem, pending, groupDirty, emptyRecord, m_closed, iterations>>
        /\ \A j \in Iter : dirty[j] => dirty'[j]
        /\ startFlush("open", i, "Open", None, {i})
    BY <1>0, <1>2 DEF Open, user, TypeOK, ObjectTypeOK
  <2>2. \A j \in Iter : ObjectInv(j)'
    BY <1>0, <2>1, ObjectKept
  <2> QED BY <2>1, <2>2, StartSettles
<1>3. ASSUME NEW i \in Iter, NEW now \in BOOLEAN, Close(i, now)
      PROVE  SettledInv' /\ phase' # "drain"
  BY <1>0, <1>3, CloseSettles DEF Close
<1>4. ASSUME NEW i \in Iter, SwitchTo(i) PROVE SettledInv' /\ phase' # "drain"
  <2>1. CASE select(i) /\ UNCHANGED <<dirty, pending, groupDirty, emptyRecord, mem, storage>>
    <3>1. \A j \in Iter : ObjectInv(j)'
      BY <1>0, <1>4, <2>1, ObjectKept, SelectKeeps DEF SwitchTo
    <3> QED BY <1>0, <2>1, <3>1, SelectSettles
  <2>2. CASE currentlyOpen # None /\ closeIteration(currentlyOpen, TRUE, i)
    BY <1>0, <1>4, <2>2, CloseSettles DEF SwitchTo
  <2> QED BY <1>4, <2>1, <2>2 DEF SwitchTo
<1>5. ASSUME NEW i \in Iter, startStep("begin", i, m_closed[i], None),
             UNCHANGED <<storage, mem, dirty, pending, groupDirty, emptyRecord, iterations>>
      PROVE  SettledInv' /\ phase' # "drain"
  <2>1. \A j \in Iter : ObjectInv(j)'
    BY <1>0, <1>5, ObjectKept, StepKeeps
  <2> QED BY <1>5, <2>1, StartSettles DEF startStep
<1>6. ASSUME NEW i \in Iter, ReadFirst(i) PROVE SettledInv' /\ phase' # "drain"
  BY <1>5, <1>6 DEF ReadFirst, user
<1>7. ASSUME NEW i \in Iter \cup {None}, ReadNext(i) PROVE SettledInv' /\ phase' # "drain"
  <2>1. CASE ~closed(currentlyOpen)
    BY <1>0, <1>7, <2>1, CloseSettles DEF ReadNext
  <2>2. CASE closed(currentlyOpen)
    BY <1>5, <1>7, <2>2 DEF ReadNext
  <2> QED BY <2>1, <2>2
<1> QED BY <1>1, <1>2, <1>3, <1>4, <1>6, <1>7 DEF CallAPI

LEMMA AfterCallKeeps ==
  ASSUME LifecycleInv, SettledInv, phase = "return", afterCall, NEW j \in Iter,
         m_closed'[j] = m_closed[j] \/ (InUse(m_closed[j]) /\ InUse(m_closed'[j])),
         Writing \/ iterations' = iterations
  PROVE  ObjectInv(j)'
<1>0. /\ UNCHANGED <<storage, mem, pending, groupDirty, emptyRecord>> /\ ObjectInv(j)
      /\ dirty' = IF call.op = "open" THEN [dirty EXCEPT ![call.it] = FALSE] ELSE dirty
      /\ dirty \in [Iter -> BOOLEAN]
  BY DEF afterCall, SettledInv, LifecycleInv, TypeOK, ObjectTypeOK
<1>1. CASE dirty[j] => dirty'[j]
  BY <1>0, <1>1, ObjectKept
<1>2. CASE dirty[j] /\ ~dirty'[j]
  <2>1. call.op = "open" /\ call.it = j
    BY <1>0, <1>2
  <2>2. FlushedOK(j)
    BY <2>1 DEF SettledInv, CallInv, Flushed, Concerned
  <2>3. ~Writing /\ j \in iterations
    BY <1>2, <2>1, <2>2, NoneAssumption DEF FlushedOK, LifecycleInv, ReaderFindsAll
  <2>4. UNCHANGED <<openFiles, iterationFile, disk, access>>
    BY <1>0 DEF storage, files, assocs, fixed
  <2> QED BY <1>0, <2>2, <2>3, <2>4 DEF ObjectInv, FlushedOK, InUse, Opened, Unsaved, Writing
<1> QED BY <1>1, <1>2

-----------------------------------------------------------------------------
(* The steps of a call that neither enqueue tasks nor execute them.        *)

\* A step within a call that changes at most how far its flush has come.
LEMMA ProgressSettles ==
  ASSUME SettledInv,
         UNCHANGED <<storage, mem, m_closed, dirty, pending, groupDirty, emptyRecord,
                     iterations, call>>,
         todo' \subseteq todo, CallInv',
         \A j \in Iter : Flushed(j)' => Flushed(j) \/ FlushedOK(j)
  PROVE  SettledInv'
<1>1. UNCHANGED <<openFiles, iterationFile, disk, access>>
  BY DEF storage, files, assocs, fixed
<1>2. \A j \in Iter : ObjectInv(j)'
  BY ObjectKept DEF SettledInv
<1>3. \A j \in Iter : FlushedOK(j) => FlushedOK(j)'
  BY <1>1 DEF FlushedOK, Opened, Writing
<1>4. todo' \subseteq {j \in Iter : Concerned(j)'}
  BY DEF SettledInv, Concerned
<1> QED BY <1>2, <1>3, <1>4 DEF SettledInv

LEMMA TurnSettles ==
  ASSUME LifecycleInv, SettledInv,
         \/ FlushDone \/ StepOnClosed \/ LastDrained \/ Return \/ ReturnToLoop
         \/ \E i \in Iter : RejectUnwritten(i) \/ RejectAccess(i) \/ SkipClosed(i) \/ Drained(i)
  PROVE  SettledInv' /\ phase' # "drain"
<1>0. /\ TypeOK /\ iterations \subseteq Iter /\ \A j \in Iter : ObjectInv(j)
      /\ call.next \in Iter \cup {None}
  BY DEF LifecycleInv, SettledInv, TypeOK, ObjectTypeOK, ControlTypeOK, Call
<1>1. ASSUME NEW i \in Iter, RejectUnwritten(i) \/ RejectAccess(i)
      PROVE  SettledInv' /\ phase' # "drain"
  <2>1. UNCHANGED <<objects, mem, storage>> /\ \E r : leave(r)
    BY <1>1 DEF RejectUnwritten, RejectAccess, user
  <2>2. \A j \in Iter : ObjectInv(j)'
    BY <1>0, <2>1, ObjectKept DEF objects
  <2> QED BY <2>1, <2>2, LeaveSettles
<1>2. ASSUME NEW i \in Iter, SkipClosed(i) PROVE SettledInv' /\ phase' # "drain"
  <2>1. /\ UNCHANGED <<storage, mem, m_closed, dirty, pending, groupDirty, emptyRecord,
                       iterations, call, phase>>
        /\ phase = "flush" /\ todo' = todo \ {i}
        /\ m_closed[i] = "ClosedInBackend" /\ ~dirtyRecursive(i)
    BY <1>2 DEF SkipClosed, Reached, objects, user
  <2>2. CallInv'
    BY <2>1 DEF CallInv
  <2>3. FlushedOK(i)
    BY <2>1 DEF FlushedOK, dirtyRecursive
  <2>4. ASSUME NEW j \in Iter, Flushed(j)' PROVE Flushed(j) \/ FlushedOK(j)
    <3>1. CASE j = i
      BY <2>3, <3>1
    <3>2. CASE j # i
      BY <2>1, <2>4, <3>2 DEF Flushed, Concerned, AtWork
    <3> QED BY <3>1, <3>2
  <2> QED BY <2>1, <2>2, <2>4, ProgressSettles
<1>3. ASSUME NEW i \in Iter, Drained(i) PROVE SettledInv' /\ phase' # "drain"
  <2>1. /\ UNCHANGED <<storage, mem, m_closed, dirty, pending, groupDirty, emptyRecord,
                       iterations, call>>
        /\ phase = "drain" /\ phase' = "flush" /\ todo' = todo \ {i} /\ AtWork(i)
    BY <1>3 DEF Drained, user, AtWork
  <2>2. CallInv'
    BY <2>1 DEF CallInv
  <2>3. ASSUME NEW j \in Iter, Flushed(j)' PROVE Flushed(j)
    BY <2>1, <2>3 DEF Flushed, Concerned, AtWork
  <2> QED BY <2>1, <2>2, <2>3, ProgressSettles
<1>4. CASE FlushDone \/ StepOnClosed \/ LastDrained
  <2>1. /\ UNCHANGED <<storage, mem, m_closed, dirty, pending, groupDirty, emptyRecord,
                       iterations, call, todo>>
        /\ phase' \in {"last", "return"} /\ todo = {}
        /\ \/ phase = "last" \/ call.op \notin {"begin", "end"} \/ call.old = "ClosedInBackend"
    BY <1>4 DEF FlushDone, StepOnClosed, LastDrained, LoopDone, flushEnds, objects, user,
       SettledInv, CallInv
  <2>2. CallInv'
    BY <2>1 DEF SettledInv, CallInv, closed
  <2>3. ASSUME NEW j \in Iter, Flushed(j)' PROVE Flushed(j)
    BY <2>1, <2>3 DEF Flushed, Concerned
  <2> QED BY <2>1, <2>2, <2>3, ProgressSettles
<1>5. CASE Return
  <2>1. \A j \in Iter : ObjectInv(j)'
    BY <1>5, AfterCallKeeps DEF Return
  <2> QED BY <1>5, <2>1, LeaveSettles DEF Return
<1>6. CASE ReturnToLoop
  <2>1. call.next \in Iter
    BY <1>0, <1>6 DEF ReturnToLoop
  <2>2. CASE Writing /\ select(call.next)
    <3>1. \A j \in Iter : ObjectInv(j)'
      BY <1>0, <1>6, <2>1, <2>2, AfterCallKeeps, SelectKeeps DEF ReturnToLoop
    <3> QED BY <1>0, <2>1, <2>2, <3>1, SelectSettles
  <2>3. CASE startStep("begin", call.next, m_closed[call.next], None) /\ iterations' = iterations
    <3>1. \A j \in Iter : ObjectInv(j)'
      BY <1>0, <1>6, <2>1, <2>3, AfterCallKeeps, StepKeeps DEF ReturnToLoop
    <3> QED BY <2>1, <2>3, <3>1, StartSettles DEF startStep
  <2> QED BY <1>6, <2>2, <2>3 DEF ReturnToLoop
<1> QED BY <1>1, <1>2, <1>3, <1>4, <1>5, <1>6

-----------------------------------------------------------------------------
(* The tasks a flush enqueues.                                             *)

Holds(s, t) == \E k \in DOMAIN s : s[k] = t

LEMMA HoldsConcat ==
  ASSUME NEW S, NEW a \in Seq(S), NEW b \in Seq(S), NEW t, Holds(a, t) \/ Holds(b, t)
  PROVE  Holds(a \o b, t)
<1>1. /\ Len(a) \in Nat /\ Len(b) \in Nat /\ DOMAIN a = 1 .. Len(a) /\ DOMAIN b = 1 .. Len(b)
      /\ a \o b \in Seq(S) /\ DOMAIN (a \o b) = 1 .. Len(a) + Len(b)
      /\ \A k \in 1 .. Len(a) : (a \o b)[k] = a[k]
      /\ \A k \in 1 .. Len(b) : (a \o b)[Len(a) + k] = b[k]
  OBVIOUS
<1>2. CASE Holds(a, t)
  <2>1. PICK k \in 1 .. Len(a) : a[k] = t
    BY <1>1, <1>2 DEF Holds
  <2> QED BY <1>1, <2>1 DEF Holds
<1>3. CASE Holds(b, t)
  <2>1. PICK k \in 1 .. Len(b) : b[k] = t
    BY <1>1, <1>3 DEF Holds
  <2>2. Len(a) + k \in 1 .. Len(a) + Len(b)
    BY <1>1
  <2> QED BY <1>1, <2>1, <2>2 DEF Holds
<1> QED BY <1>2, <1>3

\* Tasks of i that prepare nothing and write nothing but its newest version.
Current(i) ==
  {t \in IOTask : /\ t.it = i
                  /\ t.op \notin FileTasks \cup PathTasks
                  /\ t.op = "WRITE_ATT" => t.ver = mem[i].attr
                  /\ t.op = "WRITE_DATASET" => t.ver = mem[i].data
                  /\ t.op = "WRITE_GROUP_ATT" => t.ver = mem[i].group}

LEMMA CurrentTask ==
  ASSUME NEW i \in Iter, NEW o \in Operation, NEW v \in Version,
         o \notin FileTasks \cup PathTasks,
         o = "WRITE_ATT" => v = mem[i].attr,
         o = "WRITE_DATASET" => v = mem[i].data,
         o = "WRITE_GROUP_ATT" => v = mem[i].group
  PROVE  VersionTask(o, i, v) \in Current(i)
BY TaskType DEF Current, VersionTask

LEMMA CurrentWhen ==
  ASSUME NEW S, NEW c, NEW t \in S
  PROVE  When(c, t) \in Seq(S) /\ (c => Holds(When(c, t), t))
BY DEF When, Holds

LEMMA CurrentBody ==
  ASSUME TypeOK, NEW i \in Iter
  PROVE  /\ meshesTasks(i) \in Seq(Current(i)) /\ chunkTasks(i) \in Seq(Current(i))
         /\ attributeTasks(i) \in Seq(Current(i))
         /\ Writing /\ pending[i] =>
              Holds(chunkTasks(i), VersionTask("WRITE_DATASET", i, mem[i].data))
         /\ dirty[i] => Holds(attributeTasks(i), VersionTask("WRITE_ATT", i, mem[i].attr))
         /\ groupDirty[i] /\ flushesMeshes(i) =>
              Holds(meshesTasks(i), VersionTask("WRITE_GROUP_ATT", i, mem[i].group))
<1>0. /\ mem[i].data \in Version /\ mem[i].attr \in Version /\ mem[i].group \in Version
      /\ seriesAttr \in Version /\ 0 \in Version
  BY VersionAssumption DEF TypeOK, UserTypeOK, Content, Version
<1> DEFINE d == VersionTask("WRITE_DATASET", i, mem[i].data)
           r == Task("READ_DATASET", i)
           g == VersionTask("WRITE_GROUP_ATT", i, mem[i].group)
           a == VersionTask("WRITE_ATT", i, mem[i].attr)
           b == Task("CREATE_BASEPATH", i)
           s == VersionTask("WRITE_SERIES_ATT", i, seriesAttr)
           m == Task("WRITE_MESHES_PATH", i)
<1>1. d \in Current(i) /\ r \in Current(i) /\ g \in Current(i) /\ a \in Current(i)
      /\ b \in Current(i) /\ s \in Current(i) /\ m \in Current(i)
  <2>1. \A o \in Operation : Task(o, i) = VersionTask(o, i, 0)
    BY DEF Task, VersionTask
  <2> QED BY <1>0, <2>1, CurrentTask DEF Operation, FileTasks, PathTasks
<1> HIDE DEF d, r, g, a, b, s, m
<1>2. chunkTasks(i) \in Seq(Current(i)) /\ (Writing /\ pending[i] => Holds(chunkTasks(i), d))
  BY <1>1, CurrentWhen DEF chunkTasks, d, r
<1>3. /\ attributeTasks(i) \in Seq(Current(i))
      /\ dirty[i] => Holds(attributeTasks(i), a)
  <2> DEFINE A == When(dirty[i], a)
             B == <<b>>
             S == When(seriesDirty \/ dirty[i] \/ flushesMeshes(i) # meshesPath, s)
  <2>1. /\ A \in Seq(Current(i)) /\ S \in Seq(Current(i))
        /\ dirty[i] => Holds(A, a)
    BY <1>1, CurrentWhen
  <2>2. B \in Seq(Current(i))
    BY <1>1
  <2>3. attributeTasks(i) = A \o B \o S
    BY DEF attributeTasks, a, b, s
  <2> HIDE DEF A, B, S
  <2>4. /\ A \o B \in Seq(Current(i))
        /\ dirty[i] => Holds(A \o B, a)
    BY <2>1, <2>2, SeqConcat, HoldsConcat
  <2> DEFINE X == A \o B
  <2>6. attributeTasks(i) = X \o S
    BY <2>3
  <2>7. X \in Seq(Current(i)) /\ (dirty[i] => Holds(X, a))
    BY <2>4
  <2> HIDE DEF X
  <2>8. X \o S \in Seq(Current(i))
    BY <2>1, <2>7, SeqConcat
  <2>9. ASSUME NEW t, Holds(X, t) PROVE Holds(X \o S, t)
    BY <2>1, <2>7, <2>9, HoldsConcat
  <2> QED BY <2>6, <2>7, <2>8, <2>9
<1>4. /\ meshesTasks(i) \in Seq(Current(i))
      /\ groupDirty[i] /\ flushesMeshes(i) => Holds(meshesTasks(i), g)
  <2> DEFINE M == <<m>>
             G == When(groupDirty[i], g)
  <2>1. /\ M \in Seq(Current(i)) /\ G \in Seq(Current(i))
        /\ groupDirty[i] => Holds(G, g)
    BY <1>1, CurrentWhen
  <2>2. meshesTasks(i) = IF flushesMeshes(i) THEN M \o G ELSE <<>>
    BY DEF meshesTasks, m, g
  <2> HIDE DEF M, G
  <2>3. M \o G \in Seq(Current(i)) /\ (groupDirty[i] => Holds(M \o G, g))
    BY <2>1, SeqConcat, HoldsConcat
  <2> QED BY <2>2, <2>3
<1> QED BY <1>2, <1>3, <1>4 DEF d, a, g

\* A prologue, and behind it current tasks of i.
Begun(p, i, q) ==
  /\ q \in Seq(IOTask) /\ Len(q) >= 3
  /\ q[1] = p[1] /\ q[2] = p[2] /\ q[3] = p[3]
  /\ \A k \in 1 .. Len(q) : k > 3 => q[k] \in Current(i)

LEMMA BegunConcat ==
  ASSUME NEW p, NEW i, NEW q, Begun(p, i, q), NEW b \in Seq(Current(i))
  PROVE  Begun(p, i, q \o b)
<1>1. q \in Seq(IOTask) /\ b \in Seq(IOTask)
  BY DEF Begun, Current
<1>2. /\ Len(q) \in Nat /\ Len(b) \in Nat /\ q \o b \in Seq(IOTask)
      /\ Len(q \o b) = Len(q) + Len(b)
      /\ \A k \in 1 .. Len(q) : (q \o b)[k] = q[k]
      /\ \A k \in 1 .. Len(q) + Len(b) :
           k > Len(q) => k - Len(q) \in 1 .. Len(b) /\ (q \o b)[k] = b[k - Len(q)]
  BY <1>1, SeqConcat, SeqElements
<1>3. \A k \in 1 .. Len(b) : b[k] \in Current(i)
  BY SeqElements
<1>4. /\ Len(q) >= 3
      /\ q[1] = p[1] /\ q[2] = p[2] /\ q[3] = p[3]
      /\ \A k \in 1 .. Len(q) : k > 3 => q[k] \in Current(i)
  BY DEF Begun
<1>5. 1 \in 1 .. Len(q) /\ 2 \in 1 .. Len(q) /\ 3 \in 1 .. Len(q)
  BY <1>2, <1>4
<1>6. ASSUME NEW k \in 1 .. Len(q \o b), k > 3
      PROVE  (q \o b)[k] \in Current(i)
  <2>1. CASE k <= Len(q)
    BY <1>2, <1>4, <1>6, <2>1
  <2>2. CASE k > Len(q)
    BY <1>2, <1>3, <2>2
  <2> QED BY <1>2, <2>1, <2>2
<1> QED BY <1>2, <1>4, <1>5, <1>6 DEF Begun

LEMMA BegunPrologue ==
  ASSUME NEW i \in Iter
  PROVE  /\ Begun(openIteration(i), i, openIteration(i))
         /\ Begun(createIteration(i), i, createIteration(i))
<1>1. \A o \in Operation : Task(o, i) \in IOTask
  BY TaskType, VersionAssumption DEF Version
<1>2. /\ openIteration(i) \in Seq(IOTask) /\ Len(openIteration(i)) = 3
      /\ createIteration(i) \in Seq(IOTask) /\ Len(createIteration(i)) = 3
  BY <1>1 DEF openIteration, createIteration, Operation
<1> QED BY <1>2 DEF Begun

\* What holds once tasks of i have been put into the empty queue.
Enqueued(i, q) ==
  /\ q \in Seq(IOTask) /\ m_work' = q
  /\ \A k \in 1 .. Len(q) :
       /\ q[k].it = i
       /\ q[k].op = "CLOSE_FILE" => k = Len(q)
       /\ q[k].op = "WRITE_ATT" => q[k].ver = mem[i].attr
       /\ q[k].op = "WRITE_DATASET" => q[k].ver = mem[i].data
       /\ q[k].op = "WRITE_GROUP_ATT" => q[k].ver = mem[i].group

LEMMA BegunEnqueued ==
  ASSUME NEW i \in Iter, NEW p \in {openIteration(i), createIteration(i)}, NEW q,
         Begun(p, i, q), NEW closing \in BOOLEAN, Closes(i, closing, q), m_work' = q
  PROVE  /\ Enqueued(i, q)
         /\ Preparing(3)'
         /\ PathQueued(i)'
<1>1. /\ q \in Seq(IOTask) /\ Len(q) >= 3 /\ Len(q) \in Nat /\ DOMAIN q = 1 .. Len(q)
      /\ q[1] = p[1] /\ q[2] = p[2] /\ q[3] = p[3]
      /\ \A k \in 1 .. Len(q) : k > 3 => q[k] \in Current(i)
  BY SeqElements DEF Begun
<1>2. /\ q[1].op \in FileTasks /\ q[2].op \in BasePathTasks /\ q[3].op \in PathTasks
      /\ q[3].it = i
  BY <1>1 DEF openIteration, createIteration, Task, FileTasks, BasePathTasks, PathTasks
<1>3. /\ \A k \in 1 .. Len(q) : q[k].it = i
      /\ \A k \in 1 .. Len(q) : q[k].op = "CLOSE_FILE" => k = Len(q)
  BY DEF Closes
<1>4. ASSUME NEW k \in 1 .. Len(q)
      PROVE  /\ q[k].op = "WRITE_ATT" => q[k].ver = mem[i].attr
             /\ q[k].op = "WRITE_DATASET" => q[k].ver = mem[i].data
             /\ q[k].op = "WRITE_GROUP_ATT" => q[k].ver = mem[i].group
  <2>1. CASE k > 3
    BY <1>1, <2>1 DEF Current
  <2>2. CASE k <= 3
    <3>1. k = 1 \/ k = 2 \/ k = 3
      BY <1>1, <2>2
    <3> QED BY <1>2, <3>1 DEF FileTasks, BasePathTasks, PathTasks
  <2> QED BY <1>1, <2>1, <2>2
<1>5. Enqueued(i, q)
  BY <1>1, <1>3, <1>4 DEF Enqueued
<1>6. Preparing(3)'
  <2>1. \A k \in 1 .. Len(q) : k > 3 => q[k].op \notin FileTasks \cup PathTasks
    BY <1>1 DEF Current
  <2> QED BY <1>1, <1>2, <2>1 DEF Preparing
<1>7. PathQueued(i)'
  <2>1. 3 \in DOMAIN m_work'
    BY <1>1
  <2> QED BY <1>2, <2>1 DEF PathQueued
<1> QED BY <1>5, <1>6, <1>7

-----------------------------------------------------------------------------
(* The steps that put tasks into the empty queue.                          *)

LEMMA EnqueueWorks ==
  ASSUME SettledInv, ExistInv, m_work = <<>>, NEW i \in Iter, NEW q, Enqueued(i, q),
         UNCHANGED <<written, assocs, files, fixed, iterations, call, todo, mem, emptyRecord>>,
         \/ phase' = "drain" /\ Least(i, todo)
         \/ phase' = "last" /\ call.op \in {"begin", "end"} /\ call.it = i,
         PrologueInv', CallInv',
         \A j \in Iter \ {i} : /\ m_closed'[j] = m_closed[j] /\ dirty'[j] = dirty[j]
                               /\ pending'[j] = pending[j] /\ groupDirty'[j] = groupDirty[j],
         Writing => ~dirty'[i] /\ ~pending'[i],
         InUse(m_closed'[i]) => Opened(i) \/ PathQueued(i)',
         m_closed'[i] = "ClosedTemporarily" => i \notin openFiles /\ q = <<>>,
         m_closed'[i] = "ClosedInBackend" =>
           i \notin openFiles \/ Queued(Task("CLOSE_FILE", i))',
         dirty[i] => dirty'[i] \/ Holds(q, VersionTask("WRITE_ATT", i, mem[i].attr)),
         pending[i] /\ Writing =>
           pending'[i] \/ Holds(q, VersionTask("WRITE_DATASET", i, mem[i].data)),
         groupDirty[i] =>
           groupDirty'[i] \/ Holds(q, VersionTask("WRITE_GROUP_ATT", i, mem[i].group))
  PROVE  WorkflowInv'
<1>0. /\ UNCHANGED <<seriesFile, basePathFile, iterationFile, openFiles, onDisk, disk, access>>
      /\ DOMAIN q = 1 .. Len(q) /\ m_work' = q /\ DOMAIN m_work = {}
  BY SeqElements DEF assocs, files, fixed, Enqueued
<1>1. TasksInv'
  <2>1. AtWork(i)'
    BY DEF AtWork, Least
  <2>2. \A k \in DOMAIN m_work' : /\ m_work'[k].it = i /\ m_closed'[i] # "ClosedTemporarily"
                                  /\ m_work'[k].op = "CLOSE_FILE" => k = Len(m_work')
    BY <1>0 DEF Enqueued
  <2>3. /\ phase' \in {"drain", "last"}
        /\ phase' = "drain" => \E j \in Iter : Least(j, todo')
    BY DEF Least
  <2> QED BY <2>1, <2>2, <2>3 DEF TasksInv, Draining, AtWork, Least
<1>2. ExistInv'
  BY <1>0 DEF ExistInv, PathQueued
<1>3. ASSUME NEW j \in Iter \ {i} PROVE ObjectInv(j)'
  <2>1. ObjectInv(j)
    BY DEF SettledInv
  <2> QED BY <1>0, <2>1 DEF ObjectInv, Opened, dirtyRecursive, Unsaved, Writing
<1>4. OpenInv'
  <2>1. ASSUME NEW j \in Iter
        PROVE  /\ m_closed'[j] \in {"Open", "ClosedInFrontend"} =>
                    Opened(j)' \/ dirtyRecursive(j)' \/ PathQueued(j)'
               /\ m_closed'[j] = "ClosedTemporarily" => j \notin openFiles'
               /\ m_closed'[j] = "ClosedInBackend" =>
                    j \notin openFiles' \/ Queued(Task("CLOSE_FILE", j))'
    <3>1. CASE j = i
      BY <1>0, <3>1 DEF InUse, Opened, Queued, Task
    <3>2. CASE j # i
      BY <1>3, <3>2 DEF ObjectInv
    <3> QED BY <3>1, <3>2
  <2> QED BY <2>1 DEF OpenInv, Queued, Task
<1>5. FlushedInv'
  <2>1. todo' \subseteq {j \in Iter : Concerned(j)'}
    BY DEF SettledInv, Concerned
  <2>2. ASSUME NEW j \in Iter, Flushed(j)'
        PROVE  /\ Writing' => ~dirty'[j] /\ ~pending'[j]
               /\ m_closed'[j] \in {"Open", "ClosedInFrontend"} => Opened(j)' \/ PathQueued(j)'
    <3>1. CASE j = i
      BY <1>0, <3>1 DEF InUse, Opened, Writing
    <3>2. CASE j # i
      <4>1. ~AtWork(j)'
        BY <3>2, LeastUnique DEF AtWork
      <4>2. Flushed(j)
        BY <2>2, <4>1 DEF Flushed, Concerned
      <4>3. FlushedOK(j)
        BY <4>2 DEF SettledInv
      <4> QED BY <1>0, <3>2, <4>3 DEF FlushedOK, Opened, Writing
    <3> QED BY <3>1, <3>2
  <2> QED BY <2>1, <2>2 DEF FlushedInv
<1>6. ValueInv'
  <2>1. ASSUME NEW j \in Iter
        PROVE  /\ \/ disk[j][j].attr = mem[j].attr
                  \/ dirty'[j] /\ Unsaved(j)
                  \/ Holds(q, VersionTask("WRITE_ATT", j, mem[j].attr))
               /\ \/ disk[j][j].data = mem[j].data
                  \/ pending'[j] /\ Writing
                  \/ Holds(q, VersionTask("WRITE_DATASET", j, mem[j].data))
               /\ \/ disk[j][j].group = mem[j].group
                  \/ groupDirty'[j] /\ Writing
                  \/ Holds(q, VersionTask("WRITE_GROUP_ATT", j, mem[j].group))
    <3>1. ObjectInv(j)
      BY DEF SettledInv
    <3>2. CASE j = i
      BY <3>1, <3>2 DEF ObjectInv
    <3>3. CASE j # i
      BY <3>1, <3>3 DEF ObjectInv
    <3> QED BY <3>2, <3>3
  <2>2. \A t : Holds(q, t) <=> \E k \in DOMAIN m_work' : m_work'[k] = t
    BY <1>0 DEF Holds
  <2>3. mem' = mem /\ disk' = disk /\ (Writing' <=> Writing) /\ \A j : Unsaved(j)' <=> Unsaved(j)
    BY <1>0 DEF Unsaved, Writing
  <2> QED BY <2>1, <2>2, <2>3 DEF ValueInv, Queued, VersionTask
<1>7. VersionInv'
  <2>1. \A j \in Iter : disk[j][j].attr <= mem[j].attr /\ disk[j][j].data <= mem[j].data
    BY DEF SettledInv, ObjectInv
  <2>2. \A k \in DOMAIN q : /\ q[k].op = "WRITE_ATT" => q[k].ver = mem[q[k].it].attr
                            /\ q[k].op = "WRITE_DATASET" => q[k].ver = mem[q[k].it].data
                            /\ q[k].op = "WRITE_GROUP_ATT" => q[k].ver = mem[q[k].it].group
    BY <1>0 DEF Enqueued
  <2> QED BY <1>0, <2>1, <2>2 DEF VersionInv
<1>8. \A j \in Iter : ~emptyRecord'[j]
  BY DEF SettledInv, ObjectInv
<1> QED BY <1>1, <1>2, <1>4, <1>5, <1>6, <1>7, <1>8 DEF WorkflowInv

LEMMA BegunPrepares ==
  ASSUME ExistInv, m_work = <<>>, NEW i \in Iter, Least(i, todo), todo' = todo,
         phase' = "drain", UNCHANGED <<written, files>>,
         NEW q, NEW closing \in BOOLEAN, Closes(i, closing, q), m_work' = q,
         \/ Begun(openIteration(i), i, q) /\ written[i]
         \/ /\ Begun(createIteration(i), i, q) /\ ~written[i]
            /\ ~seriesWritten' /\ ~basePathWritten'
  PROVE  PrologueInv'
<1>1. Preparing(3)'
  BY BegunEnqueued
<1>2. i \in onDisk <=> written[i]
  BY DEF ExistInv, PathQueued
<1>3. Prepared(3, i)'
  <2>1. CASE Begun(openIteration(i), i, q) /\ written[i]
    <3>1. /\ m_work'[1].op = "OPEN_FILE" /\ m_work'[2].op = "OPEN_BASEPATH"
          /\ m_work'[3].op = "OPEN_PATH"
      BY <2>1 DEF Begun, openIteration, Task
    <3> QED BY <1>2, <2>1, <3>1 DEF Prepared, files
  <2>2. CASE ~written[i] /\ ~seriesWritten' /\ ~basePathWritten' /\ Begun(createIteration(i), i, q)
    <3>1. m_work'[1].op = "CREATE_FILE"
      BY <2>2 DEF Begun, createIteration, Task
    <3> QED BY <1>2, <2>2, <3>1 DEF Prepared, files
  <2> QED BY <2>1, <2>2
<1>4. \A j \in Iter : AtWork(j)' => j = i
  BY LeastUnique DEF AtWork
<1> QED BY <1>1, <1>3, <1>4 DEF PrologueInv

LEMMA WriteWorks ==
  ASSUME LifecycleInv, SettledInv, ExistInv, m_work = <<>>, NEW i \in Iter, WriteIteration(i)
  PROVE  WorkflowInv'
<1> DEFINE closing == reopened(i) = "ClosedInFrontend"
           c == prologue(i) \o meshesTasks(i)
           a == c \o chunkTasks(i)
           b == a \o attributeTasks(i)
           q == b \o When(closing, Task("CLOSE_FILE", i))
           d == VersionTask("WRITE_DATASET", i, mem[i].data)
           g == VersionTask("WRITE_GROUP_ATT", i, mem[i].group)
           t == VersionTask("WRITE_ATT", i, mem[i].attr)
<1>0. /\ TypeOK /\ Writing /\ phase = "flush" /\ phase' = "drain" /\ Least(i, todo)
      /\ m_closed[i] # "ClosedInBackend" /\ m_closed[i] \in CloseStatus
      /\ m_work' = m_work \o q
      /\ m_closed' = [m_closed EXCEPT ![i] = IF closing THEN "ClosedInBackend" ELSE reopened(i)]
      /\ ~seriesWritten' /\ ~basePathWritten'
      /\ dirty' = [dirty EXCEPT ![i] = FALSE]
      /\ pending' = [pending EXCEPT ![i] = FALSE]
      /\ groupDirty' = [groupDirty EXCEPT ![i] = @ /\ ~flushesMeshes(i)]
      /\ UNCHANGED <<written, assocs, files, fixed, iterations, call, todo, mem, emptyRecord>>
  BY DEF WriteIteration, writeTasks, enqueueAndClose, enqueue, Reached, toFlush, LifecycleInv, TypeOK,
     ObjectTypeOK, user
<1>1. \E p \in {openIteration(i), createIteration(i)} :
        /\ p = prologue(i) /\ Begun(p, i, p)
        /\ \/ p = openIteration(i) /\ written[i]
           \/ p = createIteration(i) /\ ~written[i]
  BY BegunPrologue DEF prologue
<1>2. PICK p \in {openIteration(i), createIteration(i)} :
        /\ p = prologue(i) /\ Begun(p, i, p)
        /\ \/ p = openIteration(i) /\ written[i]
           \/ p = createIteration(i) /\ ~written[i]
  BY <1>1
<1>3. /\ chunkTasks(i) \in Seq(Current(i)) /\ attributeTasks(i) \in Seq(Current(i))
      /\ meshesTasks(i) \in Seq(Current(i))
      /\ pending[i] => Holds(chunkTasks(i), d)
      /\ dirty[i] => Holds(attributeTasks(i), t)
      /\ groupDirty[i] /\ flushesMeshes(i) => Holds(meshesTasks(i), g)
  BY <1>0, CurrentBody
<1>4. When(closing, Task("CLOSE_FILE", i)) \in Seq(Current(i))
  <2>1. Task("CLOSE_FILE", i) = VersionTask("CLOSE_FILE", i, 0) /\ 0 \in Version
    BY VersionAssumption DEF Task, VersionTask, Version
  <2>2. Task("CLOSE_FILE", i) \in Current(i)
    BY <2>1, CurrentTask DEF Operation, FileTasks, PathTasks
  <2> QED BY <2>2, CurrentWhen
<1> DEFINE w == When(closing, Task("CLOSE_FILE", i))
<1>5. Closes(i, closing, q)
  <2>1. WorkOf(i, b)
    BY <1>0, WorkOfFlush, WorkConcat
  <2> HIDE DEF b
  <2> QED BY <2>1, ClosingTasks
<1> HIDE DEF d, g, t, closing, w
<1>6. Begun(p, i, c) /\ Begun(p, i, a) /\ Begun(p, i, b) /\ Begun(p, i, q)
  <2>0. Begun(p, i, c)
    BY <1>2, <1>3, BegunConcat
  <2> HIDE DEF c
  <2>1. Begun(p, i, a)
    BY <1>3, <2>0, BegunConcat
  <2> HIDE DEF a
  <2>2. Begun(p, i, b)
    BY <1>3, <2>1, BegunConcat
  <2> HIDE DEF b
  <2>3. Begun(p, i, b \o w)
    BY <1>4, <2>2, BegunConcat DEF w
  <2> QED BY <2>0, <2>1, <2>2, <2>3 DEF w
<1>7. /\ p \in Seq(IOTask) /\ chunkTasks(i) \in Seq(IOTask) /\ attributeTasks(i) \in Seq(IOTask)
      /\ meshesTasks(i) \in Seq(IOTask) /\ c \in Seq(IOTask)
      /\ a \in Seq(IOTask) /\ b \in Seq(IOTask) /\ q \in Seq(IOTask) /\ w \in Seq(IOTask)
  BY <1>2, <1>3, <1>4, <1>6 DEF Begun, Current, w
<1>8. /\ pending[i] => Holds(q, d)
      /\ dirty[i] => Holds(q, t)
      /\ groupDirty[i] /\ flushesMeshes(i) => Holds(q, g)
  <2>0. ASSUME NEW x, Holds(meshesTasks(i), x) PROVE Holds(c, x)
    BY <1>2, <1>7, <2>0, HoldsConcat
  <2> HIDE DEF c
  <2>1. ASSUME NEW x, Holds(c, x) \/ Holds(chunkTasks(i), x) PROVE Holds(a, x)
    BY <1>7, <2>1, HoldsConcat
  <2> HIDE DEF a
  <2>2. ASSUME NEW x, Holds(a, x) \/ Holds(attributeTasks(i), x) PROVE Holds(b, x)
    BY <1>7, <2>2, HoldsConcat
  <2> HIDE DEF b
  <2>3. ASSUME NEW x, Holds(b, x) PROVE Holds(q, x)
    <3>1. Holds(b \o w, x)
      BY <1>7, <2>3, HoldsConcat
    <3> QED BY <3>1 DEF w
  <2> HIDE DEF q
  <2> QED BY <1>3, <2>0, <2>1, <2>2, <2>3
<1> HIDE DEF q
<1>9. m_work' = q
  BY <1>0, <1>7
<1>10. Enqueued(i, q) /\ PathQueued(i)'
  BY <1>5, <1>6, <1>9, BegunEnqueued DEF closing
<1>11. PrologueInv'
  BY <1>0, <1>2, <1>5, <1>6, <1>9, BegunPrepares DEF closing
<1>12. CallInv'
  BY <1>0 DEF CallInv
<1>13. /\ \A j \in Iter \ {i} : /\ m_closed'[j] = m_closed[j] /\ dirty'[j] = dirty[j]
                                /\ pending'[j] = pending[j] /\ groupDirty'[j] = groupDirty[j]
       /\ ~dirty'[i] /\ ~pending'[i]
       /\ m_closed'[i] # "ClosedTemporarily"
  BY <1>0 DEF TypeOK, ObjectTypeOK, reopened, closing
<1>14. m_closed'[i] = "ClosedInBackend" => Queued(Task("CLOSE_FILE", i))'
  <2>1. m_closed'[i] = "ClosedInBackend" => closing
    BY <1>0 DEF TypeOK, ObjectTypeOK, reopened, closing
  <2>2. closing => Len(q) > 0 /\ q[Len(q)] = Task("CLOSE_FILE", i)
    BY <1>5 DEF Closes
  <2>3. Len(q) > 0 => Len(q) \in DOMAIN q
    BY <1>7
  <2> QED BY <1>9, <2>1, <2>2, <2>3 DEF Queued, Task
<1>15. groupDirty[i] => groupDirty'[i] \/ Holds(q, g)
  <2>1. groupDirty' = [groupDirty EXCEPT ![i] = @ /\ ~flushesMeshes(i)]
    BY <1>0
  <2>2. groupDirty \in [Iter -> BOOLEAN]
    BY <1>0 DEF TypeOK, ObjectTypeOK
  <2> QED BY <1>8, <2>1, <2>2
<1> QED BY <1>0, <1>8, <1>9, <1>10, <1>11, <1>12, <1>13, <1>14, <1>15, EnqueueWorks DEF d, g, t

LEMMA ReadWorks ==
  ASSUME LifecycleInv, SettledInv, ExistInv, m_work = <<>>, NEW i \in Iter, ReadIteration(i)
  PROVE  WorkflowInv'
<1> DEFINE closing == reopened(i) = "ClosedInFrontend"
           p == openIteration(i)
           a == p \o chunkTasks(i)
           w == When(closing, Task("CLOSE_FILE", i))
           q == a \o w
<1>0. /\ TypeOK /\ ~Writing /\ phase = "flush" /\ phase' = "drain" /\ Least(i, todo)
      /\ m_closed[i] # "ClosedInBackend" /\ m_closed[i] \in CloseStatus
      /\ m_work' = m_work \o q
      /\ m_closed' = [m_closed EXCEPT ![i] = IF closing THEN "ClosedInBackend" ELSE reopened(i)]
      /\ pending' = [pending EXCEPT ![i] = FALSE]
      /\ UNCHANGED <<written, assocs, files, fixed, iterations, call, todo, mem, emptyRecord,
                     dirty, groupDirty>>
  BY DEF ReadIteration, enqueueAndClose, enqueue, Reached, toFlush, LifecycleInv, TypeOK,
     ObjectTypeOK, user, storage, flags
<1>1. written[i]
  BY <1>0 DEF LifecycleInv, ReaderFindsAll, Least
<1>2. Begun(p, i, p)
  BY BegunPrologue
<1>3. chunkTasks(i) \in Seq(Current(i))
  BY <1>0, CurrentBody
<1>4. w \in Seq(Current(i))
  <2>1. Task("CLOSE_FILE", i) = VersionTask("CLOSE_FILE", i, 0) /\ 0 \in Version
    BY VersionAssumption DEF Task, VersionTask, Version
  <2>2. Task("CLOSE_FILE", i) \in Current(i)
    BY <2>1, CurrentTask DEF Operation, FileTasks, PathTasks
  <2> QED BY <2>2, CurrentWhen
<1>5. Closes(i, closing, q)
  <2>1. WorkOf(i, a)
    BY <1>0, WorkOfFlush, WorkConcat
  <2> HIDE DEF a
  <2> QED BY <2>1, ClosingTasks
<1> HIDE DEF closing, w, p
<1>6. Begun(p, i, q)
  <2>1. Begun(p, i, a)
    BY <1>2, <1>3, BegunConcat
  <2> HIDE DEF a
  <2> QED BY <1>4, <2>1, BegunConcat
<1>7. q \in Seq(IOTask)
  BY <1>6 DEF Begun
<1> HIDE DEF q
<1>8. m_work' = q
  BY <1>0, <1>7
<1>9. Enqueued(i, q) /\ PathQueued(i)'
  BY <1>5, <1>6, <1>8, BegunEnqueued DEF closing, p
<1>10. PrologueInv'
  BY <1>0, <1>1, <1>5, <1>6, <1>8, BegunPrepares DEF closing, p
<1>11. CallInv'
  BY <1>0 DEF CallInv
<1>12. /\ \A j \in Iter \ {i} : /\ m_closed'[j] = m_closed[j] /\ dirty'[j] = dirty[j]
                                /\ pending'[j] = pending[j] /\ groupDirty'[j] = groupDirty[j]
       /\ m_closed'[i] # "ClosedTemporarily" /\ dirty' = dirty /\ groupDirty' = groupDirty
  BY <1>0 DEF TypeOK, ObjectTypeOK, reopened, closing
<1>13. m_closed'[i] = "ClosedInBackend" => Queued(Task("CLOSE_FILE", i))'
  <2>1. m_closed'[i] = "ClosedInBackend" => closing
    BY <1>0 DEF TypeOK, ObjectTypeOK, reopened, closing
  <2>2. closing => Len(q) > 0 /\ q[Len(q)] = Task("CLOSE_FILE", i)
    BY <1>5 DEF Closes
  <2>3. Len(q) > 0 => Len(q) \in DOMAIN q
    BY <1>7
  <2> QED BY <1>8, <2>1, <2>2, <2>3 DEF Queued, Task
<1> QED BY <1>0, <1>9, <1>10, <1>11, <1>12, <1>13, EnqueueWorks

\* Behind what has been flushed, ADVANCE and CLOSE_FILE find the file open.
LEMMA LeavingEnqueued ==
  ASSUME NEW i \in Iter, NEW step \in BOOLEAN, NEW closing \in BOOLEAN, NEW q,
         q = When(step, Task("ADVANCE", i)) \o When(closing, Task("CLOSE_FILE", i)),
         m_work = <<>>, m_work' = m_work \o q
  PROVE  /\ Enqueued(i, q) /\ Preparing(0)' /\ Leaving'
         /\ closing => Queued(Task("CLOSE_FILE", i))'
         /\ ~step /\ ~closing => m_work' = <<>> /\ q = <<>>
<1> DEFINE s == When(step, Task("ADVANCE", i))
           c == Task("CLOSE_FILE", i)
<1>1. /\ Task("ADVANCE", i) \in IOTask /\ c \in IOTask
      /\ Task("ADVANCE", i).it = i /\ Task("ADVANCE", i).op = "ADVANCE"
      /\ c.it = i /\ c.op = "CLOSE_FILE"
  <2>1. Task("ADVANCE", i) \in IOTask /\ c \in IOTask
    BY TaskType, VersionAssumption DEF Operation, Version
  <2> QED BY <2>1 DEF Task
<1> HIDE DEF c
<1>2. /\ s \in Seq(IOTask) /\ Len(s) \in {0, 1}
      /\ \A k \in 1 .. Len(s) : s[k].it = i /\ s[k].op = "ADVANCE"
      /\ ~step => s = <<>>
  BY <1>1 DEF When
<1> HIDE DEF s
<1>3. /\ q \in Seq(IOTask)
      /\ \A k \in 1 .. Len(q) : /\ q[k].it = i
                                /\ q[k].op \in {"ADVANCE", "CLOSE_FILE"}
                                /\ q[k].op = "CLOSE_FILE" => k = Len(q)
      /\ closing => Holds(q, c)
      /\ ~step /\ ~closing => q = <<>>
  <2>1. CASE closing
    <3>1. q = s \o <<c>>
      BY <2>1 DEF s, c, When
    <3>2. /\ q \in Seq(IOTask) /\ Len(q) = Len(s) + 1
          /\ \A k \in 1 .. Len(s) : q[k] = s[k]
          /\ q[Len(s) + 1] = c
      <4>1. /\ s \o <<c>> \in Seq(IOTask) /\ Len(s \o <<c>>) = Len(s) + 1
            /\ \A k \in 1 .. Len(s) : (s \o <<c>>)[k] = s[k]
            /\ (s \o <<c>>)[Len(s) + 1] = c
        BY <1>1, <1>2, SeqAppend
      <4> QED BY <3>1, <4>1
    <3>3. \A k \in 1 .. Len(q) : k \in 1 .. Len(s) \/ k = Len(q)
      BY <1>2, <3>2
    <3>4. Holds(q, c)
      BY <1>2, <3>2 DEF Holds
    <3>5. ASSUME NEW k \in 1 .. Len(q)
          PROVE  /\ q[k].it = i
                 /\ q[k].op \in {"ADVANCE", "CLOSE_FILE"}
                 /\ q[k].op = "CLOSE_FILE" => k = Len(q)
      <4>1. CASE k \in 1 .. Len(s)
        BY <1>2, <3>2, <4>1
      <4>2. CASE k = Len(q)
        BY <1>1, <1>2, <3>2, <4>2
      <4> QED BY <3>3, <4>1, <4>2
    <3> QED BY <2>1, <3>2, <3>4, <3>5
  <2>2. CASE ~closing
    <3>1. q = s
      BY <1>2, <2>2 DEF s, When
    <3> QED BY <1>2, <2>2, <3>1
  <2> QED BY <2>1, <2>2
<1>4. m_work' = q /\ DOMAIN q = 1 .. Len(q) /\ Len(q) \in Nat
  BY <1>3
<1>5. Enqueued(i, q)
  BY <1>3, <1>4 DEF Enqueued
<1>6. Preparing(0)' /\ Leaving'
  <2>1. \A k \in DOMAIN m_work' : m_work'[k].op \in {"ADVANCE", "CLOSE_FILE"}
    BY <1>3, <1>4
  <2>2. 0 <= Len(m_work')
    BY <1>4
  <2>3. Preparing(0)'
    BY <2>1, <2>2 DEF Preparing, FileTasks, PathTasks
  <2> QED BY <2>1, <2>3 DEF Leaving
<1>7. closing => Queued(Task("CLOSE_FILE", i))'
  BY <1>3, <1>4 DEF Queued, Holds, c, Task
<1> QED BY <1>3, <1>4, <1>5, <1>6, <1>7

LEMMA LeavingPrepares ==
  ASSUME NEW i \in Iter, Preparing(0)', Leaving', UNCHANGED <<assocs, files>>,
         m_work' # <<>> => Opened(i),
         \/ phase' = "drain" /\ Least(i, todo')
         \/ phase' = "last" /\ call'.it = i
  PROVE  PrologueInv'
<1>1. \A j \in Iter : AtWork(j)' => j = i
  BY LeastUnique DEF AtWork
<1>2. m_work' # <<>> => Prepared(0, i)'
  BY DEF Prepared, Opened, assocs, files
<1> QED BY <1>1, <1>2 DEF PrologueInv

LEMMA PassWorks ==
  ASSUME LifecycleInv, SettledInv, ExistInv, m_work = <<>>, NEW i \in Iter, PassClean(i)
  PROVE  WorkflowInv'
<1> SUFFICES ASSUME NEW closing \in BOOLEAN, closing = (m_closed[i] = "ClosedInFrontend"),
                    NEW q, q = When(FALSE, Task("ADVANCE", i))
                               \o When(closing, Task("CLOSE_FILE", i))
             PROVE  WorkflowInv'
  OBVIOUS
<1>0. /\ TypeOK /\ phase = "flush" /\ phase' = "drain" /\ Least(i, todo)
      /\ m_closed[i] # "ClosedInBackend" /\ m_closed[i] \in CloseStatus
      /\ ~dirty[i] /\ ~pending[i] /\ ~dirtyRecursive(i)
      /\ m_work' = m_work \o q
      /\ m_closed' = [m_closed EXCEPT ![i] = IF closing THEN "ClosedInBackend" ELSE m_closed[i]]
      /\ UNCHANGED <<written, assocs, files, fixed, iterations, call, todo, mem, emptyRecord,
                     dirty, pending, groupDirty>>
  BY DEF PassClean, enqueueAndClose, enqueue, Reached, toFlush, dirtyRecursive, LifecycleInv,
     TypeOK, ObjectTypeOK, user, storage, flags, When
<1>1. /\ InUse(m_closed[i]) => Opened(i)
      /\ m_closed[i] = "ClosedTemporarily" => i \notin openFiles
  BY <1>0 DEF SettledInv, ObjectInv, InUse
<1>2. /\ Enqueued(i, q) /\ Preparing(0)' /\ Leaving'
      /\ closing => Queued(Task("CLOSE_FILE", i))'
      /\ ~closing => m_work' = <<>> /\ q = <<>>
  BY <1>0, LeavingEnqueued
<1>3. PrologueInv'
  <2>1. m_work' # <<>> => Opened(i)
    BY <1>1, <1>2 DEF InUse
  <2>2. Least(i, todo')
    BY <1>0
  <2> QED BY <1>0, <1>2, <2>1, <2>2, LeavingPrepares
<1>4. CallInv'
  BY <1>0 DEF CallInv
<1>5. /\ \A j \in Iter \ {i} : m_closed'[j] = m_closed[j]
      /\ m_closed'[i] = IF closing THEN "ClosedInBackend" ELSE m_closed[i]
  BY <1>0 DEF TypeOK, ObjectTypeOK
<1>6. /\ InUse(m_closed'[i]) => Opened(i)
      /\ m_closed'[i] = "ClosedTemporarily" => i \notin openFiles /\ q = <<>>
      /\ m_closed'[i] = "ClosedInBackend" => Queued(Task("CLOSE_FILE", i))'
  <2>1. /\ m_closed'[i] = "ClosedInBackend" <=> closing
        /\ m_closed'[i] \in {m_closed[i], "ClosedInBackend"}
        /\ ~closing => m_closed'[i] = m_closed[i]
    BY <1>0, <1>5
  <2>2. closing => Queued(Task("CLOSE_FILE", i))'
    BY <1>2
  <2>3. m_closed'[i] = "ClosedInBackend" => Queued(Task("CLOSE_FILE", i))'
    BY <2>1, <2>2
  <2>4. InUse(m_closed'[i]) => InUse(m_closed[i])
    BY <2>1 DEF InUse
  <2>5. m_closed'[i] = "ClosedTemporarily" => m_closed[i] = "ClosedTemporarily" /\ ~closing
    BY <2>1
  <2> QED BY <1>1, <1>2, <2>3, <2>4, <2>5
<1>7. /\ ~dirty'[i] /\ ~pending'[i]
      /\ \A j \in Iter \ {i} : /\ m_closed'[j] = m_closed[j] /\ dirty'[j] = dirty[j]
                               /\ pending'[j] = pending[j] /\ groupDirty'[j] = groupDirty[j]
      /\ groupDirty[i] => groupDirty'[i]
  BY <1>0, <1>5
<1> QED BY <1>0, <1>2, <1>3, <1>4, <1>6, <1>7, EnqueueWorks

LEMMA AdvanceWorks ==
  ASSUME LifecycleInv, SettledInv, ExistInv, m_work = <<>>, Advance
  PROVE  WorkflowInv'
<1> SUFFICES ASSUME NEW i \in Iter, i = call.it,
                    NEW inFrontend \in BOOLEAN, inFrontend = (call.old = "ClosedInFrontend"),
                    NEW step \in BOOLEAN,
                    step = (inFrontend \/ m_closed[i] # "ClosedTemporarily"),
                    NEW closing \in BOOLEAN, closing = (inFrontend /\ call.op = "end"),
                    NEW q, q = When(step, Task("ADVANCE", i))
                               \o When(closing, Task("CLOSE_FILE", i))
             PROVE  WorkflowInv'
  <2>1. call.it \in Iter
    BY DEF Advance, LoopDone, LifecycleInv, TypeOK, ControlTypeOK
  <2> QED BY <2>1
<1>0. /\ TypeOK /\ phase' = "last" /\ todo = {}
      /\ call.op \in {"begin", "end"}
      /\ m_work' = m_work \o q
      /\ m_closed' = [m_closed EXCEPT ![i] = IF closing THEN "ClosedInBackend"
                                             ELSE IF inFrontend THEN "ClosedInFrontend" ELSE @]
      /\ UNCHANGED <<written, assocs, files, fixed, iterations, call, todo, mem, emptyRecord,
                     dirty, pending, groupDirty>>
  BY DEF Advance, enqueue, flushEnds, LoopDone, LifecycleInv, TypeOK, ControlTypeOK, user,
     storage, flags
<1>1. /\ m_closed[i] \in {"Open", "ClosedTemporarily"}
      /\ inFrontend => m_closed[i] = "Open"
  BY DEF LifecycleInv, StepIsOpen, Advance, LoopDone
<1>2. FlushedOK(i)
  BY <1>0 DEF SettledInv, Flushed, Concerned
<1>3. m_closed[i] = "ClosedTemporarily" => i \notin openFiles
  BY <1>0 DEF SettledInv, ObjectInv
<1>4. /\ Enqueued(i, q) /\ Preparing(0)' /\ Leaving'
      /\ closing => Queued(Task("CLOSE_FILE", i))'
      /\ ~step /\ ~closing => m_work' = <<>>
  BY <1>0, LeavingEnqueued
<1>5. PrologueInv'
  <2>1. m_work' # <<>> => Opened(i)
    BY <1>1, <1>2, <1>4 DEF FlushedOK
  <2> QED BY <1>0, <1>4, <2>1, LeavingPrepares
<1>6. /\ \A j \in Iter \ {i} : m_closed'[j] = m_closed[j]
      /\ m_closed'[i] = IF closing THEN "ClosedInBackend"
                        ELSE IF inFrontend THEN "ClosedInFrontend" ELSE m_closed[i]
  BY <1>0 DEF TypeOK, ObjectTypeOK
<1>7. CallInv'
  BY <1>0, <1>1, <1>6 DEF CallInv, closed
<1>8. /\ Writing => ~dirty'[i] /\ ~pending'[i]
      /\ InUse(m_closed'[i]) => Opened(i) \/ PathQueued(i)'
      /\ m_closed'[i] = "ClosedTemporarily" => i \notin openFiles /\ q = <<>>
      /\ m_closed'[i] = "ClosedInBackend" =>
           i \notin openFiles \/ Queued(Task("CLOSE_FILE", i))'
  <2>1. m_closed'[i] = "ClosedTemporarily" => q = <<>>
    <3>1. <<>> \o <<>> = <<>>
      OBVIOUS
    <3> QED BY <1>1, <1>6, <3>1 DEF When
  <2> QED BY <1>0, <1>1, <1>2, <1>3, <1>4, <1>6, <2>1 DEF FlushedOK, InUse
<1> QED BY <1>0, <1>4, <1>5, <1>6, <1>7, <1>8, EnqueueWorks

-----------------------------------------------------------------------------
(* The task at the head of the queue.                                      *)

LEMMA HeadPrepared ==
  ASSUME TypeOK, WorkflowInv, m_work # <<>>, NEW t, t = Head(m_work), NEW i, i = t.it
  PROVE  /\ t \in IOTask /\ i \in Iter /\ AtWork(i) /\ t = m_work[1]
         /\ \E n \in 0 .. 3 :
              /\ Preparing(n) /\ Prepared(n, i)
              /\ n = 3 => t.op \in FileTasks
              /\ n = 2 => t.op \in BasePathTasks
              /\ n = 1 => t.op \in PathTasks
              /\ n = 0 => t.op \notin FileTasks \cup PathTasks
<1>1. m_work \in Seq(IOTask) /\ 1 \in DOMAIN m_work /\ t = m_work[1] /\ t \in IOTask
  BY DEF TypeOK, BackendTypeOK
<1>2. i \in Iter /\ AtWork(i)
  BY <1>1 DEF IOTask, WorkflowInv, TasksInv
<1>3. PICK n \in 0 .. 3 : Preparing(n) /\ Prepared(n, i)
  BY <1>2 DEF WorkflowInv, PrologueInv
<1>4. /\ n = 3 => t.op \in FileTasks
      /\ n = 2 => t.op \in BasePathTasks
      /\ n = 1 => t.op \in PathTasks
      /\ n = 0 => t.op \notin FileTasks \cup PathTasks
  BY <1>1, <1>3 DEF Preparing
<1> QED BY <1>1, <1>2, <1>3, <1>4

LEMMA TaskFinds ==
  ASSUME TypeOK, WorkflowInv
  PROVE  TaskFindsItsFile
<1> SUFFICES ASSUME m_work # <<>>, NEW t, t = Head(m_work), NEW i, i = t.it
             PROVE  /\ ~Refused(t)
                    /\ t.op = "CREATE_FILE" => ~Skipped(t)
                    /\ t.op \notin {"CREATE_FILE", "OPEN_FILE"} =>
                         FileOf(t) = t.it /\ t.it \in openFiles
  BY DEF TaskFindsItsFile
<1>1. t \in IOTask /\ i \in Iter /\ t = m_work[1] /\ 1 \in DOMAIN m_work
  BY HeadPrepared DEF TypeOK, BackendTypeOK
<1>2. PICK n \in 0 .. 3 : /\ Prepared(n, i)
                          /\ n = 3 => t.op \in FileTasks
                          /\ n = 2 => t.op \in BasePathTasks
                          /\ n = 1 => t.op \in PathTasks
                          /\ n = 0 => t.op \notin FileTasks \cup PathTasks
  BY HeadPrepared
<1>3. t.op \notin {"ADVANCE", "CLOSE_FILE"} => ~Leaving
  BY <1>1 DEF Leaving
<1>4. i \in openFiles => i \in onDisk
  BY <1>1 DEF WorkflowInv, ExistInv
<1>5. i # None
  BY <1>1, NoneAssumption
<1>6. CASE n = 3
  <2>1. t.op = "CREATE_FILE" \/ t.op = "OPEN_FILE"
    BY <1>2, <1>6 DEF FileTasks
  <2>2. CASE t.op = "CREATE_FILE"
    <3>1. ~seriesWritten /\ i \notin onDisk
      BY <1>1, <1>2, <1>6, <2>2 DEF Prepared
    <3> QED BY <1>4, <2>2, <3>1 DEF Refused, Skipped
  <2>3. CASE t.op = "OPEN_FILE"
    <3>1. i \in onDisk
      BY <1>1, <1>2, <1>6, <2>3 DEF Prepared
    <3> QED BY <2>3, <3>1 DEF Refused, Skipped
  <2> QED BY <2>1, <2>2, <2>3
<1>7. CASE n # 3
  <2>1. t.op \notin {"CREATE_FILE", "OPEN_FILE"}
    BY <1>2, <1>7 DEF FileTasks, BasePathTasks, PathTasks
  <2>2. i \in openFiles
    BY <1>2, <1>7 DEF Prepared
  <2>3. FileOf(t) = i
    <3>1. CASE n = 2
      BY <1>2, <1>3, <3>1 DEF Prepared, FileOf, BasePathTasks
    <3>2. CASE n = 1
      BY <1>2, <1>3, <3>2 DEF Prepared, FileOf, PathTasks
    <3>3. CASE n = 0
      BY <1>2, <1>3, <3>3 DEF Prepared, Opened, FileOf, FileOfIteration, FileTasks, PathTasks
    <3> QED BY <1>7, <3>1, <3>2, <3>3
  <2>4. ~Refused(t)
    BY <1>5, <2>1, <2>2, <2>3 DEF Refused
  <2> QED BY <2>1, <2>2, <2>3, <2>4
<1> QED BY <1>6, <1>7

-----------------------------------------------------------------------------
(* What the tasks do to the storage.                                       *)

\* Nothing happens to the other iterations.
Elsewhere(i) ==
  \A j \in Iter \ {i} : /\ written'[j] = written[j] /\ iterationFile'[j] = iterationFile[j]
                        /\ j \in openFiles' <=> j \in openFiles
                        /\ j \in onDisk' <=> j \in onDisk
                        /\ disk'[j][j] = disk[j][j]

\* What t writes into the file of its iteration i.
Stores(t, i) ==
  /\ disk'[i][i].attr = IF t.op = "WRITE_ATT" THEN t.ver ELSE disk[i][i].attr
  /\ disk'[i][i].data = IF t.op = "WRITE_DATASET" THEN t.ver ELSE disk[i][i].data
  /\ disk'[i][i].group = IF t.op = "WRITE_GROUP_ATT" THEN t.ver ELSE disk[i][i].group

LEMMA FileEffect ==
  ASSUME TypeOK, ExistInv, NEW t \in IOTask, NEW i \in Iter, t.it = i, t.op \in FileTasks,
         IF t.op = "CREATE_FILE" THEN ~seriesWritten /\ i \notin onDisk ELSE i \in onDisk,
         Execute(t)
  PROVE  /\ Elsewhere(i) /\ Stores(t, i) /\ disk'[i][i] = disk[i][i]
         /\ seriesFile' = i /\ i \in openFiles' /\ i \in onDisk'
         /\ UNCHANGED <<written, iterationFile, basePathWritten>>
<1>1. CASE t.op = "CREATE_FILE"
  <2>1. createFile(i)
    BY <1>1 DEF Execute, Skipped
  <2>2. disk[i][i] = Blank
    BY <1>1 DEF ExistInv
  <2>3. /\ disk' = [disk EXCEPT ![i] = [j \in Iter |-> Blank]]
        /\ disk \in [Iter -> [Iter -> Content]]
    BY <2>1 DEF createFile, TypeOK, BackendTypeOK
  <2>4. disk'[i][i] = Blank /\ \A j \in Iter \ {i} : disk'[j][j] = disk[j][j]
    BY <2>3
  <2> QED BY <1>1, <2>1, <2>2, <2>4 DEF createFile, Elsewhere, Stores
<1>2. CASE t.op = "OPEN_FILE"
  <2>1. openFile(i)
    BY <1>2 DEF Execute, Skipped
  <2> QED BY <1>2, <2>1 DEF openFile, Elsewhere, Stores
<1> QED BY <1>1, <1>2 DEF FileTasks

LEMMA BasePathEffect ==
  ASSUME NEW t \in IOTask, NEW i \in Iter, t.it = i, t.op \in BasePathTasks, Execute(t)
  PROVE  /\ Elsewhere(i) /\ Stores(t, i)
         /\ UNCHANGED <<written, iterationFile, seriesFile, openFiles, onDisk, disk>>
         /\ basePathFile' \in {basePathFile, seriesFile}
         /\ (t.op = "CREATE_BASEPATH" => ~basePathWritten) => basePathFile' = seriesFile
<1>1. CASE Skipped(t)
  <2>1. noEffect /\ t.op = "CREATE_BASEPATH" /\ basePathWritten
    BY <1>1 DEF Execute, Skipped, BasePathTasks
  <2> QED BY <2>1 DEF noEffect, flags, assocs, files, Elsewhere, Stores
<1>2. CASE ~Skipped(t)
  <2>1. basePath
    BY <1>2 DEF Execute, BasePathTasks
  <2>2. t.op \notin {"WRITE_ATT", "WRITE_DATASET", "WRITE_GROUP_ATT"}
    BY DEF BasePathTasks
  <2> QED BY <2>1, <2>2 DEF basePath, files, Elsewhere, Stores
<1> QED BY <1>1, <1>2

LEMMA PathEffect ==
  ASSUME TypeOK, NEW t \in IOTask, NEW i \in Iter, t.it = i, t.op \in PathTasks, Execute(t),
         t.op = "CREATE_PATH" => ~written[i]
  PROVE  /\ Elsewhere(i) /\ Stores(t, i)
         /\ UNCHANGED <<seriesFile, basePathFile, openFiles, onDisk, disk>>
         /\ written'[i] /\ iterationFile'[i] = basePathFile
<1>1. iterationPath(i)
  BY DEF Execute, Skipped, PathTasks
<1>2. t.op \notin {"WRITE_ATT", "WRITE_DATASET", "WRITE_GROUP_ATT"}
  BY DEF PathTasks
<1> QED BY <1>1, <1>2 DEF iterationPath, files, Elsewhere, Stores, TypeOK, BackendTypeOK

LEMMA BodyEffect ==
  ASSUME TypeOK, NEW t \in IOTask, NEW i \in Iter, t.it = i, Execute(t), Opened(i),
         t.op \notin FileTasks \cup PathTasks,
         basePathFile = i \/ t.op \in {"ADVANCE", "CLOSE_FILE"}
  PROVE  /\ Elsewhere(i) /\ Stores(t, i)
         /\ UNCHANGED <<seriesFile, onDisk>>
         /\ basePathFile' \in {basePathFile, seriesFile}
         /\ written[i] => written'[i]
         /\ IF t.op = "CLOSE_FILE" THEN i \notin openFiles' ELSE Opened(i)'
<1>0. /\ iterationFile[i] = i /\ i \in openFiles
      /\ written \in [Iter -> BOOLEAN] /\ iterationFile \in [Iter -> Iter \cup {None}]
      /\ disk \in [Iter -> [Iter -> Content]]
  BY DEF Opened, TypeOK, BackendTypeOK
<1>1. \A j \in Iter : disk[j][j] \in [attr : Version, group : Version, data : Version]
  BY <1>0 DEF Content
<1>2. CASE t.op \in BasePathTasks
  <2>1. t.op # "CLOSE_FILE"
    BY <1>2 DEF BasePathTasks
  <2> QED BY <1>0, <1>2, <2>1, BasePathEffect DEF Opened
<1>3. CASE t.op = "WRITE_DATASET"
  <2>1. /\ disk' = [disk EXCEPT ![i][i].data = t.ver]
        /\ UNCHANGED <<flags, assocs, openFiles, onDisk>>
    BY <1>0, <1>3 DEF Execute, Skipped, writeDataset
  <2>2. disk'[i][i] = [disk[i][i] EXCEPT !.data = t.ver]
        /\ \A j \in Iter \ {i} : disk'[j][j] = disk[j][j]
    BY <1>0, <2>1
  <2>3. Stores(t, i)
    BY <1>1, <1>3, <2>2 DEF Stores
  <2> QED BY <1>0, <1>3, <2>1, <2>2, <2>3 DEF Elsewhere, flags, assocs, Opened
<1>4. CASE t.op = "WRITE_GROUP_ATT"
  <2>1. /\ disk' = [disk EXCEPT ![i][i].group = t.ver]
        /\ UNCHANGED <<flags, assocs, openFiles, onDisk>>
    BY <1>0, <1>4 DEF Execute, Skipped, writeGroupAttribute
  <2>2. disk'[i][i] = [disk[i][i] EXCEPT !.group = t.ver]
        /\ \A j \in Iter \ {i} : disk'[j][j] = disk[j][j]
    BY <1>0, <2>1
  <2>3. Stores(t, i)
    BY <1>1, <1>4, <2>2 DEF Stores
  <2> QED BY <1>0, <1>4, <2>1, <2>2, <2>3 DEF Elsewhere, flags, assocs, Opened
<1>5. CASE t.op = "WRITE_ATT"
  <2>0. FileOfIteration(i) = i /\ basePathFile = i
    BY <1>0, <1>5 DEF FileOfIteration
  <2>1. writeAttribute(i, t.ver)
    BY <1>5 DEF Execute, Skipped
  <2>2. /\ disk' = [disk EXCEPT ![i][i].attr = t.ver]
        /\ written' = [written EXCEPT ![i] = @ \/ backend = "JSON"]
        /\ iterationFile' = [iterationFile EXCEPT ![i] = IF backend = "JSON" THEN i ELSE @]
        /\ UNCHANGED <<seriesFile, basePathFile, openFiles, onDisk>>
    BY <2>0, <2>1 DEF writeAttribute
  <2>3. disk'[i][i] = [disk[i][i] EXCEPT !.attr = t.ver]
        /\ \A j \in Iter \ {i} : disk'[j][j] = disk[j][j]
    BY <1>0, <2>2
  <2>4. Stores(t, i)
    BY <1>1, <1>5, <2>3 DEF Stores
  <2>5. iterationFile'[i] = i /\ (written[i] => written'[i])
    BY <1>0, <2>2
  <2>6. \A j \in Iter \ {i} : iterationFile'[j] = iterationFile[j] /\ written'[j] = written[j]
    BY <1>0, <2>2
  <2> QED BY <1>0, <1>5, <2>2, <2>3, <2>4, <2>5, <2>6 DEF Elsewhere, Opened
<1>6. CASE t.op \in {"WRITE_SERIES_ATT", "WRITE_MESHES_PATH"}
  <2>1. UNCHANGED <<written, assocs, openFiles, onDisk, disk>>
    BY <1>6 DEF Execute, Skipped, writeSeriesAttribute, writeMeshesPath, files
  <2> QED BY <1>0, <1>6, <2>1 DEF Elsewhere, Stores, assocs, Opened
<1>7. CASE t.op \in {"READ_DATASET", "ADVANCE"}
  <2>1. noEffect
    BY <1>7 DEF Execute, Skipped
  <2> QED BY <1>0, <1>7, <2>1 DEF noEffect, files, Elsewhere, Stores, flags, assocs, Opened
<1>8. CASE t.op = "CLOSE_FILE"
  <2>1. closeFile(i)
    BY <1>8 DEF Execute, Skipped
  <2> QED BY <1>0, <1>8, <2>1 DEF closeFile, Elsewhere, Stores, flags
<1> QED BY <1>2, <1>3, <1>4, <1>5, <1>6, <1>7, <1>8
        DEF IOTask, Operation, FileTasks, PathTasks, BasePathTasks

-----------------------------------------------------------------------------
(* One task of the queue is executed.                                      *)

\* What executing t of i behind which the rest of a prologue of n tasks
\* remains, t included, leaves behind.
Effects(n, t, i) ==
  /\ Elsewhere(i) /\ Stores(t, i)
  /\ written[i] => written'[i]
  /\ n = 3 => /\ seriesFile' = i /\ i \in openFiles' /\ i \in onDisk'
              /\ UNCHANGED <<written, basePathWritten>>
  /\ n = 2 => /\ seriesFile' = i /\ basePathFile' = i
              /\ UNCHANGED <<written, openFiles, onDisk>>
  /\ n = 1 => /\ seriesFile' = i /\ basePathFile' = i /\ written'[i] /\ iterationFile'[i] = i
              /\ UNCHANGED <<openFiles, onDisk>>
  /\ n = 0 => /\ Opened(i) /\ UNCHANGED onDisk
              /\ IF t.op = "CLOSE_FILE" THEN i \notin openFiles' ELSE Opened(i)'
              /\ t.op # "CLOSE_FILE" => (seriesFile' = i /\ basePathFile' = i) \/ Leaving

LEMMA HeadEffects ==
  ASSUME TypeOK, WorkflowInv, Drain, NEW t, t = Head(m_work), NEW i, i = t.it,
         NEW n \in 0 .. 3, Preparing(n), Prepared(n, i)
  PROVE  Effects(n, t, i)
<1>0. /\ t \in IOTask /\ i \in Iter /\ t.it = i /\ Execute(t) /\ m_work # <<>> /\ t = m_work[1]
      /\ 1 \in DOMAIN m_work /\ ExistInv
  BY HeadPrepared DEF Drain, ProcessTask, TypeOK, BackendTypeOK, WorkflowInv
<1>1. t.op \notin {"ADVANCE", "CLOSE_FILE"} => ~Leaving
  BY <1>0 DEF Leaving
<1>2. CASE n = 3
  <2>1. t.op \in FileTasks
    BY <1>0, <1>2 DEF Preparing
  <2>2. IF t.op = "CREATE_FILE" THEN ~seriesWritten /\ i \notin onDisk ELSE i \in onDisk
    BY <1>0, <1>2 DEF Prepared
  <2> QED BY <1>0, <1>2, <2>1, <2>2, FileEffect DEF Effects
<1>3. CASE n = 2
  <2>1. t.op \in BasePathTasks
    BY <1>0, <1>3 DEF Preparing
  <2>2. seriesFile = i /\ (t.op = "CREATE_BASEPATH" => ~basePathWritten)
    BY <1>0, <1>1, <1>3, <2>1 DEF Prepared, BasePathTasks
  <2> QED BY <1>0, <1>3, <2>1, <2>2, BasePathEffect DEF Effects
<1>4. CASE n = 1
  <2>1. t.op \in PathTasks
    BY <1>0, <1>4 DEF Preparing
  <2>2. seriesFile = i /\ basePathFile = i /\ (t.op = "CREATE_PATH" => ~written[i])
    BY <1>0, <1>1, <1>4, <2>1 DEF Prepared, PathTasks
  <2> QED BY <1>0, <1>4, <2>1, <2>2, PathEffect DEF Effects
<1>5. CASE n = 0
  <2>1. t.op \notin FileTasks \cup PathTasks
    BY <1>0, <1>5 DEF Preparing
  <2>2. /\ Opened(i) /\ (seriesFile = i \/ Leaving) /\ (basePathFile = i \/ Leaving)
    BY <1>5 DEF Prepared
  <2>3. basePathFile = i \/ t.op \in {"ADVANCE", "CLOSE_FILE"}
    BY <1>1, <2>2
  <2>4. /\ Elsewhere(i) /\ Stores(t, i)
        /\ UNCHANGED <<seriesFile, onDisk>>
        /\ basePathFile' \in {basePathFile, seriesFile}
        /\ written[i] => written'[i]
        /\ IF t.op = "CLOSE_FILE" THEN i \notin openFiles' ELSE Opened(i)'
    BY <1>0, <2>1, <2>2, <2>3, BodyEffect
  <2> QED BY <1>5, <2>2, <2>4 DEF Effects
<1> QED BY <1>2, <1>3, <1>4, <1>5

\* What is behind the head stays in the queue.
LEMMA Popped ==
  ASSUME TypeOK, m_work # <<>>, m_work' = Tail(m_work)
  PROVE  /\ Len(m_work) \in Nat /\ Len(m_work') = Len(m_work) - 1
         /\ DOMAIN m_work = 1 .. Len(m_work) /\ DOMAIN m_work' = 1 .. Len(m_work) - 1
         /\ \A k \in DOMAIN m_work' : k + 1 \in DOMAIN m_work /\ m_work'[k] = m_work[k + 1]
         /\ \A k \in DOMAIN m_work : k > 1 => k - 1 \in DOMAIN m_work' /\ m_work'[k - 1] = m_work[k]
         /\ 1 \in DOMAIN m_work /\ Head(m_work) = m_work[1]
         /\ \A x : (\E k \in DOMAIN m_work : m_work[k] = x)
                     => x = Head(m_work) \/ \E k \in DOMAIN m_work' : m_work'[k] = x
<1>1. m_work \in Seq(IOTask) /\ Len(m_work) \in Nat /\ Len(m_work) # 0
  BY DEF TypeOK, BackendTypeOK
<1>2. /\ Len(m_work') = Len(m_work) - 1
      /\ DOMAIN m_work = 1 .. Len(m_work) /\ DOMAIN m_work' = 1 .. Len(m_work) - 1
      /\ \A k \in 1 .. Len(m_work) - 1 : m_work'[k] = m_work[k + 1]
  BY <1>1
<1>3. \A k \in DOMAIN m_work' : k + 1 \in DOMAIN m_work /\ m_work'[k] = m_work[k + 1]
  BY <1>1, <1>2
<1>4. \A k \in DOMAIN m_work : k > 1 => k - 1 \in DOMAIN m_work' /\ m_work'[k - 1] = m_work[k]
  BY <1>1, <1>2
<1>5. 1 \in DOMAIN m_work /\ Head(m_work) = m_work[1]
  BY <1>1, <1>2
<1>6. \A k \in DOMAIN m_work : k = 1 \/ k > 1
  BY <1>1, <1>2
<1> QED BY <1>1, <1>2, <1>3, <1>4, <1>5, <1>6

LEMMA PreparingPopped ==
  ASSUME TypeOK, m_work # <<>>, m_work' = Tail(m_work), NEW n \in 0 .. 3, Preparing(n)
  PROVE  /\ n > 0 => Preparing(n - 1)'
         /\ n = 0 => Preparing(0)'
         /\ Leaving => Leaving'
<1>1. /\ Len(m_work) \in Nat /\ Len(m_work') = Len(m_work) - 1 /\ Len(m_work) >= 1
      /\ DOMAIN m_work = 1 .. Len(m_work) /\ DOMAIN m_work' = 1 .. Len(m_work) - 1
      /\ \A k \in DOMAIN m_work' : k + 1 \in DOMAIN m_work /\ m_work'[k] = m_work[k + 1]
  BY Popped
<1>2. Leaving => Leaving'
  BY <1>1 DEF Leaving
<1>3. \A m \in 0 .. 3 : (n = 0 /\ m = 0) \/ n = m + 1 =>
        \A k \in DOMAIN m_work' : k > m => m_work'[k].op \notin FileTasks \cup PathTasks
  BY <1>1 DEF Preparing
<1>4. CASE n = 0
  BY <1>1, <1>2, <1>3, <1>4 DEF Preparing
<1>5. CASE n = 1
  BY <1>1, <1>2, <1>3, <1>5 DEF Preparing
<1>6. CASE n = 2
  <2>1. 1 \in DOMAIN m_work' /\ m_work'[1].op \in PathTasks
    BY <1>1, <1>6 DEF Preparing
  <2> QED BY <1>1, <1>2, <1>3, <1>6, <2>1 DEF Preparing
<1>7. CASE n = 3
  <2>1. 2 \in DOMAIN m_work' /\ m_work'[2].op \in PathTasks /\ m_work'[1].op \in BasePathTasks
    BY <1>1, <1>7 DEF Preparing
  <2> QED BY <1>1, <1>2, <1>3, <1>7, <2>1 DEF Preparing
<1> QED BY <1>4, <1>5, <1>6, <1>7

LEMMA DrainKeeps ==
  ASSUME TypeOK, WorkflowInv, Drain, NEW t, t = Head(m_work), NEW i, i = t.it
  PROVE  /\ m_work # <<>> /\ m_work' = Tail(m_work) /\ t \in IOTask /\ i \in Iter
         /\ 1 \in DOMAIN m_work /\ t = m_work[1]
         /\ UNCHANGED <<objects, control, user, access>>
         /\ AtWork(i) /\ \A j \in Iter : AtWork(j) => j = i
         /\ \A k \in DOMAIN m_work : m_work[k].it = i
         /\ \A j \in Iter : AtWork(j)' <=> AtWork(j)
         /\ m_closed[i] # "ClosedTemporarily"
         /\ t.op = "CLOSE_FILE" => m_work' = <<>>
<1>1. /\ m_work # <<>> /\ m_work' = Tail(m_work) /\ t \in IOTask /\ i \in Iter
      /\ AtWork(i) /\ t = m_work[1]
  BY HeadPrepared DEF Drain, ProcessTask
<1>2. UNCHANGED <<objects, control, user, access>>
  BY DEF Drain, ProcessTask, fixed
<1>3. 1 \in DOMAIN m_work /\ m_work \in Seq(IOTask)
  BY <1>1 DEF TypeOK, BackendTypeOK
<1>4. \A j \in Iter : AtWork(j) => j = i
  BY <1>1, AtWorkUnique
<1>5. \A k \in DOMAIN m_work : m_work[k].it \in Iter
  <2>1. \A x \in IOTask : x.it \in Iter
    BY DEF IOTask
  <2>2. \A k \in DOMAIN m_work : m_work[k] \in IOTask
    BY <1>3
  <2> QED BY <2>1, <2>2
<1>6. \A k \in DOMAIN m_work : m_work[k].it = i
  BY <1>4, <1>5 DEF WorkflowInv, TasksInv
<1>7. \A j \in Iter : AtWork(j)' <=> AtWork(j)
  BY <1>2 DEF AtWork, control, Least
<1>8. m_closed[i] # "ClosedTemporarily" /\ (t.op = "CLOSE_FILE" => Len(m_work) = 1)
  BY <1>1, <1>3 DEF WorkflowInv, TasksInv
<1>9. Len(m_work) = 1 => m_work' = <<>>
  BY <1>1, <1>3
<1> QED BY <1>1, <1>2, <1>3, <1>4, <1>6, <1>7, <1>8, <1>9

LEMMA DrainTasks ==
  ASSUME TypeOK, WorkflowInv, Drain
  PROVE  TasksInv'
<1> SUFFICES ASSUME NEW t, t = Head(m_work), NEW i, i = t.it PROVE TasksInv'
  OBVIOUS
<1>1. /\ m_work # <<>> /\ m_work' = Tail(m_work)
      /\ phase' = phase /\ todo' = todo /\ call' = call /\ m_closed' = m_closed /\ Draining
  BY DrainKeeps DEF Drain, objects, control
<1>2. /\ Len(m_work') = Len(m_work) - 1 /\ Len(m_work) \in Nat
      /\ DOMAIN m_work' = 1 .. Len(m_work) - 1
      /\ \A k \in DOMAIN m_work' : k + 1 \in DOMAIN m_work /\ m_work'[k] = m_work[k + 1]
  BY <1>1, Popped
<1>3. TasksInv
  BY DEF WorkflowInv
<1>4. ASSUME NEW k \in DOMAIN m_work', NEW x, x = m_work'[k]
      PROVE  /\ AtWork(x.it) /\ m_closed[x.it] # "ClosedTemporarily"
             /\ x.op = "CLOSE_FILE" => k = Len(m_work')
  <2>1. k + 1 \in DOMAIN m_work /\ x = m_work[k + 1]
    BY <1>2, <1>4
  <2> QED BY <1>2, <1>3, <2>1 DEF TasksInv
<1>5. \A j : Least(j, todo') <=> Least(j, todo)
  BY <1>1
<1> QED BY <1>1, <1>3, <1>4, <1>5 DEF TasksInv, Draining, AtWork

LEMMA DrainPrologue ==
  ASSUME TypeOK, WorkflowInv, Drain, NEW t, t = Head(m_work), NEW i, i = t.it,
         NEW n \in 0 .. 3, Preparing(n), Prepared(n, i), Effects(n, t, i)
  PROVE  PrologueInv'
<1>0. /\ m_work # <<>> /\ m_work' = Tail(m_work) /\ i \in Iter /\ t = m_work[1]
      /\ \A j \in Iter : AtWork(j)' => j = i
      /\ t.op = "CLOSE_FILE" => m_work' = <<>>
  BY DrainKeeps
<1>1. /\ n > 0 => Preparing(n - 1)'
      /\ n = 0 => Preparing(0)'
      /\ Leaving => Leaving'
  BY <1>0, PreparingPopped
<1>2. \A k \in DOMAIN m_work' : m_work'[k] = m_work[k + 1]
  BY <1>0, Popped
<1>3. CASE n = 3
  <2>1. DOMAIN m_work' = 1 .. Len(m_work) - 1 /\ Len(m_work) \in Nat /\ Len(m_work) >= 3
    BY <1>0, <1>3, Popped DEF Preparing
  <2>2. 1 \in DOMAIN m_work' /\ 2 \in DOMAIN m_work' /\ 1 + 1 = 2 /\ 2 + 1 = 3
    BY <2>1
  <2>3. m_work'[1] = m_work[2] /\ m_work'[2] = m_work[3]
    BY <1>2, <2>2
  <2>4. /\ m_work[2].op = "CREATE_BASEPATH" => ~basePathWritten
        /\ m_work[3].op = "CREATE_PATH" => ~written[i]
    <3>1. 3 - 1 = 2 /\ 3 >= 2 /\ 3 >= 1
      OBVIOUS
    <3> QED BY <1>3, <3>1 DEF Prepared
  <2>5. /\ seriesFile' = i /\ i \in openFiles' /\ basePathWritten' = basePathWritten
        /\ written' = written
    BY <1>3 DEF Effects
  <2>6. Prepared(2, i)'
    <3>1. 2 - 1 = 1 /\ 2 >= 2 /\ 2 >= 1
      OBVIOUS
    <3> QED BY <2>3, <2>4, <2>5, <3>1 DEF Prepared
  <2> QED BY <1>0, <1>1, <1>3, <2>6 DEF PrologueInv
<1>4. CASE n = 2
  <2>1. DOMAIN m_work' = 1 .. Len(m_work) - 1 /\ Len(m_work) \in Nat /\ Len(m_work) >= 2
    BY <1>0, <1>4, Popped DEF Preparing
  <2>2. 1 \in DOMAIN m_work' /\ 1 + 1 = 2
    BY <2>1
  <2>3. m_work'[1] = m_work[2]
    BY <1>2, <2>2
  <2>4. m_work[2].op = "CREATE_PATH" => ~written[i]
    BY <1>4 DEF Prepared
  <2>5. i \in openFiles /\ written' = written /\ openFiles' = openFiles
        /\ seriesFile' = i /\ basePathFile' = i
    BY <1>4 DEF Effects, Prepared
  <2>6. Prepared(1, i)'
    BY <2>3, <2>4, <2>5 DEF Prepared
  <2> QED BY <1>0, <1>1, <1>4, <2>6 DEF PrologueInv
<1>5. CASE n = 1
  <2>1. Prepared(0, i)'
    BY <1>0, <1>5 DEF Prepared, Effects, Opened
  <2> QED BY <1>0, <1>1, <1>5, <2>1 DEF PrologueInv
<1>6. CASE n = 0
  <2>1. m_work' # <<>> => Prepared(0, i)'
    BY <1>0, <1>1, <1>6 DEF Prepared, Effects, Opened
  <2> QED BY <1>0, <1>1, <1>6, <2>1 DEF PrologueInv
<1> QED BY <1>3, <1>4, <1>5, <1>6

LEMMA DrainExist ==
  ASSUME TypeOK, WorkflowInv, Drain, NEW t, t = Head(m_work), NEW i, i = t.it,
         NEW n \in 0 .. 3, Preparing(n), Prepared(n, i), Effects(n, t, i)
  PROVE  ExistInv' /\ (n \in {2, 3} => PathQueued(i)') /\ \A j \in Iter \ {i} : ~PathQueued(j)
<1>0. /\ m_work # <<>> /\ m_work' = Tail(m_work) /\ i \in Iter /\ t = m_work[1]
      /\ \A k \in DOMAIN m_work : m_work[k].it = i
      /\ t \in IOTask
  BY DrainKeeps
<1>1. ExistInv
  BY DEF WorkflowInv
<1>2. \A j \in Iter \ {i} : ~PathQueued(j)
  BY <1>0 DEF PathQueued
<1>3. n \in {2, 3} => PathQueued(i)'
  <2>1. /\ \A k \in DOMAIN m_work' : k + 1 \in DOMAIN m_work /\ m_work'[k] = m_work[k + 1]
        /\ DOMAIN m_work' = 1 .. Len(m_work) - 1 /\ Len(m_work) \in Nat
    BY <1>0, Popped
  <2>2. CASE n \in {2, 3}
    <3>1. n - 1 \in DOMAIN m_work'
      BY <2>1, <2>2 DEF Preparing
    <3>2. m_work'[n - 1] = m_work[n] /\ n \in DOMAIN m_work
      BY <2>1, <2>2, <3>1
    <3>3. m_work[n].op \in PathTasks /\ m_work[n].it = i
      BY <1>0, <2>2, <3>2 DEF Preparing
    <3> QED BY <3>1, <3>2, <3>3 DEF PathQueued
  <2> QED BY <2>2
<1>4. n = 0 => ~PathQueued(i)
  <2>1. m_work \in Seq(IOTask)
    BY DEF TypeOK, BackendTypeOK
  <2> QED BY <2>1 DEF Preparing, PathQueued
<1>5. ASSUME NEW j \in Iter \ {i}
      PROVE  /\ j \in openFiles' => j \in onDisk'
             /\ written'[j] => j \in onDisk'
             /\ j \in onDisk' => written'[j]
             /\ ~written'[j] => disk'[j][j] = Blank
  BY <1>1, <1>2 DEF ExistInv, Effects, Elsewhere
<1>6. /\ i \in openFiles' => i \in onDisk'
      /\ written'[i] => i \in onDisk'
      /\ i \in onDisk' => written'[i] \/ PathQueued(i)'
  <2>1. CASE n = 3
    BY <1>0, <1>3, <2>1 DEF Effects
  <2>2. CASE n = 2
    BY <1>0, <1>1, <1>3, <2>2 DEF Effects, ExistInv
  <2>3. CASE n = 1
    <3>1. i \in onDisk
      BY <1>0, <1>1, <2>3 DEF Prepared, ExistInv
    <3> QED BY <2>3, <3>1 DEF Effects
  <2>4. CASE n = 0
    <3>1. i \in onDisk /\ written[i]
      BY <1>0, <1>1, <1>4, <2>4 DEF Effects, Opened, ExistInv
    <3> QED BY <2>4, <3>1 DEF Effects
  <2> QED BY <2>1, <2>2, <2>3, <2>4
<1>7. ~written'[i] => disk'[i][i] = disk[i][i] /\ ~written[i]
  <2>1. CASE n \in {2, 3}
    <3>1. t.op \notin {"WRITE_ATT", "WRITE_DATASET", "WRITE_GROUP_ATT"}
      <4>1. t.op \in FileTasks \cup BasePathTasks
        BY <1>0, <2>1 DEF Preparing
      <4> QED BY <4>1 DEF FileTasks, BasePathTasks
    <3>2. disk'[i][i] \in Content /\ disk[i][i] \in Content
      <4>1. TypeOK'
        BY TypeNext DEF Next, Internal
      <4> QED BY <1>0, <4>1 DEF TypeOK, BackendTypeOK
    <3>3. disk'[i][i] = disk[i][i]
      BY <3>1, <3>2 DEF Effects, Stores, Content
    <3> QED BY <2>1, <3>3 DEF Effects
  <2>2. CASE n = 1
    BY <2>2 DEF Effects
  <2>3. CASE n = 0
    <3>1. written[i]
      BY <1>0, <1>1, <1>4, <2>3 DEF Effects, Opened, ExistInv
    <3> QED BY <3>1 DEF Effects
  <2> QED BY <2>1, <2>2, <2>3
<1>8. ~written[i] => disk[i][i] = Blank
  BY <1>0, <1>1 DEF ExistInv
<1>9. ExistInv'
  BY <1>0, <1>5, <1>6, <1>7, <1>8 DEF ExistInv
<1> QED BY <1>2, <1>3, <1>9

\* Every queued task but the head is queued afterwards.
LEMMA StaysQueued ==
  ASSUME TypeOK, WorkflowInv, Drain, NEW x, Queued(x), x # Head(m_work)
  PROVE  Queued(x)'
<1>1. m_work # <<>> /\ m_work' = Tail(m_work)
  BY DEF Drain, ProcessTask
<1>2. \E k \in DOMAIN m_work' : m_work'[k] = x
  BY <1>1, Popped DEF Queued
<1> QED BY <1>2 DEF Queued

\* The file of the iteration at work is open while the user has not closed it.
LEMMA DrainOpens ==
  ASSUME LifecycleInv, WorkflowInv, Drain, NEW t, t = Head(m_work), NEW i, i = t.it,
         NEW n \in 0 .. 3, Preparing(n), Prepared(n, i), Effects(n, t, i),
         InUse(m_closed[i])
  PROVE  Opened(i)' \/ PathQueued(i)'
<1>0. TypeOK /\ t = m_work[1] /\ 1 \in DOMAIN m_work
  BY DrainKeeps DEF LifecycleInv
<1>1. CASE n \in {2, 3}
  BY <1>0, <1>1, DrainExist
<1>2. CASE n = 1
  BY <1>0, <1>2 DEF Effects, Opened, Prepared
<1>3. CASE n = 0
  <2>1. t.op # "CLOSE_FILE"
    BY <1>0 DEF LifecycleInv, CloseIsFinal, InUse
  <2> QED BY <1>3, <2>1 DEF Effects
<1> QED BY <1>1, <1>2, <1>3

LEMMA DrainOpen ==
  ASSUME LifecycleInv, WorkflowInv, Drain, NEW t, t = Head(m_work), NEW i, i = t.it,
         NEW n \in 0 .. 3, Preparing(n), Prepared(n, i), Effects(n, t, i)
  PROVE  OpenInv' /\ FlushedInv'
<1>0. /\ TypeOK /\ t = m_work[1] /\ 1 \in DOMAIN m_work /\ i \in Iter /\ t \in IOTask
      /\ UNCHANGED <<m_closed, dirty, pending, emptyRecord, iterations, call, todo, access>>
      /\ m_closed[i] # "ClosedTemporarily"
      /\ \A j \in Iter : AtWork(j)' <=> AtWork(j)
      /\ \A k \in DOMAIN m_work : m_work[k].it = i
  BY DrainKeeps DEF LifecycleInv, objects, control
<1>1. InUse(m_closed[i]) => Opened(i)' \/ PathQueued(i)'
  BY DrainOpens
<1>2. m_closed[i] = "ClosedInBackend" => i \notin openFiles' \/ Queued(Task("CLOSE_FILE", i))'
  <2>1. CASE t.op = "CLOSE_FILE"
    <3>1. n = 0
      BY <1>0, <2>1 DEF Preparing, FileTasks, BasePathTasks, PathTasks
    <3> QED BY <2>1, <3>1 DEF Effects
  <2>2. CASE t.op # "CLOSE_FILE" /\ m_closed[i] = "ClosedInBackend"
    <3>1. Queued(Task("CLOSE_FILE", i))
      BY <1>0, <2>2 DEF LifecycleInv, NoAccessAfterClose
    <3>2. Task("CLOSE_FILE", i) # t
      BY <2>2 DEF Task
    <3> QED BY <1>0, <3>1, <3>2, StaysQueued
  <2> QED BY <2>1, <2>2
<1>3. \A j \in Iter \ {i} : /\ ~PathQueued(j) /\ ~Queued(Task("CLOSE_FILE", j))
                            /\ (j \in openFiles' <=> j \in openFiles)
                            /\ (Opened(j)' <=> Opened(j))
  BY <1>0 DEF PathQueued, Queued, Task, Effects, Elsewhere, Opened
<1>4. OpenInv'
  <2>1. ASSUME NEW j \in Iter
        PROVE  /\ m_closed'[j] \in {"Open", "ClosedInFrontend"} =>
                    Opened(j)' \/ dirtyRecursive(j)' \/ PathQueued(j)'
               /\ m_closed'[j] = "ClosedTemporarily" => j \notin openFiles'
               /\ m_closed'[j] = "ClosedInBackend" =>
                    j \notin openFiles' \/ Queued(Task("CLOSE_FILE", j))'
    <3>1. CASE j = i
      BY <1>0, <1>1, <1>2, <3>1 DEF InUse
    <3>2. CASE j # i
      <4>1. dirtyRecursive(j)' <=> dirtyRecursive(j)
        BY <1>0 DEF dirtyRecursive
      <4> QED BY <1>0, <1>3, <3>2, <4>1 DEF WorkflowInv, OpenInv
    <3> QED BY <3>1, <3>2
  <2> QED BY <2>1 DEF OpenInv, Queued, Task
<1>5. FlushedInv'
  <2>1. \A j \in Iter : (Concerned(j)' <=> Concerned(j)) /\ (Flushed(j)' <=> Flushed(j))
    BY <1>0 DEF Flushed, Concerned
  <2>2. todo' \subseteq {j \in Iter : Concerned(j)'}
    BY <1>0, <2>1 DEF WorkflowInv, FlushedInv
  <2>3. ASSUME NEW j \in Iter, Flushed(j)'
        PROVE  /\ Writing' => ~dirty'[j] /\ ~pending'[j]
               /\ m_closed'[j] \in {"Open", "ClosedInFrontend"} => Opened(j)' \/ PathQueued(j)'
    <3>1. Flushed(j)
      BY <2>1, <2>3
    <3>2. Writing' => ~dirty'[j] /\ ~pending'[j]
      BY <1>0, <3>1 DEF WorkflowInv, FlushedInv, Writing
    <3>3. CASE j = i
      BY <1>0, <1>1, <3>2, <3>3 DEF InUse
    <3>4. CASE j # i
      BY <1>0, <1>3, <3>1, <3>2, <3>4 DEF WorkflowInv, FlushedInv
    <3> QED BY <3>3, <3>4
  <2> QED BY <2>2, <2>3 DEF FlushedInv
<1> QED BY <1>4, <1>5

LEMMA DrainValue ==
  ASSUME TypeOK, WorkflowInv, Drain, NEW t, t = Head(m_work), NEW i, i = t.it,
         NEW n \in 0 .. 3, Preparing(n), Prepared(n, i), Effects(n, t, i)
  PROVE  ValueInv'
<1>0. /\ m_work # <<>> /\ m_work' = Tail(m_work) /\ t = m_work[1] /\ 1 \in DOMAIN m_work
      /\ i \in Iter /\ t \in IOTask
      /\ UNCHANGED <<mem, dirty, pending, groupDirty, iterations, access>>
      /\ \A k \in DOMAIN m_work : m_work[k].it = i
      /\ Stores(t, i) /\ Elsewhere(i)
  BY DrainKeeps DEF objects, user, Effects
<1>1. /\ t.op = "WRITE_ATT" => t.ver = mem[i].attr
      /\ t.op = "WRITE_DATASET" => t.ver = mem[i].data
      /\ t.op = "WRITE_GROUP_ATT" => t.ver = mem[i].group
  BY <1>0 DEF WorkflowInv, VersionInv
<1>2. ASSUME NEW x, Queued(x) PROVE x = t \/ \E k \in DOMAIN m_work' : m_work'[k] = x
  BY <1>0, <1>2, Popped DEF Queued
<1>3. ASSUME NEW j \in Iter
      PROVE  /\ \/ disk'[j][j].attr = mem[j].attr
                \/ dirty[j] /\ Unsaved(j)
                \/ \E k \in DOMAIN m_work' : m_work'[k] = VersionTask("WRITE_ATT", j, mem[j].attr)
             /\ \/ disk'[j][j].data = mem[j].data
                \/ pending[j] /\ Writing
                \/ \E k \in DOMAIN m_work' : m_work'[k] = VersionTask("WRITE_DATASET", j, mem[j].data)
             /\ \/ disk'[j][j].group = mem[j].group
                \/ groupDirty[j] /\ Writing
                \/ \E k \in DOMAIN m_work' : m_work'[k] = VersionTask("WRITE_GROUP_ATT", j, mem[j].group)
  <2>1. /\ \/ disk[j][j].attr = mem[j].attr
           \/ dirty[j] /\ Unsaved(j)
           \/ Queued(VersionTask("WRITE_ATT", j, mem[j].attr))
        /\ \/ disk[j][j].data = mem[j].data
           \/ pending[j] /\ Writing
           \/ Queued(VersionTask("WRITE_DATASET", j, mem[j].data))
        /\ \/ disk[j][j].group = mem[j].group
           \/ groupDirty[j] /\ Writing
           \/ Queued(VersionTask("WRITE_GROUP_ATT", j, mem[j].group))
    BY DEF WorkflowInv, ValueInv
  <2>2. CASE j = i
    <3>1. /\ disk[i][i].attr = mem[i].attr => disk'[i][i].attr = mem[i].attr
          /\ disk[i][i].data = mem[i].data => disk'[i][i].data = mem[i].data
          /\ disk[i][i].group = mem[i].group => disk'[i][i].group = mem[i].group
      BY <1>0, <1>1 DEF Stores
    <3>2. t = VersionTask("WRITE_ATT", i, mem[i].attr) => disk'[i][i].attr = mem[i].attr
      BY <1>0 DEF Stores, VersionTask
    <3>3. t = VersionTask("WRITE_DATASET", i, mem[i].data) => disk'[i][i].data = mem[i].data
      BY <1>0 DEF Stores, VersionTask
    <3>4. t = VersionTask("WRITE_GROUP_ATT", i, mem[i].group) => disk'[i][i].group = mem[i].group
      BY <1>0 DEF Stores, VersionTask
    <3> QED BY <1>2, <2>1, <2>2, <3>1, <3>2, <3>3, <3>4
  <2>3. CASE j # i
    <3>1. \A o, v : ~Queued(VersionTask(o, j, v))
      BY <1>0, <2>3 DEF Queued, VersionTask
    <3>2. disk'[j][j] = disk[j][j]
      BY <1>0, <2>3 DEF Elsewhere
    <3> QED BY <2>1, <3>1, <3>2
  <2> QED BY <2>2, <2>3
<1>4. (Writing' <=> Writing) /\ \A j : Unsaved(j)' <=> Unsaved(j)
  BY <1>0 DEF Unsaved, Writing
<1> QED BY <1>0, <1>3, <1>4 DEF ValueInv, Queued, VersionTask

LEMMA DrainVersion ==
  ASSUME TypeOK, WorkflowInv, Drain, NEW t, t = Head(m_work), NEW i, i = t.it,
         NEW n \in 0 .. 3, Preparing(n), Prepared(n, i), Effects(n, t, i)
  PROVE  VersionInv'
<1>0. /\ m_work # <<>> /\ m_work' = Tail(m_work) /\ t = m_work[1] /\ 1 \in DOMAIN m_work
      /\ i \in Iter /\ mem' = mem /\ Stores(t, i) /\ Elsewhere(i)
  BY DrainKeeps DEF user, Effects
<1>1. VersionInv
  BY DEF WorkflowInv
<1>2. \A k \in DOMAIN m_work' : k + 1 \in DOMAIN m_work /\ m_work'[k] = m_work[k + 1]
  BY <1>0, Popped
<1>3. ASSUME NEW k \in DOMAIN m_work', NEW x, x = m_work'[k]
      PROVE  /\ x.op = "WRITE_ATT" => x.ver = mem[x.it].attr
             /\ x.op = "WRITE_DATASET" => x.ver = mem[x.it].data
             /\ x.op = "WRITE_GROUP_ATT" => x.ver = mem[x.it].group
  BY <1>1, <1>2, <1>3 DEF VersionInv
<1>4. /\ t.op = "WRITE_ATT" => t.ver = mem[i].attr
      /\ t.op = "WRITE_DATASET" => t.ver = mem[i].data
  BY <1>0, <1>1 DEF VersionInv
<1>5. ASSUME NEW j \in Iter
      PROVE  disk'[j][j].attr <= mem[j].attr /\ disk'[j][j].data <= mem[j].data
  <2>1. disk[j][j].attr <= mem[j].attr /\ disk[j][j].data <= mem[j].data
        /\ mem[j].attr \in Nat /\ mem[j].data \in Nat
    BY <1>1, ContentParts DEF VersionInv
  <2>2. CASE j = i
    BY <1>0, <1>4, <2>1, <2>2 DEF Stores
  <2>3. CASE j # i
    BY <1>0, <2>1, <2>3 DEF Elsewhere
  <2> QED BY <2>2, <2>3
<1> QED BY <1>0, <1>3, <1>5 DEF VersionInv

LEMMA DrainWorks ==
  ASSUME LifecycleInv, WorkflowInv, Drain
  PROVE  WorkflowInv'
<1> SUFFICES ASSUME NEW t, t = Head(m_work), NEW i, i = t.it PROVE WorkflowInv'
  OBVIOUS
<1>0. TypeOK /\ m_work # <<>>
  BY DEF LifecycleInv, Drain, ProcessTask
<1>1. PICK n \in 0 .. 3 : Preparing(n) /\ Prepared(n, i)
  BY <1>0, HeadPrepared
<1>2. Effects(n, t, i)
  BY <1>0, <1>1, HeadEffects
<1>3. TasksInv' /\ PrologueInv' /\ ExistInv'
  BY <1>0, <1>1, <1>2, DrainTasks, DrainPrologue, DrainExist
<1>4. OpenInv' /\ FlushedInv' /\ ValueInv' /\ VersionInv'
  BY <1>0, <1>1, <1>2, DrainOpen, DrainValue, DrainVersion
<1>5. UNCHANGED <<phase, call, todo, m_closed, emptyRecord>>
  BY DEF Drain, objects, control
<1>6. CallInv' /\ \A j \in Iter : ~emptyRecord'[j]
  BY <1>5 DEF WorkflowInv, CallInv, closed
<1> QED BY <1>3, <1>4, <1>6 DEF WorkflowInv

-----------------------------------------------------------------------------
(* Every step.                                                             *)

LEMMA WorkflowInit ==
  ASSUME Init
  PROVE  WorkflowInv
<1>0. /\ m_work = <<>> /\ DOMAIN m_work = {} /\ Len(m_work) = 0
      /\ phase = "idle" /\ call.op = "none" /\ todo = {}
  BY DEF Init, NoCall
<1>1. TasksInv
  BY <1>0 DEF TasksInv
<1>2. PrologueInv
  <2>1. Preparing(0)
    BY <1>0 DEF Preparing
  <2> QED BY <1>0, <2>1 DEF PrologueInv
<1>3. ASSUME NEW i \in Iter
      PROVE  /\ mem[i].attr = 1 /\ mem[i].data = 0 /\ mem[i].group = 0
             /\ i \in onDisk => disk[i][i] = mem[i]
             /\ i \notin onDisk => disk[i][i] = Blank
             /\ i \in iterations <=> i \in onDisk
             /\ dirty[i] <=> i \notin onDisk
             /\ written[i] <=> i \in onDisk
             /\ m_closed[i] = IF i \in onDisk THEN "ClosedTemporarily" ELSE "Open"
             /\ i \notin openFiles /\ ~emptyRecord[i]
  <2>1. mem[i] = [Blank EXCEPT !.attr = 1]
    BY DEF Init
  <2>2. mem[i] = [attr |-> 1, group |-> 0, data |-> 0]
    BY <2>1 DEF Blank
  <2> QED BY <2>2 DEF Init
<1>4. ExistInv
  BY <1>3 DEF ExistInv
<1>5. OpenInv
  BY <1>3 DEF OpenInv, dirtyRecursive
<1>6. FlushedInv
  BY <1>0 DEF FlushedInv, Flushed, Concerned
<1>7. ASSUME NEW i \in Iter
      PROVE  /\ disk[i][i].data = mem[i].data /\ disk[i][i].group = mem[i].group
             /\ disk[i][i].attr = mem[i].attr \/ (dirty[i] /\ i \notin iterations)
             /\ disk[i][i].attr <= mem[i].attr /\ disk[i][i].data <= mem[i].data
  <2>1. Blank.attr = 0 /\ Blank.data = 0 /\ Blank.group = 0
    BY DEF Blank
  <2>2. CASE i \in onDisk
    <3>1. disk[i][i] = mem[i] /\ mem[i].attr = 1 /\ mem[i].data = 0
      BY <1>3, <2>2
    <3> QED BY <3>1
  <2>3. CASE i \notin onDisk
    <3>1. disk[i][i] = Blank /\ mem[i].attr = 1 /\ mem[i].data = 0 /\ mem[i].group = 0
      BY <1>3, <2>3
    <3>2. dirty[i] /\ i \notin iterations
      BY <1>3, <2>3
    <3> QED BY <2>1, <3>1, <3>2
  <2> QED BY <2>2, <2>3
<1>8. ValueInv /\ VersionInv
  BY <1>0, <1>7 DEF ValueInv, VersionInv, Unsaved
<1>9. CallInv
  BY <1>0 DEF CallInv
<1> QED BY <1>1, <1>2, <1>3, <1>4, <1>5, <1>6, <1>7, <1>8, <1>9 DEF WorkflowInv

LEMMA Undisturbed ==
  ASSUME CallAPI \/ FlushDone \/ StepOnClosed \/ LastDrained \/ Return \/ ReturnToLoop
           \/ \E i \in Iter : RejectUnwritten(i) \/ RejectAccess(i) \/ SkipClosed(i) \/ Drained(i)
  PROVE  m_work' = m_work /\ UNCHANGED storage
<1>1. CASE CallAPI
  BY <1>1 DEF CallAPI, Flush, FlushNothing, Destroy, Close, Open, SwitchTo, ReadFirst,
     ReadNext, closeIteration
<1>2. CASE \E i \in Iter : RejectUnwritten(i) \/ RejectAccess(i) \/ SkipClosed(i) \/ Drained(i)
  BY <1>2 DEF RejectUnwritten, RejectAccess, SkipClosed, Drained
<1>3. CASE FlushDone \/ StepOnClosed \/ LastDrained
  BY <1>3 DEF FlushDone, StepOnClosed, LastDrained, flushEnds
<1>4. CASE Return \/ ReturnToLoop
  BY <1>4 DEF Return, ReturnToLoop, afterCall
<1> QED BY <1>1, <1>2, <1>3, <1>4

\* No handler throws.
LEMMA NothingThrows ==
  ASSUME Plain, TypeOK, WorkflowInv
  PROVE  ~BackendThrows
<1>1. m_work # <<>> /\ Draining => ~Refused(Head(m_work))
  BY TaskFinds DEF TaskFindsItsFile
<1>2. failures = 0
  BY DEF Plain, TypeOK, ControlTypeOK
<1> QED BY <1>1, <1>2 DEF BackendThrows, Plain

LEMMA WorkflowNext ==
  ASSUME Plain, LifecycleInv, WorkflowInv, [Next]_vars
  PROVE  WorkflowInv'
<1>0. TypeOK /\ ExistInv /\ TasksInv
  BY DEF LifecycleInv, WorkflowInv
<1>1. CASE Modify
  <2>1. m_work = <<>>
    BY <1>0, <1>1 DEF Modify, Insert, SetAttribute, StoreChunk, LoadChunk, CreateEmptyRecord,
       SetGroupAttribute, SetSeriesAttribute, Idle, TasksInv, Draining
  <2>2. SettledInv
    BY <2>1, WorkflowSettles
  <2>3. SettledInv' /\ m_work' = m_work /\ UNCHANGED storage /\ phase' # "drain"
    BY <1>0, <1>1, <2>2, ModifySettles DEF Idle
  <2> QED BY <1>0, <2>1, <2>3, SettledWorks
<1>2. CASE CallAPI
  <2>1. m_work = <<>>
    BY <1>0, <1>2 DEF CallAPI, Flush, FlushNothing, Destroy, Close, Open, SwitchTo, ReadFirst,
       ReadNext, Idle, TasksInv, Draining
  <2>2. SettledInv
    BY <2>1, WorkflowSettles
  <2>3. SettledInv' /\ m_work' = m_work /\ UNCHANGED storage /\ phase' # "drain"
    BY <1>2, <2>2, CallSettles, Undisturbed
  <2> QED BY <1>0, <2>1, <2>3, SettledWorks
<1>3. CASE FlushDone \/ StepOnClosed \/ LastDrained \/ Return \/ ReturnToLoop
             \/ \E i \in Iter : RejectUnwritten(i) \/ RejectAccess(i) \/ SkipClosed(i) \/ Drained(i)
  <2>1. m_work = <<>>
    BY <1>0, <1>3 DEF FlushDone, StepOnClosed, LastDrained, Return, ReturnToLoop, LoopDone,
       RejectUnwritten, RejectAccess, SkipClosed, Drained, Reached, TasksInv, Draining
  <2>2. SettledInv
    BY <2>1, WorkflowSettles
  <2>3. SettledInv' /\ phase' # "drain"
    BY <1>3, <2>2, TurnSettles
  <2>4. m_work' = m_work /\ UNCHANGED storage
    BY <1>3, Undisturbed
  <2> QED BY <1>0, <2>1, <2>3, <2>4, SettledWorks
<1>4. CASE Advance \/ \E i \in Iter : WriteIteration(i) \/ ReadIteration(i) \/ PassClean(i)
  <2>1. m_work = <<>>
    BY <1>0, <1>4 DEF Advance, WriteIteration, ReadIteration, PassClean, Reached, LoopDone,
       TasksInv, Draining
  <2>2. SettledInv
    BY <2>1, WorkflowSettles
  <2> QED BY <1>0, <1>4, <2>1, <2>2, AdvanceWorks, WriteWorks, ReadWorks, PassWorks
<1>5. CASE Drain
  BY <1>5, DrainWorks
<1>6. \A i \in Iter, early \in BOOLEAN : ~RejectRecord(i, early)
  BY DEF WorkflowInv, RejectRecord
<1>7. ~BackendThrows
  BY <1>0, NothingThrows
<1>8. CASE UNCHANGED vars
  <2>1. UNCHANGED <<m_work, iterations, m_closed, dirty, pending, groupDirty, emptyRecord,
                    phase, call, todo, mem, storage>>
    BY <1>8 DEF vars, objects, control, user
  <2>2. UNCHANGED <<seriesWritten, basePathWritten, written, seriesFile, basePathFile,
                    iterationFile, openFiles, onDisk, disk, access>>
    BY <2>1 DEF storage, flags, assocs, files, fixed
  <2>3. TasksInv' /\ CallInv' /\ VersionInv' /\ \A i \in Iter : ~emptyRecord'[i]
    BY <2>1, <2>2 DEF WorkflowInv, TasksInv, CallInv, VersionInv, Draining, AtWork, Least, closed
  <2>4. PrologueInv'
    BY <2>1, <2>2 DEF WorkflowInv, PrologueInv, Preparing, Prepared, AtWork, Least, Leaving, Opened
  <2>5. ExistInv' /\ OpenInv'
    BY <2>1, <2>2 DEF WorkflowInv, ExistInv, OpenInv, PathQueued, Queued, Opened, dirtyRecursive
  <2>6. FlushedInv'
    BY <2>1, <2>2 DEF WorkflowInv, FlushedInv, Flushed, Concerned, AtWork, Least, PathQueued,
       Opened, Writing
  <2>7. ValueInv'
    BY <2>1, <2>2 DEF WorkflowInv, ValueInv, Unsaved, Queued, Writing
  <2> QED BY <2>3, <2>4, <2>5, <2>6, <2>7 DEF WorkflowInv
<1> QED BY <1>1, <1>2, <1>3, <1>4, <1>5, <1>6, <1>7, <1>8 DEF Next, Internal, Visit

-----------------------------------------------------------------------------
(* What the invariant says to the user.                                    *)

LEMMA NothingLost ==
  ASSUME TypeOK, WorkflowInv
  PROVE  NoLostUpdate
<1>1. iterations \subseteq Iter
  BY DEF TypeOK, ObjectTypeOK
<1> QED BY <1>1 DEF WorkflowInv, ValueInv, NoLostUpdate

\* The equality of contents, part by part.
LEMMA SameContent ==
  ASSUME TypeOK, NEW i \in Iter, disk[i][i].attr = mem[i].attr, disk[i][i].data = mem[i].data,
         disk[i][i].group = mem[i].group
  PROVE  disk[i][i] = mem[i]
<1>1. mem[i] \in Content /\ disk[i][i] \in Content
  BY ContentParts
<1> QED BY <1>1 DEF Content

LEMMA ClosedDurable ==
  ASSUME TypeOK, WorkflowInv
  PROVE  ClosedIsDurable
<1> SUFFICES ASSUME NEW i \in iterations, Idle, m_closed[i] = "ClosedInBackend",
                    ~dirtyRecursive(i), ~groupDirty[i]
             PROVE  disk[i][i] = mem[i] /\ i \notin openFiles
  BY DEF ClosedIsDurable
<1>1. m_work = <<>> /\ i \in Iter
  BY DEF Idle, WorkflowInv, TasksInv, Draining, TypeOK, ObjectTypeOK
<1>2. ObjectInv(i)
  BY <1>1, WorkflowSettles DEF SettledInv
<1>3. /\ disk[i][i].attr = mem[i].attr /\ disk[i][i].data = mem[i].data
      /\ disk[i][i].group = mem[i].group /\ i \notin openFiles
  BY <1>2 DEF ObjectInv, dirtyRecursive
<1> QED BY <1>1, <1>3, SameContent

LEMMA FlushSaves ==
  ASSUME TypeOK, WorkflowInv
  PROVE  FlushSavesIterations
<1> SUFFICES ASSUME phase = "return", call.op = "flush", NEW i \in iterations
             PROVE  disk[i][i].attr = mem[i].attr /\ disk[i][i].data = mem[i].data
  BY DEF FlushSavesIterations
<1>1. m_work = <<>> /\ i \in Iter
  BY DEF WorkflowInv, TasksInv, Draining, TypeOK, ObjectTypeOK
<1>2. SettledInv
  BY <1>1, WorkflowSettles
<1>3. ObjectInv(i) /\ FlushedOK(i)
  BY <1>1, <1>2 DEF SettledInv, CallInv, Flushed, Concerned
<1> QED BY <1>3 DEF ObjectInv, FlushedOK, Unsaved

-----------------------------------------------------------------------------
(* A closed iteration stays closed for its user.                           *)

\* A call that steps on an iteration closed in the frontend goes on.
LEMMA PretenceKeeps ==
  ASSUME NEW i \in Iter, closedToUser(i), ~closed(i), call' = call
  PROVE  closedToUser(i)'
BY DEF closedToUser

LEMMA StepRemembers ==
  ASSUME TypeOK, NEW op \in {"begin", "end"}, NEW i \in Iter, NEW s, NEW next,
         startStep(op, i, s, next), NEW j \in Iter, closed(j),
         s = m_closed[i] \/ s = "ClosedInFrontend"
  PROVE  closedToUser(j)'
<1>1. m_closed' = [m_closed EXCEPT ![i] = IF s = "ClosedInFrontend" THEN "Open" ELSE s]
      /\ call'.op = op /\ call'.it = i /\ call'.old = s
      /\ m_closed \in [Iter -> CloseStatus]
  BY DEF startStep, startFlush, TypeOK, ObjectTypeOK
<1>2. CASE j = i
  <2>1. s \in {"ClosedInFrontend", "ClosedInBackend"}
    BY <1>2 DEF closed
  <2> QED BY <1>1, <1>2, <2>1 DEF closedToUser, closed
<1>3. CASE j # i
  BY <1>1, <1>3 DEF closedToUser, closed
<1> QED BY <1>2, <1>3

LEMMA CloseRemembers ==
  ASSUME TypeOK, NEW i \in Iter, NEW now \in BOOLEAN, NEW next,
         closeIteration(i, now, next), NEW j \in Iter, closed(j)
  PROVE  closedToUser(j)'
<1> DEFINE status == CASE m_closed[i] = "ClosedInBackend" -> "ClosedInBackend"
                       [] m_closed[i] = "ClosedTemporarily" /\ ~dirtyRecursive(i)
                            /\ ~Writing -> "ClosedInBackend"
                       [] OTHER -> "ClosedInFrontend"
<1>1. status \in {"ClosedInFrontend", "ClosedInBackend"}
      /\ (closed(i) => status = m_closed[i] \/ status = "ClosedInFrontend")
  BY DEF closed
<1>2. CASE startStep("end", i, status, next)
  <2> HIDE DEF status
  <2>1. m_closed' = [m_closed EXCEPT ![i] = IF status = "ClosedInFrontend" THEN "Open" ELSE status]
        /\ call'.op = "end" /\ call'.it = i /\ call'.old = status
        /\ m_closed \in [Iter -> CloseStatus]
    BY <1>2 DEF startStep, startFlush, TypeOK, ObjectTypeOK
  <2>2. CASE j = i
    BY <1>1, <2>1, <2>2 DEF closedToUser, closed
  <2>3. CASE j # i
    BY <2>1, <2>3 DEF closedToUser, closed
  <2> QED BY <2>2, <2>3
<1>3. CASE m_closed' = [m_closed EXCEPT ![i] = status]
  <2> HIDE DEF status
  <2> QED BY <1>1, <1>3 DEF closedToUser, closed, TypeOK, ObjectTypeOK
<1> QED BY <1>2, <1>3 DEF closeIteration

\* Between two calls only what is closed is closed to the user.
LEMMA IdleCloses ==
  ASSUME WorkflowInv, Idle, NEW j \in Iter, closedToUser(j)
  PROVE  closed(j)
BY DEF WorkflowInv, CallInv, Idle, closedToUser

LEMMA CallRemembers ==
  ASSUME TypeOK, WorkflowInv, CallAPI \/ Modify, NEW j \in Iter, closedToUser(j)
  PROVE  closedToUser(j)'
<1>0. Idle /\ closed(j)
  <2>1. Idle
    BY DEF CallAPI, Flush, FlushNothing, Destroy, Close, Open, SwitchTo, ReadFirst, ReadNext,
       Modify, Insert, SetAttribute, StoreChunk, LoadChunk, CreateEmptyRecord,
       SetGroupAttribute, SetSeriesAttribute
  <2> QED BY <2>1, IdleCloses
<1>1. CASE UNCHANGED m_closed
  BY <1>0, <1>1 DEF closedToUser, closed
<1>2. CASE Modify \/ Flush \/ FlushNothing \/ Destroy \/ \E i \in Iter : Open(i)
  <2>1. UNCHANGED m_closed
    BY <1>2 DEF Modify, Insert, SetAttribute, StoreChunk, LoadChunk, CreateEmptyRecord,
       SetGroupAttribute, SetSeriesAttribute, Flush, FlushNothing, Destroy, Open, objects
  <2> QED BY <1>1, <2>1
<1>3. ASSUME NEW i \in Iter, NEW now \in BOOLEAN, Close(i, now) PROVE closedToUser(j)'
  BY <1>0, <1>3, CloseRemembers DEF Close
<1>4. ASSUME NEW i \in Iter, SwitchTo(i) PROVE closedToUser(j)'
  <2>1. CASE select(i)
    BY <1>0, <1>1, <2>1, StepRemembers DEF select
  <2>2. CASE currentlyOpen # None /\ closeIteration(currentlyOpen, TRUE, i)
    BY <1>0, <2>2, CloseRemembers DEF TypeOK, UserTypeOK
  <2> QED BY <1>4, <2>1, <2>2 DEF SwitchTo
<1>5. ASSUME NEW i \in Iter, ReadFirst(i) PROVE closedToUser(j)'
  BY <1>0, <1>5, StepRemembers DEF ReadFirst
<1>6. ASSUME NEW i \in Iter \cup {None}, ReadNext(i) PROVE closedToUser(j)'
  <2>1. CASE closeIteration(currentlyOpen, TRUE, i)
    BY <1>0, <1>6, <2>1, CloseRemembers DEF ReadNext, TypeOK, UserTypeOK
  <2>2. CASE i \in Iter /\ startStep("begin", i, m_closed[i], None)
    BY <1>0, <2>2, StepRemembers
  <2> QED BY <1>6, <2>1, <2>2 DEF ReadNext
<1> QED BY <1>2, <1>3, <1>4, <1>5, <1>6 DEF CallAPI

LEMMA ReturnRemembers ==
  ASSUME TypeOK, WorkflowInv, Return \/ ReturnToLoop, NEW j \in Iter, closedToUser(j)
  PROVE  closedToUser(j)'
<1>0. phase = "return" /\ closed(j)
  BY DEF Return, ReturnToLoop, WorkflowInv, CallInv, closedToUser
<1>1. CASE UNCHANGED m_closed
  BY <1>0, <1>1 DEF closedToUser, closed
<1>2. CASE Return
  BY <1>1, <1>2 DEF Return
<1>3. CASE ReturnToLoop
  <2>1. call.next \in Iter
    BY <1>3 DEF ReturnToLoop, TypeOK, ControlTypeOK, Call
  <2>2. CASE startStep("begin", call.next, m_closed[call.next], None)
    BY <1>0, <2>1, <2>2, StepRemembers
  <2> QED BY <1>1, <1>3, <2>2 DEF ReturnToLoop, select
<1> QED BY <1>2, <1>3

\* The flush of a step visits nothing but the step's iteration, and that is open.
LEMMA RejectRemembers ==
  ASSUME LifecycleInv, WorkflowInv, NEW i \in Iter, RejectUnwritten(i) \/ RejectAccess(i),
         NEW j \in Iter, closedToUser(j)
  PROVE  closedToUser(j)'
<1>1. /\ m_closed' = m_closed /\ m_closed[i] = "ClosedInBackend"
      /\ phase = "flush" /\ i \in todo
  BY DEF RejectUnwritten, RejectAccess, objects, Reached, Least
<1>2. CASE closed(j)
  BY <1>1, <1>2 DEF closedToUser, closed
<1>3. CASE ~closed(j)
  <2>1. call.op \in {"begin", "end"} /\ call.it = j /\ call.old = "ClosedInFrontend"
    BY <1>3 DEF closedToUser
  <2>2. i = j
    BY <1>1, <2>1 DEF WorkflowInv, FlushedInv, Concerned
  <2>3. m_closed[j] = "Open"
    BY <1>1, <2>1 DEF LifecycleInv, StepIsOpen
  <2> QED BY <1>1, <2>2, <2>3
<1> QED BY <1>2, <1>3

\* The other steps of a call.
LEMMA TurnRemembers ==
  ASSUME LifecycleInv, WorkflowInv,
         \/ Drain \/ FlushDone \/ StepOnClosed \/ LastDrained \/ Advance
         \/ \E i \in Iter : \/ WriteIteration(i) \/ ReadIteration(i) \/ PassClean(i)
                            \/ SkipClosed(i) \/ Drained(i),
         NEW j \in Iter, closedToUser(j)
  PROVE  closedToUser(j)'
<1>0. /\ call' = call
      /\ m_closed \in [Iter -> CloseStatus]
  BY DEF Drain, FlushDone, StepOnClosed, LastDrained, Advance, flushEnds, WriteIteration,
     ReadIteration, PassClean, SkipClosed, Drained, control, LifecycleInv, TypeOK, ObjectTypeOK
<1>1. CASE ~closed(j)
  BY <1>0, <1>1, PretenceKeeps
<1>2. CASE closed(j)
  <2>1. CASE UNCHANGED m_closed
    BY <1>2, <2>1 DEF closedToUser, closed
  <2>2. ASSUME NEW i \in Iter, WriteIteration(i) \/ ReadIteration(i) \/ PassClean(i)
        PROVE  closedToUser(j)'
    <3>1. m_closed'[j] = m_closed[j] \/ m_closed'[j] = "ClosedInBackend"
      BY <1>0, <1>2, <2>2 DEF WriteIteration, ReadIteration, PassClean, enqueueAndClose,
         reopened, closed
    <3> QED BY <1>2, <3>1 DEF closedToUser, closed
  <2>3. CASE Advance
    <3>1. call.it # j
      BY <1>2, <2>3 DEF LifecycleInv, StepIsOpen, Advance, LoopDone, closed
    <3>2. m_closed'[j] = m_closed[j]
      BY <1>0, <2>3, <3>1 DEF Advance
    <3> QED BY <1>2, <3>2 DEF closedToUser, closed
  <2>4. CASE Drain \/ FlushDone \/ StepOnClosed \/ LastDrained
               \/ \E i \in Iter : SkipClosed(i) \/ Drained(i)
    BY <2>1, <2>4 DEF Drain, FlushDone, StepOnClosed, LastDrained, SkipClosed, Drained, objects
  <2> QED BY <2>2, <2>3, <2>4
<1> QED BY <1>1, <1>2

LEMMA ClosedRemains ==
  ASSUME Plain, LifecycleInv, WorkflowInv, [Next]_vars, NEW j \in Iter, closedToUser(j)
  PROVE  closedToUser(j)'
<1>0. TypeOK
  BY DEF LifecycleInv
<1>1. ~BackendThrows /\ \A i \in Iter, early \in BOOLEAN : ~RejectRecord(i, early)
  BY <1>0, NothingThrows DEF WorkflowInv, RejectRecord
<1>2. CASE UNCHANGED vars
  BY <1>2 DEF vars, objects, control, closedToUser, closed
<1> QED BY <1>0, <1>1, <1>2, CallRemembers, ReturnRemembers, RejectRemembers, TurnRemembers
        DEF Next, Internal, Visit

-----------------------------------------------------------------------------
(* The theorems.                                                           *)

LEMMA WorkflowHolds ==
  ASSUME Plain
  PROVE  Spec => [](LifecycleInv /\ WorkflowInv)
<1>1. Init => LifecycleInv /\ WorkflowInv
  BY LifecycleInit, WorkflowInit
<1>2. LifecycleInv /\ WorkflowInv /\ [Next]_vars => LifecycleInv' /\ WorkflowInv'
  BY LifecycleNext, WorkflowNext
<1> QED BY <1>1, <1>2, PTL DEF Spec

\* Whatever the order of flushes, steps and closes, the task about to run for an
\* iteration finds the iteration's file open, and does not throw.
THEOREM TasksFindTheirFiles ==
  ASSUME MaxFailures = 0, "empty_record" \notin Extras
  PROVE  Spec => []TaskFindsItsFile
<1>1. Plain
  BY DEF Plain
<1>2. LifecycleInv /\ WorkflowInv => TaskFindsItsFile
  BY TaskFinds DEF LifecycleInv
<1> QED BY <1>1, <1>2, WorkflowHolds, PTL

\* Every change is in its file, or something remembers that it has to be written.
THEOREM NothingIsLost ==
  ASSUME MaxFailures = 0, "empty_record" \notin Extras
  PROVE  Spec => []NoLostUpdate
<1>1. Plain
  BY DEF Plain
<1>2. LifecycleInv /\ WorkflowInv => NoLostUpdate
  BY NothingLost DEF LifecycleInv
<1> QED BY <1>1, <1>2, WorkflowHolds, PTL

\* Between two calls, a closed iteration that has not been touched since is complete
\* in its file, and the file is closed.
THEOREM ClosedIterationsAreDurable ==
  ASSUME MaxFailures = 0, "empty_record" \notin Extras
  PROVE  Spec => []ClosedIsDurable
<1>1. Plain
  BY DEF Plain
<1>2. LifecycleInv /\ WorkflowInv => ClosedIsDurable
  BY ClosedDurable DEF LifecycleInv
<1> QED BY <1>1, <1>2, WorkflowHolds, PTL

\* When Series::flush returns, every iteration is on disk.
THEOREM FlushSavesAll ==
  ASSUME MaxFailures = 0, "empty_record" \notin Extras
  PROVE  Spec => []FlushSavesIterations
<1>1. Plain
  BY DEF Plain
<1>2. LifecycleInv /\ WorkflowInv => FlushSavesIterations
  BY FlushSaves DEF LifecycleInv
<1> QED BY <1>1, <1>2, WorkflowHolds, PTL

\* Iteration::closed never goes back to false: the pretence of SeriesImpl::advance is
\* taken back before the call returns.
THEOREM ClosedStaysClosed ==
  ASSUME MaxFailures = 0, "empty_record" \notin Extras
  PROVE  Spec => StaysClosed
<1>1. Plain
  BY DEF Plain
<1>2. LifecycleInv /\ WorkflowInv /\ [Next]_vars =>
        [\A i \in Iter : closedToUser(i) => closedToUser(i)']_vars
  BY <1>1, ClosedRemains
<1> QED BY <1>1, <1>2, WorkflowHolds, PTL DEF Spec, StaysClosed

-----------------------------------------------------------------------------
(* The promise is kept: every step is one of IterationLifecycle, or none.  *)

PromiseStep == [Promise!LifecycleNext]_(Promise!lifecycleVars)

LEMMA PromiseInit ==
  ASSUME Init
  PROVE  Promise!Created
<1>1. TypeOK /\ WorkflowInv
  BY TypeInit, WorkflowInit
<1>2. \A i \in Iter : /\ mem[i].attr \in Version /\ mem[i].data \in Version
                      /\ disk[i][i].attr \in Version /\ disk[i][i].data \in Version
  <2>1. \A c \in Content : c.attr \in Version /\ c.data \in Version
    BY DEF Content
  <2> QED BY <1>1, <2>1 DEF TypeOK, BackendTypeOK, UserTypeOK
<1>3. \A i \in Iter : disk[i][i].attr <= mem[i].attr /\ disk[i][i].data <= mem[i].data
  BY <1>1 DEF WorkflowInv, VersionInv
<1>4. latest \in [Iter -> [attr : Version, data : Version]]
  BY <1>2 DEF latest, essential
<1>5. saved \in [Iter -> [attr : Version, data : Version]]
  BY <1>2 DEF saved, essential
<1>6. sealed = {}
  BY DEF Init, sealed
<1>7. \A i \in Iter : Promise!upTo(saved[i], latest[i])
  BY <1>3 DEF Promise!upTo, saved, latest, essential
<1> QED BY <1>4, <1>5, <1>6, <1>7 DEF Promise!Created

LEMMA PromiseStutters ==
  ASSUME UNCHANGED <<mem, disk>>, sealed' = sealed
  PROVE  PromiseStep
BY DEF PromiseStep, Promise!lifecycleVars, latest, saved

LEMMA PromiseChanges ==
  ASSUME TypeOK, TypeOK', NEW i \in Iter, sealed' = sealed, disk' = disk,
         \A j \in Iter \ {i} : mem'[j].attr = mem[j].attr /\ mem'[j].data = mem[j].data,
         mem[i].attr <= mem'[i].attr, mem[i].data <= mem'[i].data
  PROVE  PromiseStep
<1> DEFINE c == [attr |-> mem'[i].attr, data |-> mem'[i].data]
<1>1. c \in [attr : Version, data : Version]
  <2>1. mem'[i] \in Content
    BY DEF TypeOK, UserTypeOK
  <2> QED BY <2>1 DEF Content
<1>2. \A j \in Iter : latest'[j] = (IF j = i THEN c ELSE latest[j])
  BY DEF latest, essential
<1>3. latest' = [latest EXCEPT ![i] = c]
  BY <1>2 DEF latest
<1>4. Promise!upTo(latest[i], c)
  BY DEF Promise!upTo, latest, essential
<1>5. saved' = saved
  BY DEF saved
<1> HIDE DEF c
<1>6. Promise!Change(i)
  BY <1>1, <1>3, <1>4, <1>5 DEF Promise!Change
<1> QED BY <1>6 DEF PromiseStep, Promise!LifecycleNext

LEMMA PromiseSeals ==
  ASSUME NEW i \in Iter, i \notin sealed, sealed' = sealed \cup {i},
         disk[i][i].attr = mem[i].attr, disk[i][i].data = mem[i].data,
         \A j \in Iter : /\ disk'[j][j].attr = disk[j][j].attr /\ disk'[j][j].data = disk[j][j].data
                         /\ mem'[j].attr = mem[j].attr /\ mem'[j].data = mem[j].data
  PROVE  PromiseStep
<1>1. latest' = latest /\ saved' = saved
  BY DEF latest, saved, essential
<1>2. saved[i] = latest[i]
  BY DEF latest, saved, essential
<1>3. Promise!CloseIteration(i)
  BY <1>1, <1>2 DEF Promise!CloseIteration
<1> QED BY <1>3 DEF PromiseStep, Promise!LifecycleNext

\* While the queue is empty, what is closed in the backend is sealed.
LEMMA SealedKept ==
  ASSUME m_work = <<>>, m_work' = <<>>,
         \A j \in Iter : m_closed'[j] = "ClosedInBackend" <=> m_closed[j] = "ClosedInBackend"
  PROVE  sealed' = sealed
BY DEF sealed, Queued

LEMMA ModifyPromised ==
  ASSUME TypeOK, TypeOK', Modify, m_work = <<>>
  PROVE  PromiseStep
<1>1. m_work' = <<>> /\ UNCHANGED <<m_closed, disk>>
  BY DEF Modify, Insert, SetAttribute, StoreChunk, LoadChunk, CreateEmptyRecord,
     SetGroupAttribute, SetSeriesAttribute, storage, files
<1>2. sealed' = sealed
  BY <1>1, SealedKept
<1>3. CASE mem' = mem
  BY <1>1, <1>2, <1>3, PromiseStutters
<1>4. ASSUME NEW i \in Iter, SetAttribute(i) \/ StoreChunk(i) \/ SetGroupAttribute(i)
      PROVE  PromiseStep
  <2>0. mem \in [Iter -> Content] /\ mem[i].attr \in Nat /\ mem[i].data \in Nat
        /\ mem[i] \in [attr : Version, group : Version, data : Version]
    BY ContentParts DEF TypeOK, UserTypeOK, Content
  <2>1. \/ mem' = [mem EXCEPT ![i].attr = @ + 1]
        \/ mem' = [mem EXCEPT ![i].data = @ + 1]
        \/ mem' = [mem EXCEPT ![i].group = @ + 1]
    BY <1>4 DEF SetAttribute, StoreChunk, SetGroupAttribute
  <2>2. /\ \A j \in Iter \ {i} : mem'[j] = mem[j]
        /\ mem'[i].attr \in {mem[i].attr, mem[i].attr + 1}
        /\ mem'[i].data \in {mem[i].data, mem[i].data + 1}
    BY <2>0, <2>1
  <2> QED BY <1>1, <1>2, <2>0, <2>2, PromiseChanges
<1> QED BY <1>3, <1>4 DEF Modify, Insert, LoadChunk, CreateEmptyRecord, SetSeriesAttribute, user

LEMMA ClosePromised ==
  ASSUME TypeOK, TypeOK', SettledInv, m_work = <<>>, NEW i \in Iter, NEW now \in BOOLEAN,
         NEW next, closeIteration(i, now, next)
  PROVE  PromiseStep
<1>0. /\ m_work' = <<>> /\ disk' = disk /\ m_closed \in [Iter -> CloseStatus]
      /\ mem \in [Iter -> Content] /\ mem[i].attr \in Nat /\ mem[i].data \in Nat
      /\ mem[i] \in [attr : Version, group : Version, data : Version]
      /\ mem' = [mem EXCEPT ![i].attr = IF Writing /\ @ < MaxVersion THEN @ + 1 ELSE @]
  BY ContentParts DEF closeIteration, storage, files, TypeOK, ObjectTypeOK, UserTypeOK, Content
<1>1. /\ \A j \in Iter \ {i} : mem'[j] = mem[j]
      /\ mem'[i].attr \in {mem[i].attr, mem[i].attr + 1}
      /\ mem'[i].data = mem[i].data
      /\ ~Writing => mem'[i].attr = mem[i].attr
  BY <1>0
<1>2. \A j \in Iter : Moves(j)
  BY CloseMoves
<1>3. CASE m_closed'[i] = "ClosedInBackend" /\ m_closed[i] # "ClosedInBackend"
  <2>1. ~Writing /\ m_closed[i] = "ClosedTemporarily"
    BY <1>2, <1>3 DEF Moves
  <2>2. ~dirtyRecursive(i)
    BY <1>0, <1>3, <2>1 DEF closeIteration, startStep
  <2>3. disk[i][i].attr = mem[i].attr /\ disk[i][i].data = mem[i].data
    BY <2>2 DEF SettledInv, ObjectInv, dirtyRecursive
  <2>4. \A j \in Iter \ {i} : m_closed'[j] = m_closed[j]
    BY <1>0 DEF closeIteration, startStep
  <2>5. i \notin sealed /\ sealed' = sealed \cup {i}
    BY <1>0, <1>3, <2>4 DEF sealed, Queued
  <2> QED BY <1>0, <1>1, <2>1, <2>3, <2>5, PromiseSeals
<1>4. CASE m_closed'[i] = "ClosedInBackend" => m_closed[i] = "ClosedInBackend"
  <2>1. \A j \in Iter \ {i} : m_closed'[j] = m_closed[j]
    BY <1>0 DEF closeIteration, startStep
  <2>2. m_closed[i] = "ClosedInBackend" => m_closed'[i] = "ClosedInBackend"
    BY <1>2 DEF Moves
  <2>3. sealed' = sealed
    BY <1>0, <1>4, <2>1, <2>2, SealedKept
  <2> QED BY <1>0, <1>1, <2>3, PromiseChanges
<1> QED BY <1>3, <1>4

\* Calls and the steps between the tasks: an iteration is sealed by them only when
\* a reader closes one that was only parsed.
LEMMA FrontendPromised ==
  ASSUME TypeOK, TypeOK', SettledInv, FrontendStep, m_work = <<>>, ~BackendThrows
  PROVE  PromiseStep
<1>0. currentlyOpen \in Iter \cup {None} /\ call.next \in Iter \cup {None}
      /\ m_closed \in [Iter -> CloseStatus]
  BY DEF TypeOK, UserTypeOK, ControlTypeOK, ObjectTypeOK, Call
<1>1. m_work' = <<>> /\ \A j \in Iter : Moves(j)
  BY FrontendMoves, FrontendUnqueued DEF Unqueued
<1>2. ASSUME UNCHANGED <<mem, disk>>,
             \A j \in Iter : m_closed'[j] = "ClosedInBackend" => m_closed[j] = "ClosedInBackend"
      PROVE  PromiseStep
  <2>1. \A j \in Iter : m_closed'[j] = "ClosedInBackend" <=> m_closed[j] = "ClosedInBackend"
    BY <1>1, <1>2 DEF Moves
  <2> QED BY <1>1, <1>2, <2>1, SealedKept, PromiseStutters
<1>3. ASSUME NEW i \in Iter, startStep("begin", i, m_closed[i], None), UNCHANGED <<mem, disk>>
      PROVE  PromiseStep
  BY <1>0, <1>2, <1>3 DEF startStep
<1>4. ASSUME NEW i \in Iter, select(i), UNCHANGED <<mem, disk>>
      PROVE  PromiseStep
  BY <1>2, <1>3, <1>4 DEF select
<1>5. ASSUME UNCHANGED <<mem, disk, m_closed>> PROVE PromiseStep
  BY <1>2, <1>5
<1>6. ASSUME NEW i \in Iter, NEW now \in BOOLEAN, NEW next, closeIteration(i, now, next)
      PROVE  PromiseStep
  BY <1>6, ClosePromised
<1>7. CASE Flush \/ FlushNothing \/ Destroy \/ \E i \in Iter : Open(i)
  BY <1>5, <1>7 DEF Flush, FlushNothing, Destroy, Open, objects, user, storage, files
<1>8. ASSUME NEW i \in Iter, NEW now \in BOOLEAN, Close(i, now) PROVE PromiseStep
  BY <1>6, <1>8 DEF Close
<1>9. ASSUME NEW i \in Iter, SwitchTo(i) PROVE PromiseStep
  BY <1>0, <1>4, <1>6, <1>9 DEF SwitchTo, storage, files
<1>10. ASSUME NEW i \in Iter, ReadFirst(i) PROVE PromiseStep
  BY <1>3, <1>10 DEF ReadFirst, user, storage, files
<1>11. ASSUME NEW i \in Iter \cup {None}, ReadNext(i) PROVE PromiseStep
  BY <1>0, <1>3, <1>6, <1>11 DEF ReadNext, storage, files
<1>12. CASE CallAPI
  BY <1>7, <1>8, <1>9, <1>10, <1>11, <1>12 DEF CallAPI
<1>13. CASE Modify
  BY <1>13, ModifyPromised
<1>14. CASE ReturnToLoop
  <2>1. call.next \in Iter /\ UNCHANGED <<mem, disk>>
    BY <1>0, <1>14 DEF ReturnToLoop, afterCall, storage, files
  <2> QED BY <1>3, <1>4, <1>14, <2>1 DEF ReturnToLoop
<1>15. CASE \E i \in Iter : RejectUnwritten(i) \/ RejectAccess(i) \/ SkipClosed(i) \/ Drained(i)
  BY <1>5, <1>15 DEF RejectUnwritten, RejectAccess, SkipClosed, Drained, objects, user,
     storage, files
<1>16. CASE FlushDone \/ StepOnClosed \/ LastDrained \/ Return \/ UNCHANGED vars
  BY <1>5, <1>16 DEF FlushDone, StepOnClosed, LastDrained, Return, flushEnds, afterCall, vars,
     objects, user, storage, files
<1> QED BY <1>12, <1>13, <1>14, <1>15, <1>16 DEF FrontendStep

\* An iteration closed by a flush is sealed when its CLOSE_FILE has been executed.
LEMMA CloseIsQueued ==
  ASSUME NEW i \in Iter, NEW q \in Seq(IOTask), m_work = <<>>,
         m_work' = m_work \o (q \o When(TRUE, Task("CLOSE_FILE", i)))
  PROVE  Queued(Task("CLOSE_FILE", i))'
<1> SUFFICES ASSUME NEW c, c = Task("CLOSE_FILE", i), NEW d, d = q \o <<c>>
             PROVE  Queued(Task("CLOSE_FILE", i))'
  OBVIOUS
<1>1. c \in IOTask
  BY TaskType, VersionAssumption DEF Operation, Version
<1>2. d \in Seq(IOTask) /\ Len(q) \in Nat /\ Len(d) = Len(q) + 1 /\ d[Len(q) + 1] = c
  BY <1>1, SeqAppend, SeqElements
<1>3. m_work' = <<>> \o d
  BY DEF When
<1>4. m_work' = d
  <2>1. \A e \in Seq(IOTask) : <<>> \o e = e
    OBVIOUS
  <2> QED BY <1>2, <1>3, <2>1
<1>5. DOMAIN d = 1 .. Len(d) /\ Len(q) + 1 \in 1 .. Len(q) + 1
  BY <1>2
<1>6. Len(q) + 1 \in DOMAIN d
  BY <1>2, <1>5
<1>7. Len(q) + 1 \in DOMAIN m_work'
  BY <1>4, <1>6
<1>8. m_work'[Len(q) + 1] = c
  BY <1>2, <1>4
<1> QED BY <1>7, <1>8 DEF Queued, Task

LEMMA SealedWaits ==
  ASSUME NEW i \in Iter, m_work = <<>>,
         m_closed[i] # "ClosedInBackend",
         m_closed'[i] = "ClosedInBackend" => Queued(Task("CLOSE_FILE", i))',
         \A j \in Iter \ {i} : m_closed'[j] = m_closed[j],
         \A j \in Iter \ {i} : ~Queued(Task("CLOSE_FILE", j))'
  PROVE  sealed' = sealed
<1>1. \A j \in Iter : j \in sealed <=> m_closed[j] = "ClosedInBackend"
  BY DEF sealed, Queued
<1>2. ASSUME NEW j \in Iter PROVE j \in sealed' <=> m_closed[j] = "ClosedInBackend"
  <2>1. CASE j = i
    BY <2>1 DEF sealed, Queued, Task
  <2>2. CASE j # i
    BY <2>2 DEF sealed, Queued, Task
  <2> QED BY <2>1, <2>2
<1>3. sealed \subseteq Iter /\ sealed' \subseteq Iter
  BY DEF sealed
<1> QED BY <1>1, <1>2, <1>3

LEMMA OnlyOwnTasks ==
  ASSUME TasksInv', NEW i \in Iter, NEW j \in Iter, j # i, todo' = todo, call' = call,
         \/ phase' = "drain" /\ Least(i, todo)
         \/ phase' = "last" /\ call.it = i
  PROVE  ~Queued(Task("CLOSE_FILE", j))'
<1> SUFFICES ASSUME NEW k \in DOMAIN m_work', NEW x, x = m_work'[k], x.it = j
             PROVE  FALSE
  BY DEF Queued, Task
<1>1. \/ phase' = "drain" /\ Least(j, todo)
      \/ phase' = "last" /\ call.it = j
  BY DEF TasksInv, AtWork, Least
<1> QED BY <1>1, LeastUnique

LEMMA EnqueuePromised ==
  ASSUME LifecycleInv, TasksInv', m_work = <<>>,
         Advance \/ \E i \in Iter : WriteIteration(i) \/ ReadIteration(i) \/ PassClean(i)
  PROVE  PromiseStep
<1>0. TypeOK /\ m_closed \in [Iter -> CloseStatus]
  BY DEF LifecycleInv, TypeOK, ObjectTypeOK
<1>1. UNCHANGED <<mem, disk>>
  BY DEF Advance, flushEnds, WriteIteration, ReadIteration, PassClean, user, storage, files
<1>2. ASSUME NEW i \in Iter, NEW status, NEW q \in Seq(IOTask), enqueueAndClose(i, status, q),
             status # "ClosedInBackend", m_closed[i] # "ClosedInBackend",
             Least(i, todo), todo' = todo, call' = call
      PROVE  PromiseStep
  <2>1. \A j \in Iter \ {i} : ~Queued(Task("CLOSE_FILE", j))'
    BY <1>2, OnlyOwnTasks DEF enqueueAndClose
  <2>2. /\ \A j \in Iter \ {i} : m_closed'[j] = m_closed[j]
        /\ m_closed'[i] = "ClosedInBackend" => status = "ClosedInFrontend"
    BY <1>0, <1>2 DEF enqueueAndClose
  <2>3. status = "ClosedInFrontend" => Queued(Task("CLOSE_FILE", i))'
    <3>1. CASE status = "ClosedInFrontend"
      <4>1. m_work' = m_work \o (q \o When(TRUE, Task("CLOSE_FILE", i)))
        BY <1>2, <3>1 DEF enqueueAndClose, enqueue
      <4> QED BY <1>2, <4>1, CloseIsQueued
    <3> QED BY <3>1
  <2>4. m_closed'[i] = "ClosedInBackend" => Queued(Task("CLOSE_FILE", i))'
    BY <2>2, <2>3
  <2>5. sealed' = sealed
    BY <1>2, <2>1, <2>2, <2>4, SealedWaits
  <2> QED BY <1>1, <2>5, PromiseStutters
<1>3. ASSUME NEW i \in Iter, WriteIteration(i) \/ ReadIteration(i) \/ PassClean(i)
      PROVE  PromiseStep
  <2>1. /\ m_closed[i] # "ClosedInBackend" /\ reopened(i) # "ClosedInBackend"
        /\ Least(i, todo) /\ todo' = todo /\ call' = call
    BY <1>3 DEF WriteIteration, ReadIteration, PassClean, toFlush, reopened, Reached
  <2>2. \E status, q : /\ enqueueAndClose(i, status, q) /\ q \in Seq(IOTask)
                       /\ status # "ClosedInBackend"
    <3>1. CASE WriteIteration(i)
      <4>1. writeTasks(i) \in Seq(IOTask)
        BY <1>0, <3>1, WorkOfFlush DEF WorkOf, WriteIteration
      <4> QED BY <2>1, <3>1, <4>1 DEF WriteIteration
    <3>2. CASE ReadIteration(i)
      <4>1. openIteration(i) \o chunkTasks(i) \in Seq(IOTask)
        BY <1>0, <3>2, WorkOfFlush, WorkConcat DEF WorkOf, ReadIteration
      <4> QED BY <2>1, <3>2, <4>1 DEF ReadIteration
    <3>3. CASE PassClean(i)
      <4>1. <<>> \in Seq(IOTask)
        OBVIOUS
      <4> QED BY <2>1, <3>3, <4>1 DEF PassClean
    <3> QED BY <1>3, <3>1, <3>2, <3>3
  <2> QED BY <1>2, <2>1, <2>2
<1>4. CASE Advance
  <2> SUFFICES ASSUME NEW i \in Iter, i = call.it,
                      NEW closing \in BOOLEAN,
                      closing = (call.old = "ClosedInFrontend" /\ call.op = "end"),
                      NEW step \in BOOLEAN,
                      step = (call.old = "ClosedInFrontend" \/ m_closed[i] # "ClosedTemporarily"),
                      NEW q, q = When(step, Task("ADVANCE", i))
               PROVE  PromiseStep
    <3>1. call.it \in Iter
      BY <1>0, <1>4 DEF Advance, LoopDone, TypeOK, ControlTypeOK
    <3> QED BY <3>1
  <2>1. /\ m_work' = m_work \o (q \o When(closing, Task("CLOSE_FILE", i)))
        /\ m_closed' = [m_closed EXCEPT ![i] =
                          IF closing THEN "ClosedInBackend"
                          ELSE IF call.old = "ClosedInFrontend" THEN "ClosedInFrontend" ELSE @]
        /\ phase' = "last" /\ todo' = todo /\ call' = call
    BY <1>4 DEF Advance, enqueue, flushEnds
  <2>2. m_closed[i] # "ClosedInBackend"
    BY <1>4 DEF LifecycleInv, StepIsOpen, Advance, LoopDone
  <2>3. \A j \in Iter \ {i} : ~Queued(Task("CLOSE_FILE", j))'
    BY <2>1, OnlyOwnTasks
  <2>4. /\ \A j \in Iter \ {i} : m_closed'[j] = m_closed[j]
        /\ m_closed'[i] = "ClosedInBackend" => closing
    BY <1>0, <2>1, <2>2
  <2>5. closing => Queued(Task("CLOSE_FILE", i))'
    <3>1. q \in Seq(IOTask)
      <4>1. Task("ADVANCE", i) \in IOTask
        BY TaskType, VersionAssumption DEF Operation, Version
      <4> QED BY <4>1, CurrentWhen
    <3>2. CASE closing
      <4>1. m_work' = m_work \o (q \o When(TRUE, Task("CLOSE_FILE", i)))
        BY <2>1, <3>2 DEF When
      <4> QED BY <3>1, <4>1, CloseIsQueued
    <3> QED BY <3>2
  <2>6. m_closed'[i] = "ClosedInBackend" => Queued(Task("CLOSE_FILE", i))'
    BY <2>4, <2>5
  <2>7. sealed' = sealed
    BY <2>2, <2>3, <2>4, <2>6, SealedWaits
  <2> QED BY <1>1, <2>7, PromiseStutters
<1> QED BY <1>3, <1>4

\* The iteration at work belongs to the call, and a reader has found it.
LEMMA AtWorkFlushed ==
  ASSUME LifecycleInv, WorkflowInv, Draining, NEW i \in Iter, AtWork(i)
  PROVE  Flushed(i) /\ (~Writing => i \in iterations)
<1>1. CASE phase = "drain"
  <2>1. i \in todo
    BY <1>1 DEF AtWork, Least
  <2> QED BY <2>1 DEF WorkflowInv, FlushedInv, Flushed, LifecycleInv, ReaderFindsAll
<1>2. CASE phase = "last"
  <2>1. call.op \in {"begin", "end"} /\ call.it = i
    BY <1>2 DEF AtWork
  <2>2. Concerned(i) /\ call.it # None
    BY <2>1, NoneAssumption DEF Concerned
  <2> QED BY <2>1, <2>2 DEF Flushed, LifecycleInv, ReaderFindsAll
<1> QED BY <1>1, <1>2 DEF Draining

LEMMA DrainPromised ==
  ASSUME LifecycleInv, TypeOK', WorkflowInv, Drain
  PROVE  PromiseStep
<1> SUFFICES ASSUME NEW t, t = Head(m_work), NEW i, i = t.it PROVE PromiseStep
  OBVIOUS
<1>0. /\ TypeOK /\ m_work # <<>> /\ m_work' = Tail(m_work) /\ t \in IOTask /\ i \in Iter
      /\ 1 \in DOMAIN m_work /\ t = m_work[1] /\ m_work \in Seq(IOTask)
      /\ UNCHANGED <<m_closed, mem>>
      /\ \A k \in DOMAIN m_work : m_work[k].it = i
      /\ t.op = "CLOSE_FILE" => m_work' = <<>>
      /\ AtWork(i) /\ Draining
  BY DrainKeeps DEF LifecycleInv, TypeOK, BackendTypeOK, objects, user, Drain
<1>1. Stores(t, i) /\ Elsewhere(i)
  BY <1>0, HeadPrepared, HeadEffects DEF Effects
<1>2. VersionInv /\ ValueInv
  BY DEF WorkflowInv
<1>3. \A j \in Iter \ {i} : ~Queued(Task("CLOSE_FILE", j))
  BY <1>0 DEF Queued, Task
<1>4. m_closed[i] = "ClosedInBackend" => Queued(Task("CLOSE_FILE", i))
  BY <1>0 DEF LifecycleInv, NoAccessAfterClose
<1>5. i \notin sealed
  BY <1>4 DEF sealed
<1>6. CASE t.op = "CLOSE_FILE"
  <2>1. m_closed[i] = "ClosedInBackend"
    BY <1>0, <1>6 DEF LifecycleInv, CloseIsFinal
  <2>2. sealed' = sealed \cup {i}
    <3>1. \A x : ~Queued(x)'
      BY <1>0, <1>6 DEF Queued
    <3> QED BY <1>0, <1>3, <2>1, <3>1 DEF sealed
  <2>3. Flushed(i) /\ (~Writing => i \in iterations)
    BY <1>0, AtWorkFlushed
  <2>4. Writing => ~dirty[i] /\ ~pending[i]
    BY <1>0, <2>3 DEF WorkflowInv, FlushedInv
  <2>5. \A o \in {"WRITE_ATT", "WRITE_DATASET"} : \A v : ~Queued(VersionTask(o, i, v))
    <3>1. \A k \in DOMAIN m_work : m_work[k] = t
      <4>1. Len(m_work) = 1
        BY <1>0, <1>6 DEF WorkflowInv, TasksInv
      <4>2. \A k \in DOMAIN m_work : k = 1
        BY <1>0, <4>1
      <4> QED BY <1>0, <4>2
    <3> QED BY <1>6, <3>1 DEF Queued, VersionTask
  <2>6. disk[i][i].attr = mem[i].attr /\ disk[i][i].data = mem[i].data
    BY <1>0, <1>2, <2>3, <2>4, <2>5 DEF ValueInv, Unsaved
  <2>7. \A j \in Iter : disk'[j][j].attr = disk[j][j].attr /\ disk'[j][j].data = disk[j][j].data
    BY <1>1, <1>6 DEF Stores, Elsewhere
  <2> QED BY <1>0, <1>5, <2>2, <2>6, <2>7, PromiseSeals
<1>7. CASE t.op # "CLOSE_FILE"
  <2>1. sealed' = sealed
    <3>1. m_closed[i] = "ClosedInBackend" => Queued(Task("CLOSE_FILE", i))'
      <4>1. Task("CLOSE_FILE", i) # t
        BY <1>7 DEF Task
      <4> QED BY <1>0, <1>4, <4>1, StaysQueued
    <3>2. \A j \in Iter \ {i} : ~Queued(Task("CLOSE_FILE", j))'
      <4>1. \A k \in DOMAIN m_work' : m_work'[k].it = i
        BY <1>0, Popped
      <4> QED BY <4>1 DEF Queued, Task
    <3> QED BY <1>0, <1>3, <1>4, <3>1, <3>2 DEF sealed, Queued, Task
  <2> DEFINE c == [attr |-> disk'[i][i].attr, data |-> disk'[i][i].data]
  <2>2. c \in [attr : Version, data : Version]
    <3>1. disk'[i][i] \in Content
      BY <1>0 DEF TypeOK, BackendTypeOK
    <3> QED BY <3>1 DEF Content
  <2>3. \A j \in Iter : saved'[j] = (IF j = i THEN c ELSE saved[j])
    BY <1>1 DEF saved, essential, Elsewhere
  <2>4. saved' = [saved EXCEPT ![i] = c]
    BY <2>3 DEF saved
  <2>5. /\ disk[i][i].attr <= disk'[i][i].attr /\ disk[i][i].data <= disk'[i][i].data
        /\ disk'[i][i].attr <= mem[i].attr /\ disk'[i][i].data <= mem[i].data
    <3>1. /\ mem[i].attr \in Nat /\ mem[i].data \in Nat
          /\ disk[i][i].attr \in Nat /\ disk[i][i].data \in Nat
          /\ disk[i][i].attr <= mem[i].attr /\ disk[i][i].data <= mem[i].data
      BY <1>0, <1>2, ContentParts DEF VersionInv
    <3>2. /\ t.op = "WRITE_ATT" => t.ver = mem[i].attr
          /\ t.op = "WRITE_DATASET" => t.ver = mem[i].data
      BY <1>0, <1>2 DEF VersionInv
    <3> QED BY <1>1, <3>1, <3>2 DEF Stores
  <2>6. Promise!upTo(saved[i], c) /\ Promise!upTo(c, latest[i])
    BY <1>0, <2>5 DEF Promise!upTo, saved, latest, essential
  <2>7. latest' = latest
    BY <1>0 DEF latest
  <2> HIDE DEF c
  <2>8. Promise!Save(i)
    BY <1>5, <2>1, <2>2, <2>4, <2>6, <2>7 DEF Promise!Save
  <2> QED BY <1>0, <2>8 DEF PromiseStep, Promise!LifecycleNext
<1> QED BY <1>6, <1>7

LEMMA PromiseNext ==
  ASSUME Plain, LifecycleInv, WorkflowInv, [Next]_vars
  PROVE  PromiseStep
<1>0. TypeOK /\ TypeOK' /\ WorkflowInv' /\ TasksInv /\ TasksInv'
  BY LifecycleNext, WorkflowNext DEF LifecycleInv, WorkflowInv
<1>1. ~BackendThrows /\ \A i \in Iter, early \in BOOLEAN : ~RejectRecord(i, early)
  BY <1>0, NothingThrows DEF WorkflowInv, RejectRecord
<1>2. CASE Drain
  BY <1>0, <1>2, DrainPromised
<1>3. CASE Advance \/ \E i \in Iter : WriteIteration(i) \/ ReadIteration(i) \/ PassClean(i)
  <2>1. m_work = <<>>
    BY <1>0, <1>3 DEF Advance, WriteIteration, ReadIteration, PassClean, Reached, LoopDone,
       TasksInv, Draining
  <2> QED BY <1>0, <1>3, <2>1, EnqueuePromised
<1>4. CASE UNCHANGED vars
  <2>1. UNCHANGED <<mem, disk, m_closed, m_work>>
    BY <1>4 DEF vars, objects, user, storage, files
  <2>2. sealed' = sealed
    BY <2>1 DEF sealed, Queued
  <2> QED BY <2>1, <2>2, PromiseStutters
<1>5. CASE FrontendStep /\ ~(UNCHANGED vars)
  <2>1. m_work = <<>>
    <3>1. CASE Modify \/ CallAPI
      BY <1>0, <3>1 DEF Modify, Insert, SetAttribute, StoreChunk, LoadChunk, CreateEmptyRecord,
         SetGroupAttribute, SetSeriesAttribute, CallAPI, Flush, FlushNothing, Destroy, Close,
         Open, SwitchTo, ReadFirst, ReadNext, Idle, TasksInv, Draining
    <3>2. CASE \E i \in Iter : RejectUnwritten(i) \/ RejectAccess(i) \/ SkipClosed(i) \/ Drained(i)
      BY <1>0, <3>2 DEF RejectUnwritten, RejectAccess, SkipClosed, Drained, Reached, TasksInv,
         Draining
    <3>3. CASE FlushDone \/ StepOnClosed \/ LastDrained \/ Return \/ ReturnToLoop
      BY <1>0, <3>3 DEF FlushDone, StepOnClosed, LastDrained, Return, ReturnToLoop, LoopDone,
         TasksInv, Draining
    <3> QED BY <1>1, <1>5, <3>1, <3>2, <3>3 DEF FrontendStep
  <2>2. SettledInv
    BY <2>1, WorkflowSettles
  <2> QED BY <1>0, <1>1, <1>5, <2>1, <2>2, FrontendPromised
<1> QED BY <1>1, <1>2, <1>3, <1>4, <1>5 DEF Next, Internal, Visit, FrontendStep

\* The Series implements IterationLifecycle: the user changes iterations, the Series saves
\* some of the changes later, never older than what the file has nor newer than what the
\* user has set, and the last thing it does to an iteration's file is to close it, with
\* nothing left unsaved.
THEOREM SeriesImplementsLifecycle ==
  ASSUME MaxFailures = 0, "empty_record" \notin Extras
  PROVE  Spec => KeepsPromise
<1>1. Plain
  BY DEF Plain
<1>2. Init => Promise!Created
  BY PromiseInit
<1>3. LifecycleInv /\ WorkflowInv /\ [Next]_vars => [Promise!LifecycleNext]_(Promise!lifecycleVars)
  BY <1>1, PromiseNext DEF PromiseStep
<1> QED BY <1>1, <1>2, <1>3, WorkflowHolds, PTL DEF Spec, KeepsPromise, Promise!Lifecycle
=============================================================================
