------------------------ MODULE SeriesGroupBased_proofs ------------------------
(***************************************************************************)
(* Proofs about a writer of a group-based Series with ADIOS2: variables    *)
(* keep their types, and the engine is never asked for what it refuses.    *)
(*                                                                         *)
(* The first part is about BufferedActions alone, a lemma per method; the  *)
(* second about the frontend, a lemma per action.                          *)
(***************************************************************************)
EXTENDS SeriesGroupBased, TLAPS

-----------------------------------------------------------------------------
(* The file of a writer.                                                   *)

WriterStatus == {"DuringStep", "OutsideOfStep", "NoStream"}

File ==
  [mode : {"Write"}, layout : {"ByAdiosAttributes", "ByAdiosVariables"},
   streaming : BOOLEAN, streamStatus : WriterStatus,
   opened : BOOLEAN, finalized : BOOLEAN,
   m_lastStepStatus : {"OK"}, status : {"OK"}, advanceStatus : {"OK"},
   m_buffer : [Iter -> Version], m_attributeWrites : [Owner -> Version],
   attributes : [Owner -> Version], uncommitted : SUBSET Owner,
   declaresSteps : BOOLEAN, inStep : BOOLEAN, step : Step, steps : Seq(Step),
   position : {0}, loaded : [Iter -> Version],
   fault : {"none", "begin", "end", "get", "put", "control_flow", "stream_over"}]

\* The stream status and the engine agree, and a file without steps says so.
Agrees(b) ==
  /\ b.inStep <=> b.streamStatus = "DuringStep"
  /\ b.opened => (b.declaresSteps <=> b.streamStatus # "NoStream")
  /\ ~b.opened => ~b.inStep /\ ~b.declaresSteps

Good(b) == b \in File /\ b.fault = "none" /\ Agrees(b)

\* What no method changes.
SameEngine(b, c) ==
  c.layout = b.layout /\ c.streaming = b.streaming /\ c.finalized = b.finalized

SameBuffers(b, c) ==
  c.m_buffer = b.m_buffer /\ c.m_attributeWrites = b.m_attributeWrites

\* The empty contents have the type of contents.
LEMMA EmptyTypes ==
  /\ NoChunks \in [Iter -> Version] /\ NoAttributes \in [Owner -> Version]
  /\ EmptyStep \in Step
BY VersionAssumption DEF NoChunks, NoAttributes, EmptyStep, Step, Version

\* Merging two versions of the same values gives such values again.
LEMMA MergeType ==
  ASSUME NEW D, NEW f \in [D -> Version], NEW g \in [D -> Version]
  PROVE  Merge(f, g) \in [D -> Version]
BY DEF Merge

\* A new file is good.
LEMMA NewFile ==
  ASSUME NEW e \in Engines
  PROVE  /\ Good(newFile(e, "Write")) /\ ~newFile(e, "Write").finalized
         /\ newFile(e, "Write").layout = e.layout
         /\ newFile(e, "Write").streaming = e.stream
BY EmptyTypes DEF Engines, newFile, Good, File, Agrees, WriterStatus, Version

\* What is published has the type of a step.
LEMMA ContentsType ==
  ASSUME NEW b \in File
  PROVE  contents(b) \in Step
BY DEF contents, File, Step

\* BeginStep outside of a step puts the engine into one.
LEMMA BeginStepOutside ==
  ASSUME NEW b \in File, ~b.inStep
  PROVE  BeginStep(b) = [b EXCEPT !.inStep = TRUE]
<1>1. BeginStep(b) = [b EXCEPT !.inStep = TRUE, !.status = "OK", !.position = b.position]
  BY DEF BeginStep, File
<1>2. b.status = "OK"
  BY DEF File
<1> QED
  BY <1>1, <1>2 DEF File

\* A file with another step in progress, and other steps published, is a file.
LEMMA StepReplaced ==
  ASSUME NEW b \in File, NEW s \in Step, NEW t \in Seq(Step)
  PROVE  [b EXCEPT !.inStep = FALSE, !.step = s, !.steps = t] \in File
<1> DEFINE c == [b EXCEPT !.inStep = FALSE]
           d == [c EXCEPT !.step = s]
<1>1. c \in File
  BY DEF File
<1>2. [b EXCEPT !.inStep = FALSE, !.step = s, !.steps = t] = [d EXCEPT !.steps = t]
  BY DEF File
<1> HIDE DEF c
<1>3. d \in File
  BY <1>1 DEF File
<1> HIDE DEF d
<1>4. [d EXCEPT !.steps = t] \in File
  BY <1>3 DEF File
<1> QED
  BY <1>2, <1>4

\* EndStep in a step publishes it.
LEMMA EndStepInside ==
  ASSUME NEW b \in File, b.inStep
  PROVE  /\ EndStep(b) \in File
         /\ EndStep(b) = [b EXCEPT !.inStep = FALSE, !.step = EmptyStep,
                                   !.steps = Append(b.steps, contents(b))]
<1>1. EndStep(b) = [b EXCEPT !.inStep = FALSE, !.step = EmptyStep,
                             !.steps = Append(b.steps, contents(b))]
  BY DEF EndStep, File
<1>2. EmptyStep \in Step /\ Append(b.steps, contents(b)) \in Seq(Step)
  BY EmptyTypes, ContentsType DEF File
<1> QED
  BY <1>1, <1>2, StepReplaced

\* getEngine opens the engine and begins no step.
LEMMA GetEngine ==
  ASSUME NEW b, Good(b)
  PROVE  /\ Good(getEngine(b)) /\ getEngine(b).opened
         /\ getEngine(b).streamStatus = b.streamStatus
         /\ SameEngine(b, getEngine(b)) /\ SameBuffers(b, getEngine(b))
BY DEF Good, File, Agrees, getEngine, SameEngine, SameBuffers

\* requireActiveStep: with the engine open, a step is open or steps are not used.
LEMMA StepOn ==
  ASSUME NEW b, Good(b), b.opened
  PROVE  /\ Good(stepOn(b)) /\ stepOn(b).opened
         /\ stepOn(b).streamStatus # "OutsideOfStep"
         /\ b.streamStatus # "OutsideOfStep" => stepOn(b).streamStatus = b.streamStatus
         /\ SameEngine(b, stepOn(b)) /\ SameBuffers(b, stepOn(b))
<1>1. CASE b.streamStatus # "OutsideOfStep"
  BY <1>1 DEF stepOn, SameEngine, SameBuffers
<1>2. CASE b.streamStatus = "OutsideOfStep"
  <2>1. b \in File /\ ~b.inStep /\ b.fault = "none" /\ b.declaresSteps
    BY <1>2 DEF Good, Agrees
  <2>2. BeginStep(b) = [b EXCEPT !.inStep = TRUE]
    BY <2>1, BeginStepOutside
  <2>3. stepOn(b) = [b EXCEPT !.inStep = TRUE, !.m_lastStepStatus = "OK",
                              !.streamStatus = "DuringStep"]
    BY <1>2, <2>1, <2>2 DEF stepOn, stepOpened, faulty, File
  <2> QED
    BY <1>2, <2>1, <2>3 DEF Good, Agrees, File, WriterStatus, SameEngine, SameBuffers
<1> QED
  BY <1>1, <1>2

\* A put where the engine expects one.
LEMMA Put ==
  ASSUME NEW b, Good(b), b.opened, b.streamStatus # "OutsideOfStep",
         NEW chunks \in [Iter -> Version], NEW attributes \in [Owner -> Version]
  PROVE  /\ Good(put(b, chunks, attributes)) /\ put(b, chunks, attributes).opened
         /\ put(b, chunks, attributes).streamStatus = b.streamStatus
         /\ SameEngine(b, put(b, chunks, attributes))
         /\ SameBuffers(b, put(b, chunks, attributes))
<1>0. b \in File /\ b.step \in Step
  BY DEF Good, File
<1>1. b.step.data \in [Iter -> Version] /\ b.step.attr \in [Owner -> Version]
  BY <1>0 DEF Step
<1>2. /\ Merge(b.step.data, chunks) \in [Iter -> Version]
      /\ Merge(b.step.attr, attributes) \in [Owner -> Version]
  BY <1>1, MergeType
<1>3. ~(b.declaresSteps /\ ~b.inStep)
  BY DEF Good, Agrees, File, WriterStatus
<1> DEFINE s == [attr |-> Merge(b.step.attr, attributes), data |-> Merge(b.step.data, chunks)]
<1>4. s \in Step
  BY <1>2 DEF Step
<1>5. put(b, chunks, attributes) = [b EXCEPT !.step = s]
  BY <1>0, <1>3 DEF put, File
<1> HIDE DEF s
<1> QED
  BY <1>0, <1>4, <1>5 DEF Good, Agrees, File, SameEngine, SameBuffers

\* The buffered actions are run in a step, or without steps.
LEMMA Run ==
  ASSUME NEW b, Good(b), b.opened, b.streamStatus # "OutsideOfStep",
         NEW w \in BOOLEAN
  PROVE  /\ Good(run(b, w)) /\ run(b, w).opened
         /\ run(b, w).streamStatus = b.streamStatus
         /\ SameEngine(b, run(b, w)) /\ SameBuffers(b, run(b, w))
<1>1. /\ b.m_buffer \in [Iter -> Version] /\ b.m_attributeWrites \in [Owner -> Version]
      /\ b.mode = "Write" /\ ~faulty(b)
  BY DEF Good, File, faulty
<1>2. (IF w THEN b.m_attributeWrites ELSE NoAttributes) \in [Owner -> Version]
  BY <1>1, EmptyTypes
<1>3. \/ run(b, w) = b
      \/ run(b, w) = put(b, b.m_buffer, IF w THEN b.m_attributeWrites ELSE NoAttributes)
  BY <1>1 DEF run
<1>4. SameEngine(b, b) /\ SameBuffers(b, b)
  BY DEF SameEngine, SameBuffers
<1> HIDE DEF Good
<1> QED
  BY <1>1, <1>2, <1>3, <1>4, Put

\* Clearing the buffers.
LEMMA Cleared ==
  ASSUME NEW b, b \in File, b.fault = "none", NEW w \in BOOLEAN
  PROVE  /\ cleared(b, w) \in File /\ cleared(b, w).fault = "none"
         /\ cleared(b, w).m_buffer = NoChunks
         /\ cleared(b, w).opened = b.opened /\ cleared(b, w).inStep = b.inStep
         /\ cleared(b, w).declaresSteps = b.declaresSteps
         /\ cleared(b, w).streamStatus = b.streamStatus
         /\ SameEngine(b, cleared(b, w))
BY EmptyTypes DEF cleared, faulty, File, SameEngine

\* A flush of the buffered actions without attributes, IOHandler()->flush().
LEMMA FlushPutGet ==
  ASSUME NEW b, Good(b)
  PROVE  LET c == flush(b, "putget", FALSE, FALSE)
         IN /\ Good(c) /\ SameEngine(b, c) /\ c.m_buffer = NoChunks
            /\ b.streamStatus # "OutsideOfStep" => c.streamStatus = b.streamStatus
<1> DEFINE g == getEngine(b)
           r == run(stepOn(g), FALSE)
<1>1. /\ Good(g) /\ g.opened /\ g.streamStatus = b.streamStatus
      /\ SameEngine(b, g) /\ SameBuffers(b, g)
  BY GetEngine
<1>2. flush(b, "putget", FALSE, FALSE) = flushEngine(g, "putget", FALSE, FALSE)
  BY DEF flush, Good, File, WriterStatus, faulty
<1>3. g.fault = "none" /\ g \in File
  BY <1>1 DEF Good
<1> HIDE DEF g
<1>4. CASE nothingToDo(g, FALSE)
  <2>1. flush(b, "putget", FALSE, FALSE) = g
    BY <1>2, <1>3, <1>4 DEF flushEngine, faulty
  <2> QED
    BY <1>1, <1>4, <2>1 DEF nothingToDo
<1>5. CASE ~nothingToDo(g, FALSE)
  <2> DEFINE o == stepOn(g)
  <2>1. /\ Good(o) /\ o.opened /\ o.streamStatus # "OutsideOfStep"
        /\ g.streamStatus # "OutsideOfStep" => o.streamStatus = g.streamStatus
        /\ SameEngine(g, o) /\ SameBuffers(g, o)
    BY <1>1, StepOn
  <2> HIDE DEF o
  <2>2. /\ Good(r) /\ r.opened /\ r.streamStatus = o.streamStatus
        /\ SameEngine(o, r) /\ SameBuffers(o, r)
    BY <2>1, Run DEF o
  <2> HIDE DEF r
  <2>3. r \in File /\ r.fault = "none" /\ Agrees(r)
    BY <2>2 DEF Good
  <2>4. flush(b, "putget", FALSE, FALSE) = cleared(r, FALSE)
    BY <1>2, <1>5, <2>3 DEF flushEngine, perform, r
  <2>5. /\ cleared(r, FALSE) \in File /\ cleared(r, FALSE).fault = "none"
        /\ cleared(r, FALSE).m_buffer = NoChunks
        /\ cleared(r, FALSE).opened = r.opened /\ cleared(r, FALSE).inStep = r.inStep
        /\ cleared(r, FALSE).declaresSteps = r.declaresSteps
        /\ cleared(r, FALSE).streamStatus = r.streamStatus
        /\ SameEngine(r, cleared(r, FALSE))
    BY <2>3, Cleared
  <2>6. Good(cleared(r, FALSE))
    BY <2>3, <2>5 DEF Good, Agrees
  <2>7. SameEngine(b, cleared(r, FALSE))
    BY <1>1, <2>1, <2>2, <2>5 DEF SameEngine
  <2> QED
    BY <1>1, <2>1, <2>2, <2>4, <2>5, <2>6, <2>7
<1> QED
  BY <1>4, <1>5

\* AdvanceMode::ENDSTEP in a step.
LEMMA EndStepGood ==
  ASSUME NEW b, Good(b), b.streamStatus = "DuringStep"
  PROVE  /\ Good(endStep(b)) /\ SameEngine(b, endStep(b))
         /\ endStep(b).m_buffer = NoChunks
<1> DEFINE g == getEngine(b)
           r == run(g, TRUE)
           x == EndStep(r)
<1>1. /\ Good(g) /\ g.opened /\ g.streamStatus = "DuringStep" /\ SameEngine(b, g)
  BY GetEngine
<1> HIDE DEF g
<1>2. Good(r) /\ r.opened /\ r.streamStatus = "DuringStep" /\ SameEngine(g, r)
  BY <1>1, Run
<1> HIDE DEF r
<1>3. r \in File /\ r.inStep /\ r.fault = "none" /\ r.declaresSteps
  BY <1>2 DEF Good, Agrees
<1>4. /\ x \in File
      /\ x = [r EXCEPT !.inStep = FALSE, !.step = EmptyStep,
                       !.steps = Append(r.steps, contents(r))]
  BY <1>3, EndStepInside
<1>5. /\ x.fault = "none" /\ x.opened /\ x.declaresSteps /\ ~x.inStep
      /\ SameEngine(r, x)
  BY <1>2, <1>3, <1>4 DEF File, SameEngine
<1> HIDE DEF x
<1>6. g.fault = "none" /\ stepOn(g) = g /\ ~nothingToDo(g, TRUE)
  BY <1>1 DEF Good, stepOn, nothingToDo
<1>7. flush(b, "end", TRUE, TRUE) = cleared(x, TRUE)
  <2>1. flush(b, "end", TRUE, TRUE) = flushEngine(g, "end", TRUE, TRUE)
    BY DEF flush, Good, faulty, g
  <2>2. flushEngine(g, "end", TRUE, TRUE) = cleared(perform(r, "end"), TRUE)
    BY <1>6 DEF flushEngine, r
  <2>3. perform(r, "end") = x
    BY <1>3 DEF perform, faulty, x
  <2> QED
    BY <2>1, <2>2, <2>3
<1> DEFINE c == cleared(x, TRUE)
<1>8. /\ c \in File /\ c.fault = "none" /\ c.m_buffer = NoChunks /\ c.opened
      /\ ~c.inStep /\ c.declaresSteps /\ SameEngine(x, c)
  BY <1>4, <1>5, Cleared
<1> HIDE DEF c
<1>9. endStep(b) = [c EXCEPT !.uncommitted = {}, !.streamStatus = "OutsideOfStep"]
  BY <1>7, <1>8 DEF endStep, ended, faulty, c
<1> DEFINE e == [c EXCEPT !.uncommitted = {}, !.streamStatus = "OutsideOfStep"]
<1>10. e \in File
  BY <1>8 DEF File, WriterStatus
<1>11. /\ e.fault = "none" /\ e.m_buffer = NoChunks /\ e.opened /\ ~e.inStep
       /\ e.declaresSteps /\ e.streamStatus = "OutsideOfStep"
       /\ e.layout = c.layout /\ e.streaming = c.streaming /\ e.finalized = c.finalized
  BY <1>8 DEF File
<1> HIDE DEF e
<1>12. Good(e)
  BY <1>10, <1>11 DEF Good, Agrees
<1>13. SameEngine(b, e)
  BY <1>1, <1>2, <1>5, <1>8, <1>11 DEF SameEngine
<1> QED
  BY <1>9, <1>11, <1>12, <1>13 DEF e

\* AdvanceMode::BEGINSTEP: a step that is open already is kept, and otherwise
\* one is begun, which is right only because nothing is buffered.
LEMMA BeginStepGood ==
  ASSUME NEW b, Good(b), b.streamStatus # "NoStream", b.m_buffer = NoChunks
  PROVE  /\ Good(beginStep(b)) /\ SameEngine(b, beginStep(b))
         /\ beginStep(b).streamStatus = "DuringStep"
         /\ beginStep(b).m_buffer = NoChunks
<1>0. b \in File /\ b.fault = "none"
  BY DEF Good
<1>1. CASE b.streamStatus = "DuringStep"
  <2>1. beginStep(b) = [b EXCEPT !.status = "OK", !.streamStatus = "DuringStep"]
    BY <1>0, <1>1 DEF beginStep, begun, faulty, File
  <2> QED
    BY <1>0, <1>1, <2>1 DEF Good, Agrees, File, WriterStatus, SameEngine
<1>2. CASE b.streamStatus = "OutsideOfStep"
  <2> DEFINE g == getEngine(b)
  <2>1. /\ Good(g) /\ g.opened /\ g.streamStatus = "OutsideOfStep" /\ SameEngine(b, g)
        /\ SameBuffers(b, g)
    BY <1>2, GetEngine
  <2>2. flush(b, "begin", FALSE, TRUE) = flushEngine(g, "begin", FALSE, TRUE)
    BY <1>0, <1>2 DEF flush, faulty
  <2> HIDE DEF g
  <2>3. g \in File /\ ~g.inStep /\ g.fault = "none" /\ g.declaresSteps /\ g.m_buffer = NoChunks
    BY <2>1 DEF Good, Agrees, SameBuffers
  <2>4. nothingToDo(g, FALSE)
    BY <2>1, <2>3 DEF nothingToDo, writesAttributes
  <2>5. flush(b, "begin", FALSE, TRUE) = BeginStep(g)
    BY <2>2, <2>3, <2>4 DEF flushEngine, perform, faulty
  <2>6. BeginStep(g) = [g EXCEPT !.inStep = TRUE]
    BY <2>3, BeginStepOutside
  <2> DEFINE h == [g EXCEPT !.inStep = TRUE]
             k == [h EXCEPT !.streamStatus = "DuringStep"]
  <2>7. h \in File /\ h.fault = "none" /\ h.status = "OK"
    BY <2>3 DEF File
  <2>8. beginStep(b) = begun(h)
    BY <1>2, <2>5, <2>6 DEF beginStep
  <2>9. /\ k \in File /\ k.fault = "none" /\ k.inStep /\ k.opened /\ k.declaresSteps
        /\ k.streamStatus = "DuringStep" /\ k.m_buffer = NoChunks /\ SameEngine(g, k)
    BY <2>1, <2>3 DEF File, WriterStatus, SameEngine
  <2> HIDE DEF h
  <2>10. beginStep(b) = k
    BY <2>7, <2>8 DEF begun, faulty
  <2> HIDE DEF k
  <2>11. Good(k) /\ SameEngine(b, k)
    BY <2>1, <2>9 DEF Good, Agrees, SameEngine
  <2> QED
    BY <2>9, <2>10, <2>11
<1> QED
  BY <1>0, <1>1, <1>2 DEF File, WriterStatus

\* A step may be ended only if one is open, or steps are not used.
LEMMA AdvanceGood ==
  ASSUME NEW b, Good(b), b.m_buffer = NoChunks, NEW mode \in Modes,
         mode = "ENDSTEP" => b.streamStatus # "OutsideOfStep"
  PROVE  /\ Good(advance(b, mode)) /\ SameEngine(b, advance(b, mode))
         /\ mode = "BEGINSTEP" => advance(b, mode).streamStatus # "OutsideOfStep"
<1>1. b \in File /\ b.fault = "none" /\ b.advanceStatus = "OK" /\ b.streamStatus \in WriterStatus
  BY DEF Good, File
<1>2. [b EXCEPT !.advanceStatus = "OK"] = b
  BY <1>1 DEF File
<1>3. advance(b, mode) = advanceEngine(b, mode)
  BY <1>1, <1>2 DEF advance, WriterStatus
<1>4. CASE b.streamStatus = "NoStream"
  <2>1. advance(b, mode) = flush(b, "putget", FALSE, FALSE)
    BY <1>1, <1>3, <1>4 DEF advanceEngine, faulty
  <2> QED
    BY <1>4, <2>1, FlushPutGet
<1>5. CASE b.streamStatus # "NoStream" /\ mode = "ENDSTEP"
  <2>1. advance(b, mode) = endStep(b) /\ b.streamStatus = "DuringStep"
    BY <1>1, <1>3, <1>5 DEF advanceEngine, faulty, WriterStatus
  <2> QED
    BY <1>5, <2>1, EndStepGood
<1>6. CASE b.streamStatus # "NoStream" /\ mode = "BEGINSTEP"
  <2>1. advance(b, mode) = beginStep(b)
    BY <1>1, <1>3, <1>6 DEF advanceEngine, faulty
  <2> QED
    BY <1>6, <2>1, BeginStepGood
<1> QED
  BY <1>4, <1>5, <1>6 DEF Modes

\* Closing the engine's step and the engine.
LEMMA ClosedGood ==
  ASSUME NEW b, Good(b), ~b.finalized
  PROVE  LET c == engineClosed(stepClosed(b))
         IN /\ c \in File /\ c.fault = "none" /\ c.finalized
            /\ c.layout = b.layout /\ c.streaming = b.streaming
<1> DEFINE s == stepClosed(b)
<1>1. /\ s \in File /\ s.fault = "none"
      /\ s.layout = b.layout /\ s.streaming = b.streaming
  <2>0. b \in File /\ b.fault = "none"
    BY DEF Good
  <2>1. CASE b.opened /\ b.streamStatus = "DuringStep"
    <3>1. b.inStep
      BY <2>1 DEF Good, Agrees
    <3>2. s = EndStep(b)
      BY <2>0, <2>1 DEF stepClosed, faulty
    <3>3. /\ EndStep(b) \in File
          /\ EndStep(b) = [b EXCEPT !.inStep = FALSE, !.step = EmptyStep,
                                    !.steps = Append(b.steps, contents(b))]
      BY <2>0, <3>1, EndStepInside
    <3>4. /\ EndStep(b).fault = b.fault /\ EndStep(b).layout = b.layout
          /\ EndStep(b).streaming = b.streaming
      BY <2>0, <3>3 DEF File
    <3> QED
      BY <2>0, <3>2, <3>3, <3>4
  <2>2. CASE ~(b.opened /\ b.streamStatus = "DuringStep")
    BY <2>0, <2>2 DEF stepClosed
  <2> QED
    BY <2>1, <2>2
<1> HIDE DEF s
<1> DEFINE t == IF s.opened THEN EngineClose(s) ELSE s
<1>2. /\ t \in File /\ t.fault = "none"
      /\ t.layout = s.layout /\ t.streaming = s.streaming
  <2>1. contents(s) \in Step /\ Append(s.steps, contents(s)) \in Seq(Step)
    BY <1>1, ContentsType DEF File
  <2>2. \/ EngineClose(s) = [s EXCEPT !.steps = Append(s.steps, contents(s)), !.step = EmptyStep]
        \/ EngineClose(s) = s
    BY <1>1 DEF EngineClose, File
  <2> QED
    BY <1>1, <2>1, <2>2, EmptyTypes DEF File
<1> HIDE DEF t
<1>3. engineClosed(s) = [t EXCEPT !.finalized = TRUE]
  BY DEF engineClosed, t
<1> QED
  BY <1>1, <1>2, <1>3 DEF File, s

\* finalize, whatever is still to be written.
LEMMA FinalizeGood ==
  ASSUME NEW b, Good(b), ~b.finalized
  PROVE  /\ finalize(b) \in File /\ finalize(b).fault = "none" /\ finalize(b).finalized
         /\ finalize(b).layout = b.layout /\ finalize(b).streaming = b.streaming
<1> DEFINE g == getEngine(b)
           o == stepOn(g)
           u == put(o, NoChunks, b.m_attributeWrites)
<1>0. b \in File /\ b.mode = "Write" /\ b.m_attributeWrites \in [Owner -> Version]
  BY DEF Good, File
<1>1. Good(g) /\ g.opened /\ SameEngine(b, g)
  BY GetEngine
<1> HIDE DEF g
<1>2. Good(o) /\ o.opened /\ o.streamStatus # "OutsideOfStep" /\ SameEngine(g, o)
  BY <1>1, StepOn
<1> HIDE DEF o
<1>3. Good(u) /\ SameEngine(o, u)
  BY <1>0, <1>2, EmptyTypes, Put
<1> HIDE DEF u
<1>4. \/ finalize(b) = engineClosed(stepClosed(g))
      \/ finalize(b) = engineClosed(stepClosed(u))
  BY <1>0 DEF finalize, requireActiveStep, g, o, u
<1>5. /\ Good(g) /\ ~g.finalized /\ g.layout = b.layout /\ g.streaming = b.streaming
      /\ Good(u) /\ ~u.finalized /\ u.layout = b.layout /\ u.streaming = b.streaming
  BY <1>1, <1>2, <1>3 DEF SameEngine
<1>6. LET c == engineClosed(stepClosed(g))
      IN /\ c \in File /\ c.fault = "none" /\ c.finalized
         /\ c.layout = b.layout /\ c.streaming = b.streaming
  BY <1>5, ClosedGood
<1>7. LET c == engineClosed(stepClosed(u))
      IN /\ c \in File /\ c.fault = "none" /\ c.finalized
         /\ c.layout = b.layout /\ c.streaming = b.streaming
  BY <1>5, ClosedGood
<1> QED
  BY <1>4, <1>6, <1>7

\* The handlers of datasets, attributes and paths leave the engine alone.
LEMMA HandlersGood ==
  ASSUME NEW b, Good(b), NEW o \in Owner, NEW v \in Version
  PROVE  \A c \in {writeDataset(b, o, v), writeAttribute(b, o, v), closePath(b, o)} :
           Good(c) /\ SameEngine(b, c) /\ c.streamStatus = b.streamStatus
<1>0. /\ b \in File /\ b.m_buffer \in [Iter -> Version]
      /\ b.attributes \in [Owner -> Version] /\ b.m_attributeWrites \in [Owner -> Version]
      /\ b.uncommitted \subseteq Owner
  BY DEF Good, File
<1>1. ASSUME NEW c, c = writeDataset(b, o, v)
      PROVE  Good(c) /\ SameEngine(b, c) /\ c.streamStatus = b.streamStatus
  <2>1. [b.m_buffer EXCEPT ![o] = v] \in [Iter -> Version]
    BY <1>0
  <2>2. c = [b EXCEPT !.m_buffer = [b.m_buffer EXCEPT ![o] = v]]
    BY <1>0, <1>1 DEF writeDataset, File
  <2> QED
    BY <1>0, <2>1, <2>2 DEF Good, Agrees, File, SameEngine
<1>2. ASSUME NEW c, c = writeAttribute(b, o, v)
      PROVE  Good(c) /\ SameEngine(b, c) /\ c.streamStatus = b.streamStatus
  <2>1. /\ [b.m_attributeWrites EXCEPT ![o] = v] \in [Owner -> Version]
        /\ [b.attributes EXCEPT ![o] = v] \in [Owner -> Version]
        /\ (b.uncommitted \cup {o}) \in SUBSET Owner
    BY <1>0
  <2>2. \/ c = [b EXCEPT !.m_attributeWrites = [b.m_attributeWrites EXCEPT ![o] = v]]
        \/ c = [b EXCEPT !.attributes = [b.attributes EXCEPT ![o] = v],
                         !.uncommitted = b.uncommitted \cup {o}]
        \/ c = b
    BY <1>0, <1>2 DEF writeAttribute, File
  <2>3. CASE c = [b EXCEPT !.m_attributeWrites = [b.m_attributeWrites EXCEPT ![o] = v]]
    BY <1>0, <2>1, <2>3 DEF Good, Agrees, File, SameEngine
  <2>4. CASE c = [b EXCEPT !.attributes = [b.attributes EXCEPT ![o] = v],
                           !.uncommitted = b.uncommitted \cup {o}]
    <3> DEFINE a == [b.attributes EXCEPT ![o] = v]
               n == b.uncommitted \cup {o}
    <3>1. a \in [Owner -> Version] /\ n \in SUBSET Owner
      BY <2>1
    <3>2. c = [b EXCEPT !.attributes = a, !.uncommitted = n]
      BY <2>4
    <3> HIDE DEF a, n
    <3> QED
      BY <1>0, <3>1, <3>2 DEF Good, Agrees, File, SameEngine
  <2>5. CASE c = b
    BY <2>5 DEF SameEngine
  <2> QED
    BY <2>2, <2>3, <2>4, <2>5
<1>3. ASSUME NEW c, c = closePath(b, o)
      PROVE  Good(c) /\ SameEngine(b, c) /\ c.streamStatus = b.streamStatus
  <2>1. [b.attributes EXCEPT ![o] = 0] \in [Owner -> Version]
    BY <1>0, VersionAssumption DEF Version
  <2>2. c = [b EXCEPT !.attributes = [b.attributes EXCEPT ![o] = 0]] \/ c = b
    BY <1>0, <1>3 DEF closePath, File
  <2> QED
    BY <1>0, <2>1, <2>2 DEF Good, Agrees, File, SameEngine
<1> QED
  BY <1>1, <1>2, <1>3

-----------------------------------------------------------------------------
(* The invariant.                                                          *)

ModeOf(op) == IF op = "begin" THEN "BEGINSTEP" ELSE "ENDSTEP"

\* An ADVANCE task is still to run; the one of the call in progress has run.
Advancing == \E k \in DOMAIN m_work : m_work[k].op = "ADVANCE"
Advanced  == phase = "return" \/ (phase = "last" /\ ~Advancing)

FileInv ==
  /\ engine \in Configs
  /\ file \in File /\ file.fault = "none"
  /\ file.layout = engine.layout /\ file.streaming = engine.stream
  /\ ~file.finalized => Agrees(file)
  /\ phase # "destroyed" => ~file.finalized

\* ADVANCE is enqueued behind a queue that has been emptied, and the buffered
\* puts with it.
AdvanceInv ==
  /\ \A k \in DOMAIN m_work : m_work[k].op = "ADVANCE" =>
       k = 1 /\ phase = "last" /\ m_work[k].mode = ModeOf(call.op)
  /\ phase \in {"advance", "last"} => call.op \in {"begin", "end"}
  /\ phase = "advance" => m_work = <<>> /\ file.m_buffer = NoChunks
  /\ Advancing => file.m_buffer = NoChunks

\* While the frontend believes that it is in a step, the file is in one, or
\* does not use steps.
StepInv ==
  /\ call.op = "end" => m_stepStatus = "DuringStep"
  /\ m_stepStatus = "DuringStep" /\ phase # "destroyed" /\ ~(Advanced /\ call.op = "end") =>
       file.streamStatus # "OutsideOfStep"
  /\ Advanced /\ call.op = "begin" => file.streamStatus # "OutsideOfStep"

Inv == FileInv /\ FrontendTypeOK /\ AdvanceInv /\ StepInv

-----------------------------------------------------------------------------
(* Queues.                                                                 *)

\* Tasks none of which advances the file.
Plain(s) == s \in Seq(IOTask) /\ \A k \in DOMAIN s : s[k].op # "ADVANCE"

\* What may be enqueued in a flush.
LEMMA PlainTasks ==
  ASSUME NEW o \in Owner, NEW v \in Version, NEW c \in BOOLEAN,
         NEW op \in Operation \ {"ADVANCE"}
  PROVE  Plain(When(c, Task(op, o))) /\ Plain(When(c, VersionTask(op, o, v)))
<1>1. Task(op, o) \in IOTask /\ Task(op, o).op = op
  BY VersionAssumption DEF Task, IOTask, Modes, Version
<1>2. VersionTask(op, o, v) \in IOTask /\ VersionTask(op, o, v).op = op
  BY <1>1 DEF VersionTask, IOTask
<1> QED
  BY <1>1, <1>2 DEF When, Plain

\* Appending plain tasks to plain tasks.
LEMMA PlainConcat ==
  ASSUME NEW s, NEW t, Plain(s), Plain(t)
  PROVE  Plain(s \o t)
<1>1. s \in Seq(IOTask) /\ t \in Seq(IOTask) /\ s \o t \in Seq(IOTask)
  BY DEF Plain
<1>2. ASSUME NEW k \in DOMAIN (s \o t)
      PROVE  (s \o t)[k].op # "ADVANCE"
  <2>1. k \in 1 .. Len(s) + Len(t)
    BY <1>1
  <2>2. CASE k <= Len(s)
    BY <1>1, <2>1, <2>2 DEF Plain
  <2>3. CASE k > Len(s)
    <3>1. (s \o t)[k] = t[k - Len(s)] /\ k - Len(s) \in DOMAIN t
      BY <1>1, <2>1, <2>3
    <3> QED
      BY <3>1 DEF Plain
  <2> QED
    BY <1>1, <2>1, <2>2, <2>3
<1> QED
  BY <1>1, <1>2 DEF Plain

\* Except at the end of a call with a step, the queue is plain.
LEMMA PlainQueue ==
  ASSUME Inv, phase # "last"
  PROVE  Plain(m_work) /\ ~Advancing
BY DEF Inv, FrontendTypeOK, AdvanceInv, Plain, Advancing

-----------------------------------------------------------------------------
(* Steps that do not touch the file.                                       *)

\* Such a step keeps the invariant of the file if the frontend does not come to
\* believe that it is in a step.
LEMMA Calm ==
  ASSUME Inv, UNCHANGED <<engine, file>>, phase \notin {"last", "destroyed"},
         phase' \in {"idle", "flush", "drain"}, Plain(m_work'),
         call'.op = "end" => m_stepStatus' = "DuringStep",
         m_stepStatus' = "DuringStep" => file.streamStatus # "OutsideOfStep"
  PROVE  FileInv' /\ AdvanceInv' /\ StepInv'
<1>1. FileInv'
  BY DEF Inv, FileInv
<1>2. AdvanceInv'
  BY DEF AdvanceInv, Advancing, Plain
<1>3. StepInv'
  BY DEF StepInv, Advanced
<1> QED
  BY <1>1, <1>2, <1>3

\* Outside of the end of a call, what the frontend believes is right.
LEMMA InStep ==
  ASSUME Inv, phase \notin {"last", "return", "destroyed"}
  PROVE  /\ call.op = "end" => m_stepStatus = "DuringStep"
         /\ m_stepStatus = "DuringStep" => file.streamStatus # "OutsideOfStep"
BY DEF Inv, StepInv, Advanced

\* New versions of the contents of an iteration.
LEMMA ContentType ==
  ASSUME NEW f \in [Iter -> Content], NEW i \in Iter, NEW v \in Version
  PROVE  /\ [f EXCEPT ![i].attr = v] \in [Iter -> Content]
         /\ [f EXCEPT ![i].data = v] \in [Iter -> Content]
<1>1. f[i] \in Content
  OBVIOUS
<1>2. [f[i] EXCEPT !.attr = v] \in Content /\ [f[i] EXCEPT !.data = v] \in Content
  BY <1>1 DEF Content
<1> QED
  BY <1>2

\* What the user does between two calls.
LEMMA ModifyKeeps ==
  ASSUME Inv, Modify
  PROVE  Inv'
<1>1. /\ phase = "idle" /\ phase' = "idle" /\ UNCHANGED <<engine, file, m_work, call, m_stepStatus>>
      /\ UNCHANGED <<seriesWritten, written, m_closed, currentlyOpen, finished, todo>>
      /\ result' = "none"
  BY DEF Modify, SetAttribute, StoreChunk, Insert, SetSeriesAttribute, change, Idle,
         backendVars, control, user
<1>2. Plain(m_work')
  BY <1>1, PlainQueue
<1>3. FileInv' /\ AdvanceInv' /\ StepInv'
  BY <1>1, <1>2, Calm, InStep
<1>4. FrontendTypeOK'
  <2>0. FrontendTypeOK
    BY DEF Inv
  <2>1. result' \in Result
    BY <1>1 DEF Result
  <2>2. CASE \E i \in Iter : SetAttribute(i)
    <3>1. PICK i \in Iter : SetAttribute(i)
      BY <2>2
    <3>2. mem \in [Iter -> Content] /\ mem[i] \in Content
      BY <2>0 DEF FrontendTypeOK
    <3>3. mem' = [mem EXCEPT ![i].attr = mem[i].attr + 1] /\ mem[i].attr + 1 \in Version
      BY <3>1, <3>2, VersionAssumption DEF SetAttribute, Content, Version
    <3>4. mem' \in [Iter -> Content]
      BY <3>2, <3>3, ContentType
    <3> QED
      BY <1>1, <2>0, <2>1, <3>1, <3>4, ChangesAssumption
      DEF SetAttribute, change, FrontendTypeOK
  <2>3. CASE \E i \in Iter : StoreChunk(i)
    <3>1. PICK i \in Iter : StoreChunk(i)
      BY <2>3
    <3>2. mem \in [Iter -> Content] /\ mem[i] \in Content
      BY <2>0 DEF FrontendTypeOK
    <3>3. mem' = [mem EXCEPT ![i].data = mem[i].data + 1] /\ mem[i].data + 1 \in Version
      BY <3>1, <3>2, VersionAssumption DEF StoreChunk, Content, Version
    <3>4. mem' \in [Iter -> Content]
      BY <3>2, <3>3, ContentType
    <3> QED
      BY <1>1, <2>0, <2>1, <3>1, <3>4, ChangesAssumption
      DEF StoreChunk, change, FrontendTypeOK
  <2>4. CASE \E i \in Iter : Insert(i)
    BY <1>1, <2>0, <2>1, <2>4 DEF Insert, FrontendTypeOK, user
  <2>5. CASE SetSeriesAttribute
    <3>1. seriesAttr' \in Version
      BY <2>0, <2>5, VersionAssumption DEF SetSeriesAttribute, FrontendTypeOK, Version
    <3> QED
      BY <1>1, <2>0, <2>1, <2>5, <3>1, ChangesAssumption
      DEF SetSeriesAttribute, change, FrontendTypeOK
  <2> QED
    BY <2>2, <2>3, <2>4, <2>5 DEF Modify
<1> QED
  BY <1>3, <1>4 DEF Inv

-----------------------------------------------------------------------------
(* Entering a call.                                                        *)

CallOps == {"flush", "close", "begin", "end", "destroy"}

\* The types and the queue behind the entry of a call.
LEMMA StartFlushTypes ==
  ASSUME Plain(m_work), NEW op \in CallOps, NEW i \in Iter \cup {None},
         op \in {"close", "begin", "end"} => i \in Iter,
         NEW old \in CloseStatus, NEW next \in Iter \cup {None}, NEW S \in SUBSET Iter,
         seriesWritten \in BOOLEAN, startFlush(op, i, old, next, S)
  PROVE  /\ Plain(m_work') /\ phase' = "flush" /\ todo' \subseteq Iter
         /\ call' \in Call /\ call'.op = op
         /\ call'.op \in {"begin", "end", "close"} => call'.it \in Iter
         /\ result' \in Result
<1>1. Plain(When(~seriesWritten, Task("CREATE_FILE", Root)))
  <2>1. Root \in Owner /\ 1 \in Version /\ "CREATE_FILE" \in Operation \ {"ADVANCE"}
    BY VersionAssumption DEF Owner, Version, Operation
  <2> QED
    BY <2>1, PlainTasks
<1>2. Plain(m_work')
  BY <1>1, PlainConcat DEF startFlush, enqueue
<1>3. call' = [op |-> op, it |-> i, old |-> old, next |-> next]
  BY DEF startFlush
<1>4. call' \in Call
  BY <1>3 DEF Call, CallOps
<1> QED
  BY <1>2, <1>3, <1>4 DEF startFlush, Result

\* The rest of the types of a call that has been entered.
LEMMA StartStepTypes ==
  ASSUME Plain(m_work), NEW op \in {"begin", "end"}, NEW i \in Iter,
         NEW status \in CloseStatus, NEW next \in Iter \cup {None},
         seriesWritten \in BOOLEAN, m_closed \in [Iter -> CloseStatus],
         startStep(op, i, status, next)
  PROVE  /\ Plain(m_work') /\ phase' = "flush" /\ todo' \subseteq Iter
         /\ call' \in Call /\ call'.op = op
         /\ call'.op \in {"begin", "end", "close"} => call'.it \in Iter
         /\ result' \in Result
         /\ m_closed' \in [Iter -> CloseStatus]
<1>1. startFlush(op, i, status, next, {i})
  BY DEF startStep
<1>2. m_closed' \in [Iter -> CloseStatus]
  BY DEF startStep, CloseStatus
<1>3. op \in CallOps /\ i \in Iter \cup {None} /\ {i} \in SUBSET Iter
  BY DEF CallOps
<1>4. op \in {"close", "begin", "end"} => i \in Iter
  OBVIOUS
<1> QED
  BY <1>1, <1>2, <1>3, <1>4, StartFlushTypes

\* Series::flush, and the destructor's.
LEMMA FlushKeeps ==
  ASSUME Inv, Flush \/ Destroy
  PROVE  Inv'
<1>0. FrontendTypeOK /\ phase = "idle" /\ seriesWritten \in BOOLEAN
  BY DEF Inv, Flush, Destroy, Idle, FrontendTypeOK
<1>1. Plain(m_work)
  BY <1>0, PlainQueue
<1>2. PICK op \in {"flush", "destroy"} : startFlush(op, None, "Open", None, iterations)
  BY DEF Flush, Destroy
<1>3. /\ Plain(m_work') /\ phase' = "flush" /\ todo' \subseteq Iter
      /\ call' \in Call /\ call'.op = op /\ result' \in Result
  <2>1. /\ op \in CallOps /\ ~(op \in {"close", "begin", "end"}) /\ "Open" \in CloseStatus
        /\ iterations \in SUBSET Iter /\ None \in Iter \cup {None}
    BY <1>0 DEF CallOps, CloseStatus, FrontendTypeOK
  <2> QED
    BY <1>0, <1>1, <1>2, <2>1, StartFlushTypes
<1>4. UNCHANGED <<backendVars, objects, user, m_stepStatus, finished>>
  BY DEF Flush, Destroy
<1>5. FileInv' /\ AdvanceInv' /\ StepInv'
  BY <1>0, <1>3, <1>4, Calm, InStep DEF backendVars
<1>6. FrontendTypeOK'
  BY <1>0, <1>3, <1>4 DEF FrontendTypeOK, backendVars, objects, user, Plain
<1> QED
  BY <1>5, <1>6 DEF Inv

\* Iteration::close enters endStep only if the frontend is in a step.
LEMMA CloseIterationKeeps ==
  ASSUME Inv, phase = "idle", NEW i \in Iter, NEW now \in BOOLEAN,
         NEW next \in Iter \cup {None}, closeIteration(i, now, next),
         UNCHANGED <<iterations, currentlyOpen>>
  PROVE  Inv'
<1>0. /\ FrontendTypeOK /\ seriesWritten \in BOOLEAN /\ m_closed \in [Iter -> CloseStatus]
      /\ Plain(m_work)
  BY PlainQueue DEF Inv, FrontendTypeOK
<1> DEFINE status == IF m_closed[i] = "ClosedInBackend" THEN m_closed[i]
                     ELSE "ClosedInFrontend"
<1>1. status \in CloseStatus
  BY DEF CloseStatus
<1>2. /\ mem' = [mem EXCEPT ![i].attr = IF @ < MaxVersion THEN @ + 1 ELSE @]
      /\ dirty' = [dirty EXCEPT ![i] = TRUE]
      /\ UNCHANGED <<backendVars, pending, seriesDirty, seriesAttr, changes,
                     m_stepStatus, finished>>
  BY DEF closeIteration
<1>3. mem' \in [Iter -> Content]
  <2>1. mem \in [Iter -> Content] /\ mem[i] \in Content
    BY <1>0 DEF FrontendTypeOK
  <2> DEFINE v == IF mem[i].attr < MaxVersion THEN mem[i].attr + 1 ELSE mem[i].attr
  <2>2. v \in Version
    BY <2>1, VersionAssumption DEF Content, Version
  <2>3. mem' = [mem EXCEPT ![i].attr = v]
    BY <1>2, <2>1
  <2> HIDE DEF v
  <2> QED
    BY <2>1, <2>2, <2>3, ContentType
<1>4. \/ m_stepStatus = "DuringStep" /\ startStep("end", i, status, next)
      \/ /\ startFlush("close", i, "Open", next, {i})
         /\ m_closed' = [m_closed EXCEPT ![i] = status]
      \/ /\ m_closed' = [m_closed EXCEPT ![i] = status]
         /\ result' \in {"deferred_close", "ok"}
         /\ UNCHANGED <<m_work, phase, call, todo>>
  BY DEF closeIteration
<1> HIDE DEF status
<1>5. /\ Plain(m_work') /\ phase' \in {"idle", "flush"} /\ todo' \subseteq Iter
      /\ call' \in Call /\ (call'.op = "end" => m_stepStatus = "DuringStep")
      /\ call'.op \in {"begin", "end", "close"} => call'.it \in Iter
      /\ result' \in Result /\ m_closed' \in [Iter -> CloseStatus]
  <2>1. CASE m_stepStatus = "DuringStep" /\ startStep("end", i, status, next)
    BY <1>0, <1>1, <2>1, StartStepTypes
  <2>2. CASE /\ startFlush("close", i, "Open", next, {i})
             /\ m_closed' = [m_closed EXCEPT ![i] = status]
    <3>1. "Open" \in CloseStatus /\ "close" \in CallOps
      BY DEF CloseStatus, CallOps
    <3> QED
      BY <1>0, <1>1, <2>2, <3>1, StartFlushTypes
  <2>3. CASE /\ m_closed' = [m_closed EXCEPT ![i] = status]
             /\ result' \in {"deferred_close", "ok"}
             /\ UNCHANGED <<m_work, phase, call, todo>>
    BY <1>0, <1>1, <2>3, InStep DEF FrontendTypeOK, Result
  <2> QED
    BY <1>4, <2>1, <2>2, <2>3
<1>6. FileInv' /\ AdvanceInv' /\ StepInv'
  BY <1>2, <1>5, Calm, InStep DEF backendVars
<1>7. FrontendTypeOK'
  BY <1>0, <1>2, <1>3, <1>5 DEF FrontendTypeOK, backendVars, Plain
<1> QED
  BY <1>6, <1>7 DEF Inv

\* WriteIterations::operator[].
LEMMA SwitchToKeeps ==
  ASSUME Inv, NEW i \in Iter, SwitchTo(i)
  PROVE  Inv'
<1>0. /\ FrontendTypeOK /\ phase = "idle" /\ seriesWritten \in BOOLEAN
      /\ m_closed \in [Iter -> CloseStatus] /\ currentlyOpen \in Iter \cup {None}
  BY DEF Inv, SwitchTo, Idle, FrontendTypeOK
<1>1. Plain(m_work)
  BY <1>0, PlainQueue
<1>2. CASE currentlyOpen # None /\ currentlyOpen # i /\ ~closed(currentlyOpen)
  <2>1. closeIteration(currentlyOpen, TRUE, i) /\ UNCHANGED <<iterations, currentlyOpen>>
    BY <1>2 DEF SwitchTo
  <2> QED
    BY <1>0, <1>2, <2>1, CloseIterationKeeps
<1>3. CASE ~(currentlyOpen # None /\ currentlyOpen # i /\ ~closed(currentlyOpen))
  <2>1. /\ select(i)
        /\ UNCHANGED <<backendVars, dirty, pending, seriesDirty, seriesAttr, mem,
                       changes, m_stepStatus, finished>>
    BY <1>3 DEF SwitchTo
  <2>2. /\ Plain(m_work') /\ phase' \in {"idle", "flush"} /\ todo' \subseteq Iter
        /\ call' \in Call /\ call'.op # "end"
        /\ call'.op \in {"begin", "end", "close"} => call'.it \in Iter
        /\ result' \in Result /\ m_closed' \in [Iter -> CloseStatus]
    <3>1. CASE startStep("begin", i, m_closed[i], None)
      BY <1>0, <1>1, <3>1, StartStepTypes
    <3>2. CASE /\ phase' = "idle" /\ call' = NoCall /\ todo' = {} /\ result' = "ok"
               /\ UNCHANGED <<m_closed, m_work>>
      BY <1>0, <1>1, <3>2 DEF NoCall, Call, CloseStatus, Result
    <3> QED
      BY <2>1, <3>1, <3>2 DEF select
  <2>3. currentlyOpen' = i /\ iterations' = iterations \cup {i}
    BY <2>1 DEF select
  <2>4. FileInv' /\ AdvanceInv' /\ StepInv'
    BY <1>0, <2>1, <2>2, Calm, InStep DEF backendVars
  <2>5. FrontendTypeOK'
    BY <1>0, <2>1, <2>2, <2>3 DEF FrontendTypeOK, backendVars, Plain
  <2> QED
    BY <2>4, <2>5 DEF Inv
<1> QED
  BY <1>2, <1>3

-----------------------------------------------------------------------------
(* The flush loop.                                                         *)

\* A visited iteration puts plain tasks into the queue.
LEMMA WriteIterationKeeps ==
  ASSUME Inv, NEW i \in Iter, WriteIteration(i)
  PROVE  Inv'
<1>0. /\ FrontendTypeOK /\ phase = "flush" /\ i \in todo
      /\ mem[i].data \in Version /\ mem[i].attr \in Version /\ i \in Owner
      /\ written[i] \in BOOLEAN /\ pending[i] \in BOOLEAN /\ dirty[i] \in BOOLEAN
  BY DEF Inv, WriteIteration, Reached, Least, FrontendTypeOK, Content, Owner
<1>1. Plain(m_work)
  BY <1>0, PlainQueue
<1>2. Plain(iterationTasks(i))
  <2>1. {"CREATE_PATH", "WRITE_DATASET", "WRITE_ATT"} \subseteq Operation \ {"ADVANCE"}
    BY DEF Operation
  <2>2. /\ Plain(When(~written[i], Task("CREATE_PATH", i)))
        /\ Plain(When(pending[i], VersionTask("WRITE_DATASET", i, mem[i].data)))
        /\ Plain(When(dirty[i], VersionTask("WRITE_ATT", i, mem[i].attr)))
    BY <1>0, <2>1, PlainTasks
  <2> QED
    BY <2>2, PlainConcat DEF iterationTasks
<1>3. Plain(m_work')
  BY <1>1, <1>2, PlainConcat DEF WriteIteration, enqueue
<1>4. /\ UNCHANGED <<backendVars, iterations, seriesDirty, user, phase, call, result,
                     m_stepStatus, finished>>
      /\ dirty' = [dirty EXCEPT ![i] = FALSE] /\ pending' = [pending EXCEPT ![i] = FALSE]
      /\ m_closed' = [m_closed EXCEPT ![i] =
                        IF @ = "ClosedInFrontend" THEN "ClosedInBackend" ELSE @]
      /\ todo' = todo \ {i}
  BY DEF WriteIteration
<1>5. m_closed' \in [Iter -> CloseStatus]
  BY <1>0, <1>4 DEF FrontendTypeOK, CloseStatus
<1>6. FileInv' /\ AdvanceInv' /\ StepInv'
  BY <1>0, <1>3, <1>4, Calm, InStep DEF backendVars
<1>7. FrontendTypeOK'
  BY <1>0, <1>3, <1>4, <1>5 DEF FrontendTypeOK, backendVars, user, Plain
<1> QED
  BY <1>6, <1>7 DEF Inv

\* A closed iteration is passed over.
LEMMA SkipClosedKeeps ==
  ASSUME Inv, NEW i \in Iter, SkipClosed(i)
  PROVE  Inv'
<1>0. /\ FrontendTypeOK /\ phase = "flush" /\ todo' \subseteq todo
      /\ UNCHANGED <<backendVars, m_work, objects, user, phase, call, result, m_stepStatus,
                     finished>>
  BY DEF Inv, SkipClosed, Reached
<1>1. Plain(m_work')
  BY <1>0, PlainQueue
<1>2. FileInv' /\ AdvanceInv' /\ StepInv'
  BY <1>0, <1>1, Calm, InStep DEF backendVars
<1>3. FrontendTypeOK'
  BY <1>0 DEF FrontendTypeOK, backendVars, user, objects
<1> QED
  BY <1>2, <1>3 DEF Inv

\* The attributes of the Series are enqueued behind the iterations.
LEMMA LoopDoneKeeps ==
  ASSUME Inv, LoopDone
  PROVE  Inv'
<1>0. /\ FrontendTypeOK /\ phase = "flush" /\ phase' = "drain" /\ seriesDirty' = FALSE
      /\ UNCHANGED <<backendVars, iterations, m_closed, dirty, pending, user, call, todo,
                     result, m_stepStatus, finished>>
  BY DEF Inv, LoopDone
<1>1. Plain(m_work)
  BY <1>0, PlainQueue
<1>2. Plain(When(seriesDirty, VersionTask("WRITE_ATT", Root, seriesAttr)))
  <2>1. /\ "WRITE_ATT" \in Operation \ {"ADVANCE"} /\ Root \in Owner
        /\ seriesDirty \in BOOLEAN /\ seriesAttr \in Version
    BY <1>0 DEF Operation, Owner, FrontendTypeOK
  <2> QED
    BY <2>1, PlainTasks
<1>3. Plain(m_work')
  BY <1>1, <1>2, PlainConcat DEF LoopDone, enqueue
<1>4. FileInv' /\ AdvanceInv' /\ StepInv'
  BY <1>0, <1>3, Calm, InStep DEF backendVars
<1>5. FrontendTypeOK'
  BY <1>0, <1>3 DEF FrontendTypeOK, backendVars, user, Plain
<1> QED
  BY <1>4, <1>5 DEF Inv

-----------------------------------------------------------------------------
(* Leaving a call.                                                         *)

\* Whoever leaves a call, the file is as it was or finalized.
LEMMA LeaveKeepsFile ==
  ASSUME Inv, phase # "destroyed", NEW r, leave(r)
  PROVE  /\ FileInv'
         /\ phase' \in {"idle", "destroyed"}
         /\ phase' = "idle" => UNCHANGED file
         /\ UNCHANGED <<engine, seriesWritten, written>>
         /\ call' = NoCall /\ todo' = {} /\ result' \in {r, "terminate"}
<1>1. /\ FileInv /\ Good(file) /\ ~file.finalized
  BY DEF Inv, FileInv, Good
<1>2. /\ phase' \in {"idle", "destroyed"} /\ file' \in {file, finalize(file)}
      /\ phase' = "idle" => UNCHANGED file
      /\ UNCHANGED <<engine, seriesWritten, written>>
      /\ call' = NoCall /\ todo' = {} /\ result' \in {r, "terminate"}
  BY DEF leave
<1>3. /\ finalize(file) \in File /\ finalize(file).fault = "none" /\ finalize(file).finalized
      /\ finalize(file).layout = file.layout /\ finalize(file).streaming = file.streaming
  BY <1>1, FinalizeGood
<1>4. FileInv'
  <2>1. CASE UNCHANGED file
    BY <1>1, <1>2, <2>1 DEF FileInv
  <2>2. CASE file' = finalize(file) /\ phase' = "destroyed"
    BY <1>1, <1>2, <1>3, <2>2 DEF FileInv
  <2> QED
    BY <1>2, <2>1, <2>2
<1> QED
  BY <1>2, <1>4

\* Behind a call the frontend is in a step only if the file is, or knows none.
LEMMA LeaveKeeps ==
  ASSUME Inv, phase # "destroyed", phase # "last", NEW r \in Result, leave(r),
         UNCHANGED m_work,
         m_stepStatus' = "DuringStep" => file.streamStatus # "OutsideOfStep"
  PROVE  FileInv' /\ AdvanceInv' /\ StepInv'
<1>1. /\ FileInv' /\ phase' \in {"idle", "destroyed"}
      /\ phase' = "idle" => UNCHANGED file
      /\ UNCHANGED engine /\ call' = NoCall
  BY LeaveKeepsFile
<1>2. Plain(m_work')
  BY PlainQueue
<1>3. AdvanceInv'
  BY <1>1, <1>2 DEF AdvanceInv, Advancing, Plain
<1>4. StepInv'
  BY <1>1 DEF StepInv, Advanced, NoCall
<1> QED
  BY <1>1, <1>3, <1>4

\* A refused flush.
LEMMA RejectKeeps ==
  ASSUME Inv, NEW i \in Iter, Reject(i)
  PROVE  Inv'
<1>0. FrontendTypeOK /\ phase = "flush" /\ UNCHANGED <<m_work, objects, user, m_stepStatus, finished>>
  BY DEF Inv, Reject, Reached
<1>1. PICK r \in {"closed_access", "internal_error"} : leave(r)
  BY DEF Reject
<1>2. r \in Result /\ "terminate" \in Result
  BY DEF Result
<1>3. FileInv' /\ AdvanceInv' /\ StepInv'
  BY <1>0, <1>1, <1>2, LeaveKeeps, InStep
<1>4. /\ phase' \in {"idle", "destroyed"} /\ UNCHANGED <<seriesWritten, written>>
      /\ call' = NoCall /\ todo' = {} /\ result' \in {r, "terminate"}
  BY <1>0, <1>1, LeaveKeepsFile
<1>5. FrontendTypeOK'
  BY <1>0, <1>2, <1>4 DEF FrontendTypeOK, objects, user, NoCall, Call, CloseStatus
<1> QED
  BY <1>3, <1>5 DEF Inv

\* What the frontend believes after a call follows what the file has done.
LEMMA AfterCall ==
  ASSUME Inv, phase = "return", afterCall
  PROVE  /\ m_stepStatus' = "DuringStep" => file.streamStatus # "OutsideOfStep"
         /\ m_stepStatus' \in {"NoStep", "DuringStep"}
BY DEF Inv, StepInv, Advanced, afterCall, FrontendTypeOK

\* A call returns.
LEMMA ReturnKeeps ==
  ASSUME Inv, Return
  PROVE  Inv'
<1>0. /\ FrontendTypeOK /\ phase = "return" /\ leave("ok") /\ afterCall
      /\ UNCHANGED <<m_work, iterations, m_closed, currentlyOpen>>
      /\ UNCHANGED <<dirty, pending, seriesDirty, seriesAttr, mem, changes, finished>>
  BY DEF Inv, Return, afterCall
<1>1. "ok" \in Result /\ "terminate" \in Result
  BY DEF Result
<1>2. FileInv' /\ AdvanceInv' /\ StepInv'
  BY <1>0, <1>1, LeaveKeeps, AfterCall
<1>3. /\ phase' \in {"idle", "destroyed"} /\ UNCHANGED <<seriesWritten, written>>
      /\ call' = NoCall /\ todo' = {} /\ result' \in {"ok", "terminate"}
  BY <1>0, LeaveKeepsFile
<1>4. m_stepStatus' \in {"NoStep", "DuringStep"}
  BY <1>0, AfterCall
<1>5. FrontendTypeOK'
  BY <1>0, <1>1, <1>3, <1>4 DEF FrontendTypeOK, NoCall, Call, CloseStatus
<1> QED
  BY <1>2, <1>5 DEF Inv

\* operator[] goes on to the iteration it was called for.
LEMMA ReturnToLoopKeeps ==
  ASSUME Inv, ReturnToLoop
  PROVE  Inv'
<1>0. /\ FrontendTypeOK /\ phase = "return" /\ afterCall /\ UNCHANGED backendVars
      /\ call \in Call /\ call.next # None
      /\ startStep("begin", call.next, m_closed[call.next], None)
      /\ iterations' = iterations \cup {call.next} /\ currentlyOpen' = call.next
      /\ UNCHANGED <<dirty, pending, seriesDirty, seriesAttr, mem, changes, finished>>
  BY DEF Inv, FrontendTypeOK, ReturnToLoop, afterCall
<1>1. /\ call.next \in Iter /\ m_closed[call.next] \in CloseStatus
      /\ m_closed \in [Iter -> CloseStatus] /\ seriesWritten \in BOOLEAN
  BY <1>0 DEF FrontendTypeOK, Call
<1>2. Plain(m_work)
  BY <1>0, PlainQueue
<1>3. /\ Plain(m_work') /\ phase' = "flush" /\ todo' \subseteq Iter
      /\ call' \in Call /\ call'.op = "begin"
      /\ call'.op \in {"begin", "end", "close"} => call'.it \in Iter
      /\ result' \in Result /\ m_closed' \in [Iter -> CloseStatus]
  BY <1>0, <1>1, <1>2, StartStepTypes
<1>4. /\ m_stepStatus' = "DuringStep" => file.streamStatus # "OutsideOfStep"
      /\ m_stepStatus' \in {"NoStep", "DuringStep"}
  BY <1>0, AfterCall
<1>5. FileInv' /\ AdvanceInv' /\ StepInv'
  BY <1>0, <1>3, <1>4, Calm DEF backendVars
<1>6. FrontendTypeOK'
  BY <1>0, <1>1, <1>3, <1>4 DEF FrontendTypeOK, backendVars, Plain
<1> QED
  BY <1>5, <1>6 DEF Inv

-----------------------------------------------------------------------------
(* The queue and the file.                                                 *)

\* A flush of the handler; the step of the file, if any, stays open.
LEMMA SettleKeeps ==
  ASSUME Inv, Settle
  PROVE  Inv'
<1>0. /\ FrontendTypeOK /\ FileInv /\ AdvanceInv /\ StepInv
      /\ phase \in {"drain", "last"} /\ m_work = <<>> /\ m_work' = <<>>
      /\ file' = flush(file, "putget", FALSE, FALSE)
      /\ phase' = IF phase = "drain" /\ call.op \in {"begin", "end"} THEN "advance"
                  ELSE "return"
      /\ UNCHANGED <<engine, seriesWritten, written, objects, user, call, todo, result,
                     m_stepStatus, finished>>
  BY DEF Inv, Settle, Draining, flushed
<1>1. Good(file) /\ ~file.finalized
  BY <1>0 DEF FileInv, Good
<1>2. /\ Good(file') /\ SameEngine(file, file') /\ file'.m_buffer = NoChunks
      /\ file.streamStatus # "OutsideOfStep" => file'.streamStatus = file.streamStatus
  BY <1>0, <1>1, FlushPutGet
<1>3. FileInv'
  BY <1>0, <1>1, <1>2 DEF FileInv, Good, SameEngine, Agrees
<1>4. ~Advancing /\ ~Advancing'
  BY <1>0 DEF Advancing
<1>5. AdvanceInv'
  <2>1. DOMAIN m_work' = {}
    BY <1>0
  <2>2. phase' \in {"advance", "return"} /\ (phase' = "advance" => call'.op \in {"begin", "end"})
    BY <1>0
  <2> QED
    BY <1>2, <1>4, <2>1, <2>2 DEF AdvanceInv
<1>6. StepInv'
  <2>1. CASE phase = "drain"
    BY <1>0, <1>2, <1>4, <2>1 DEF StepInv, Advanced
  <2>2. CASE phase = "last"
    BY <1>0, <1>2, <1>4, <2>2 DEF StepInv, Advanced
  <2> QED
    BY <1>0, <2>1, <2>2
<1>7. FrontendTypeOK'
  BY <1>0 DEF FrontendTypeOK, objects, user
<1> QED
  BY <1>3, <1>5, <1>6, <1>7 DEF Inv

\* The tail of SeriesImpl::advance enqueues into an empty queue.
LEMMA AdvanceKeeps ==
  ASSUME Inv, Advance
  PROVE  Inv'
<1> DEFINE i == call.it
           closing == call.old = "ClosedInFrontend" /\ call.op = "end"
           mode == IF call.op = "begin" THEN "BEGINSTEP" ELSE "ENDSTEP"
           tail == When(closing, Task("CLOSE_PATH", i))
<1>0. /\ FrontendTypeOK /\ FileInv /\ AdvanceInv /\ StepInv
      /\ phase = "advance" /\ phase' = "last" /\ m_work = <<>>
      /\ file.m_buffer = NoChunks /\ call \in Call /\ i \in Iter
      /\ m_work' = m_work \o (<<AdvanceTask(mode)>> \o tail)
      /\ UNCHANGED <<backendVars, iterations, dirty, pending, seriesDirty, user, call,
                     todo, result, m_stepStatus>>
  BY DEF Inv, Advance, enqueue, AdvanceInv, FrontendTypeOK
<1>1. AdvanceTask(mode) \in IOTask /\ AdvanceTask(mode).op = "ADVANCE" /\ AdvanceTask(mode).mode = mode
  BY VersionAssumption DEF AdvanceTask, Task, IOTask, Modes, Operation, Owner, Version
<1>2. Plain(tail)
  <2>1. "CLOSE_PATH" \in Operation \ {"ADVANCE"} /\ i \in Owner /\ 0 \in Version /\ closing \in BOOLEAN
    BY <1>0, VersionAssumption DEF Operation, Owner, Version
  <2> QED
    BY <2>1, PlainTasks
<1> HIDE DEF tail
<1>3. m_work' = <<AdvanceTask(mode)>> \o tail
  BY <1>0, <1>1, <1>2 DEF Plain
<1>4. /\ m_work' \in Seq(IOTask) /\ m_work' # <<>> /\ m_work'[1] = AdvanceTask(mode)
      /\ \A k \in DOMAIN m_work' : m_work'[k].op = "ADVANCE" => k = 1
  BY <1>1, <1>2, <1>3 DEF Plain
<1>5. m_closed' \in [Iter -> CloseStatus]
  BY <1>0 DEF Advance, FrontendTypeOK, Call, CloseStatus
<1>6. finished' \in Seq([it : Iter, attr : Version, data : Version])
  <2> DEFINE T == [it : Iter, attr : Version, data : Version]
             x == [it |-> i, attr |-> mem[i].attr, data |-> mem[i].data]
  <2>1. x \in T /\ finished \in Seq(T)
    BY <1>0 DEF FrontendTypeOK, Content
  <2>2. finished' \in {Append(finished, x), finished}
    BY DEF Advance
  <2> HIDE DEF T, x
  <2>3. finished' \in Seq(T)
    BY <2>1, <2>2
  <2> QED
    BY <2>3 DEF T
<1>7. FileInv'
  BY <1>0 DEF FileInv, backendVars
<1>8. Advancing'
  BY <1>1, <1>4 DEF Advancing
<1>9. AdvanceInv'
  BY <1>0, <1>1, <1>4 DEF AdvanceInv, ModeOf, backendVars
<1>10. StepInv'
  BY <1>0, <1>8 DEF StepInv, Advanced, backendVars
<1>11. FrontendTypeOK'
  BY <1>0, <1>4, <1>5, <1>6 DEF FrontendTypeOK, backendVars, user
<1> QED
  BY <1>7, <1>9, <1>10, <1>11 DEF Inv

\* One task.  ADVANCE finds no buffered puts, and ENDSTEP a step to end.
LEMMA ExecuteKeeps ==
  ASSUME Inv, Execute
  PROVE  Inv'
<1> DEFINE t == Head(m_work)
<1>0. /\ FrontendTypeOK /\ FileInv /\ AdvanceInv /\ StepInv
      /\ phase \in {"drain", "last"} /\ m_work # <<>> /\ m_work' = Tail(m_work)
      /\ file' = effect(t)
      /\ UNCHANGED <<engine, objects, user, control, m_stepStatus, finished>>
  BY DEF Inv, Execute, Draining
<1>1. Good(file) /\ ~file.finalized
  BY <1>0 DEF FileInv, Good
<1>2. /\ t \in IOTask /\ t = m_work[1] /\ 1 \in DOMAIN m_work
      /\ m_work' \in Seq(IOTask)
      /\ \A k \in DOMAIN m_work' : k + 1 \in DOMAIN m_work /\ m_work'[k] = m_work[k + 1]
  BY <1>0 DEF FrontendTypeOK
<1>3. t.op \in Operation /\ t.of \in Owner /\ t.v \in Version /\ t.mode \in Modes
  BY <1>2 DEF IOTask
<1>4. ~Advancing'
  <2>1. ASSUME NEW k \in DOMAIN m_work', m_work'[k].op = "ADVANCE"
        PROVE  FALSE
    <3>1. k + 1 \in DOMAIN m_work /\ m_work[k + 1].op = "ADVANCE" /\ k \in Nat \ {0}
      BY <1>2, <2>1
    <3>2. k + 1 = 1
      BY <1>0, <3>1 DEF AdvanceInv
    <3> QED
      BY <3>1, <3>2
  <2> QED
    BY <2>1 DEF Advancing
<1>5. /\ Good(file') /\ SameEngine(file, file')
      /\ t.op # "ADVANCE" => file'.streamStatus = file.streamStatus
      /\ t.op = "ADVANCE" => /\ Advancing /\ phase = "last"
                             /\ call.op = "begin" => file'.streamStatus # "OutsideOfStep"
  <2>1. CASE t.op = "ADVANCE"
    <3>1. phase = "last" /\ t.mode = ModeOf(call.op) /\ Advancing
      BY <1>0, <1>2, <2>1 DEF AdvanceInv, Advancing
    <3>2. file.m_buffer = NoChunks /\ call.op \in {"begin", "end"}
      BY <1>0, <3>1 DEF AdvanceInv
    <3>3. t.mode = "ENDSTEP" => file.streamStatus # "OutsideOfStep"
      BY <1>0, <3>1, <3>2 DEF StepInv, Advanced, ModeOf
    <3>4. file' = advance(file, t.mode)
      BY <1>0, <2>1 DEF effect
    <3>5. /\ Good(file') /\ SameEngine(file, file')
          /\ t.mode = "BEGINSTEP" => file'.streamStatus # "OutsideOfStep"
      BY <1>1, <1>3, <3>2, <3>3, <3>4, AdvanceGood
    <3> QED
      BY <2>1, <3>1, <3>5 DEF ModeOf
  <2>2. CASE t.op # "ADVANCE"
    <3>1. file' \in {writeDataset(file, t.of, t.v), writeAttribute(file, t.of, t.v),
                     closePath(file, t.of), file}
      BY <1>0, <2>2 DEF effect
    <3>2. CASE file' = file
      BY <1>1, <2>2, <3>2 DEF SameEngine
    <3>3. CASE file' \in {writeDataset(file, t.of, t.v), writeAttribute(file, t.of, t.v),
                          closePath(file, t.of)}
      BY <1>1, <1>3, <2>2, <3>3, HandlersGood
    <3> QED
      BY <3>1, <3>2, <3>3
  <2> QED
    BY <2>1, <2>2
<1>6. FileInv'
  BY <1>0, <1>1, <1>5 DEF FileInv, Good, SameEngine, Agrees, control
<1>7. AdvanceInv'
  BY <1>0, <1>4 DEF AdvanceInv, Advancing, control
<1>8. StepInv'
  <2>1. CASE t.op = "ADVANCE"
    BY <1>0, <1>4, <1>5, <2>1 DEF StepInv, Advanced, control, AdvanceInv
  <2>2. CASE t.op # "ADVANCE"
    <3>1. ~Advancing
      BY <1>0, <1>2, <2>2 DEF Advancing, AdvanceInv
    <3> QED
      BY <1>0, <1>4, <1>5, <2>2, <3>1 DEF StepInv, Advanced, control
  <2> QED
    BY <2>1, <2>2
<1>9. FrontendTypeOK'
  <2>1. seriesWritten' \in BOOLEAN /\ written' \in [Iter -> BOOLEAN]
    BY <1>0 DEF Execute, FrontendTypeOK
  <2> QED
    BY <1>0, <1>2, <2>1 DEF FrontendTypeOK, objects, user, control
<1> QED
  BY <1>6, <1>7, <1>8, <1>9 DEF Inv

-----------------------------------------------------------------------------
(* Theorems.                                                               *)

\* The invariant holds at first.
LEMMA InvInit == Init => Inv
<1> SUFFICES ASSUME Init PROVE Inv
  OBVIOUS
<1>1. /\ Good(file) /\ ~file.finalized /\ file.layout = engine.layout
      /\ file.streaming = engine.stream /\ engine \in Configs
  BY NewFile, ConfigsAssumption DEF Init
<1>2. FileInv
  BY <1>1 DEF FileInv, Good
<1>3. FrontendTypeOK
  <2>1. /\ 0 \in Version /\ 1 \in Version /\ NoCall \in Call /\ NoCall.op = "none"
        /\ 0 \in 0 .. MaxChanges
    BY VersionAssumption, ChangesAssumption DEF Version, NoCall, Call, CloseStatus
  <2>2. mem \in [Iter -> Content]
    BY <2>1 DEF Init, Content
  <2>3. /\ m_work \in Seq(IOTask)
        /\ finished \in Seq([it : Iter, attr : Version, data : Version])
    BY DEF Init
  <2>4. /\ written \in [Iter -> BOOLEAN] /\ m_closed \in [Iter -> CloseStatus]
        /\ dirty \in [Iter -> BOOLEAN] /\ pending \in [Iter -> BOOLEAN]
    BY DEF Init, CloseStatus
  <2>5. /\ iterations \subseteq Iter /\ todo \subseteq Iter
        /\ currentlyOpen \in Iter \cup {None}
        /\ seriesWritten \in BOOLEAN /\ seriesDirty \in BOOLEAN
        /\ seriesAttr \in Version /\ changes \in 0 .. MaxChanges
    BY <2>1 DEF Init
  <2>6. /\ call \in Call /\ call.op \notin {"begin", "end", "close"}
        /\ m_stepStatus = "NoStep" /\ phase = "idle" /\ result \in Result
    BY <2>1 DEF Init, Result
  <2> QED
    BY <2>2, <2>3, <2>4, <2>5, <2>6 DEF FrontendTypeOK
<1>4. AdvanceInv /\ StepInv
  BY DEF Init, AdvanceInv, StepInv, Advancing, Advanced, NoCall
<1> QED
  BY <1>2, <1>3, <1>4 DEF Inv

\* Every step of the writer keeps it.
LEMMA InvNext == Inv /\ [WriterNext]_writerVars => Inv'
<1> SUFFICES ASSUME Inv, [WriterNext]_writerVars PROVE Inv'
  OBVIOUS
<1>1. CASE Modify
  BY <1>1, ModifyKeeps
<1>2. CASE Flush \/ Destroy
  BY <1>2, FlushKeeps
<1>3. ASSUME NEW i \in Iter, SwitchTo(i) PROVE Inv'
  BY <1>3, SwitchToKeeps
<1>4. ASSUME NEW i \in Iter, NEW now \in BOOLEAN, Close(i, now) PROVE Inv'
  <2>1. /\ phase = "idle" /\ closeIteration(i, now, None)
        /\ UNCHANGED <<iterations, currentlyOpen>>
    BY <1>4 DEF Close, Idle
  <2> QED
    BY <2>1, CloseIterationKeeps
<1>5. ASSUME NEW i \in Iter, Reject(i) \/ SkipClosed(i) \/ WriteIteration(i) PROVE Inv'
  BY <1>5, RejectKeeps, SkipClosedKeeps, WriteIterationKeeps
<1>6. CASE LoopDone
  BY <1>6, LoopDoneKeeps
<1>7. CASE Execute
  BY <1>7, ExecuteKeeps
<1>8. CASE Settle
  BY <1>8, SettleKeeps
<1>9. CASE Advance
  BY <1>9, AdvanceKeeps
<1>10. CASE Return
  BY <1>10, ReturnKeeps
<1>11. CASE ReturnToLoop
  BY <1>11, ReturnToLoopKeeps
<1>12. CASE UNCHANGED writerVars
  BY <1>12 DEF writerVars, backendVars, objects, user, control, Inv, FileInv, Agrees,
               FrontendTypeOK, AdvanceInv, StepInv, Advancing, Advanced
<1> QED
  BY <1>1, <1>2, <1>3, <1>4, <1>5, <1>6, <1>7, <1>8, <1>9, <1>10, <1>11, <1>12
  DEF WriterNext, CallAPI, Internal

\* The invariant implies what is promised about a file that is being written.
LEMMA InvImplies == Inv => TypeOK /\ StepProtocol
<1> SUFFICES ASSUME Inv PROVE TypeOK /\ StepProtocol
  OBVIOUS
<1>1. FileTypeOK
  BY DEF Inv, FileInv, File, FileTypeOK, WriterStatus, StreamStatus
<1>2. StepProtocol
  BY DEF Inv, FileInv, Agrees, StepProtocol
<1> QED
  BY <1>1, <1>2 DEF TypeOK, Inv, FileInv

\* Every variable of the writer keeps its type, for all iterations, bounds and
\* engine configurations, and whatever the user does.
THEOREM WriterTypes == Spec => []TypeOK
<1>1. Spec => []Inv
  BY InvInit, InvNext, PTL DEF Spec
<1> QED
  BY <1>1, InvImplies, PTL

\* For all of them, the engine is never asked to begin a step in a step, to end
\* one or put outside of one, and the stream status is right.
THEOREM StepsAreBeginAndEnd == Spec => []StepProtocol
<1>1. Spec => []Inv
  BY InvInit, InvNext, PTL DEF Spec
<1> QED
  BY <1>1, InvImplies, PTL

-----------------------------------------------------------------------------
(* The user's memory.                                                      *)

\* Puts are buffered only while the queue runs: what empties it is followed by
\* a flush of the file, whatever the call does afterwards.
BufferInv == phase \in {"drain", "last", "destroyed"} \/ file.m_buffer = NoChunks

\* Leaving a call does not touch the file unless the Series is destroyed.
LEMMA LeaveBuffers ==
  ASSUME BufferInv, phase \in {"flush", "return"}, NEW r, leave(r)
  PROVE  BufferInv'
<1>1. CASE call.op = "destroy"
  BY <1>1 DEF leave, BufferInv
<1>2. CASE call.op # "destroy"
  <2>1. UNCHANGED file
    BY <1>2 DEF leave
  <2> QED
    BY <2>1 DEF BufferInv, NoChunks
<1> QED
  BY <1>1, <1>2

\* Nothing of the user changes the file, or is called while the queue runs.
LEMMA IdleBuffers ==
  ASSUME BufferInv, Modify \/ CallAPI
  PROVE  BufferInv'
<1>1. phase = "idle"
  BY DEF Modify, CallAPI, SetAttribute, StoreChunk, Insert, SetSeriesAttribute, change,
         Flush, Destroy, SwitchTo, Close, Idle
<1>2. CASE Modify
  BY <1>1, <1>2 DEF Modify, SetAttribute, StoreChunk, Insert, SetSeriesAttribute,
                    backendVars, BufferInv, NoChunks
<1>3. CASE CallAPI
  <2>1. CASE Flush \/ Destroy
    BY <1>1, <2>1 DEF Flush, Destroy, backendVars, BufferInv, NoChunks
  <2>2. ASSUME NEW i \in Iter, NEW now \in BOOLEAN, Close(i, now) PROVE BufferInv'
    BY <1>1, <2>2 DEF Close, closeIteration, backendVars, BufferInv, NoChunks
  <2>3. ASSUME NEW i \in Iter, SwitchTo(i) PROVE BufferInv'
    BY <1>1, <2>3 DEF SwitchTo, closeIteration, backendVars, BufferInv, NoChunks
  <2> QED
    BY <1>3, <2>1, <2>2, <2>3 DEF CallAPI
<1> QED
  BY <1>2, <1>3

\* Every step keeps the buffer empty outside of the queue.
LEMMA BuffersNext ==
  ASSUME Inv, BufferInv, [WriterNext]_writerVars
  PROVE  BufferInv'
<1>1. CASE Modify \/ CallAPI
  BY <1>1, IdleBuffers
<1>2. ASSUME NEW i \in Iter, Reject(i) PROVE BufferInv'
  BY <1>2, LeaveBuffers DEF Reject, Reached
<1>3. ASSUME NEW i \in Iter, SkipClosed(i) \/ WriteIteration(i) PROVE BufferInv'
  BY <1>3 DEF SkipClosed, WriteIteration, Reached, backendVars, BufferInv, NoChunks
<1>4. CASE LoopDone
  BY <1>4 DEF LoopDone, BufferInv
<1>5. CASE Execute
  BY <1>5 DEF Execute, Draining, control, BufferInv
<1>6. CASE Settle
  <2>1. Good(file)
    BY <1>6 DEF Inv, FileInv, Good, Settle, Draining
  <2>2. file' = flush(file, "putget", FALSE, FALSE)
    BY <1>6 DEF Settle, flushed
  <2>3. file'.m_buffer = NoChunks
    BY <2>1, <2>2, FlushPutGet
  <2> QED
    BY <2>3 DEF BufferInv, NoChunks
<1>7. CASE Advance
  BY <1>7 DEF Advance, BufferInv
<1>8. CASE Return
  BY <1>8, LeaveBuffers DEF Return
<1>9. CASE ReturnToLoop
  BY <1>9 DEF ReturnToLoop, backendVars, BufferInv, NoChunks
<1>10. CASE UNCHANGED writerVars
  BY <1>10 DEF writerVars, backendVars, control, BufferInv, NoChunks
<1> QED
  BY <1>1, <1>2, <1>3, <1>4, <1>5, <1>6, <1>7, <1>8, <1>9, <1>10
  DEF WriterNext, Internal

\* When a call has returned, nothing that is buffered refers to the user's
\* memory, whatever the engine, and however steps were begun.
THEOREM BuffersAreReleased == Spec => []BuffersReleased
<1>1. Init => Inv /\ BufferInv
  BY InvInit DEF Init, newFile, BufferInv
<1>2. Inv /\ BufferInv /\ [WriterNext]_writerVars => (Inv /\ BufferInv)'
  BY InvNext, BuffersNext
<1>3. BufferInv => BuffersReleased
  BY DEF BufferInv, BuffersReleased, Idle
<1> QED
  BY <1>1, <1>2, <1>3, PTL DEF Spec
=============================================================================
