------------------------- MODULE SeriesIterator_proofs -------------------------
(***************************************************************************)
(* Proofs about a Series that is written iteration by iteration, in order, *)
(* and read in a loop over readIterations: nothing that the user wrote is  *)
(* forgotten, each iteration is published as one step, and the reader,     *)
(* while it is written or when it is complete, receives each iteration as  *)
(* it was closed.                                                          *)
(*                                                                         *)
(* The first part says what the methods of BufferedActions do to the       *)
(* contents of a file, the second what the queue still holds, the third    *)
(* follows a value from the user to a step, and the fourth says what all   *)
(* steps tell once the file is complete.  The fifth is about the engine of *)
(* a reader, and the sixth about its loop.                                 *)
(***************************************************************************)
EXTENDS SeriesIterator, SeriesGroupBased_proofs

-----------------------------------------------------------------------------
(* The contents of a file.                                                 *)

\* What was written before the step in progress, and what belongs to no step.
SameContents(b, c) ==
  /\ c.attributes = b.attributes /\ c.uncommitted = b.uncommitted
  /\ c.steps = b.steps
  /\ c.streamStatus = "NoStream" <=> b.streamStatus = "NoStream"

\* Nothing is merged from empty contents.
LEMMA MergeNothing ==
  /\ \A f \in [Owner -> Version] : Merge(f, NoAttributes) = f
  /\ \A f \in [Iter -> Version] : Merge(f, NoChunks) = f
BY DEF Merge, NoAttributes, NoChunks

\* Opening the engine changes no contents.
LEMMA OpenContents ==
  ASSUME NEW b, Good(b)
  PROVE  SameContents(b, getEngine(b)) /\ getEngine(b).step = b.step
BY DEF Good, File, getEngine, SameContents

\* Neither does beginning a step.
LEMMA StepOnContents ==
  ASSUME NEW b, Good(b), b.opened
  PROVE  SameContents(b, stepOn(b)) /\ stepOn(b).step = b.step
<1>1. CASE b.streamStatus # "OutsideOfStep"
  BY <1>1 DEF stepOn, SameContents
<1>2. CASE b.streamStatus = "OutsideOfStep"
  <2>1. b \in File /\ ~b.inStep /\ b.fault = "none"
    BY <1>2 DEF Good, Agrees
  <2>2. BeginStep(b) = [b EXCEPT !.inStep = TRUE]
    BY <2>1, BeginStepOutside
  <2>3. stepOn(b) = [b EXCEPT !.inStep = TRUE, !.m_lastStepStatus = "OK",
                              !.streamStatus = "DuringStep"]
    BY <1>2, <2>1, <2>2 DEF stepOn, stepOpened, faulty, File
  <2> QED
    BY <1>2, <2>1, <2>3 DEF File, SameContents
<1> QED
  BY <1>1, <1>2

\* A put merges into the step.
LEMMA PutContents ==
  ASSUME NEW b, Good(b), b.opened, b.streamStatus # "OutsideOfStep",
         NEW chunks \in [Iter -> Version], NEW attributes \in [Owner -> Version]
  PROVE  /\ SameContents(b, put(b, chunks, attributes))
         /\ put(b, chunks, attributes).step =
              [attr |-> Merge(b.step.attr, attributes), data |-> Merge(b.step.data, chunks)]
<1>1. b \in File /\ ~(b.declaresSteps /\ ~b.inStep)
  BY DEF Good, Agrees, File, WriterStatus
<1> DEFINE s == [attr |-> Merge(b.step.attr, attributes), data |-> Merge(b.step.data, chunks)]
<1>2. put(b, chunks, attributes) = [b EXCEPT !.step = s]
  BY <1>1 DEF put, File
<1> HIDE DEF s
<1>3. SameContents(b, put(b, chunks, attributes)) /\ put(b, chunks, attributes).step = s
  BY <1>1, <1>2 DEF File, SameContents
<1> QED
  BY <1>3 DEF s

\* What the buffered actions merge, whether or not there are any.
LEMMA RunContents ==
  ASSUME NEW b, Good(b), b.opened, b.streamStatus # "OutsideOfStep",
         NEW w \in BOOLEAN
  PROVE  /\ SameContents(b, run(b, w))
         /\ run(b, w).step =
              [attr |-> IF w THEN Merge(b.step.attr, b.m_attributeWrites) ELSE b.step.attr,
               data |-> Merge(b.step.data, b.m_buffer)]
<1>1. /\ b.m_buffer \in [Iter -> Version] /\ b.m_attributeWrites \in [Owner -> Version]
      /\ b.mode = "Write" /\ ~faulty(b)
      /\ b.step.attr \in [Owner -> Version] /\ b.step.data \in [Iter -> Version]
      /\ b.step = [attr |-> b.step.attr, data |-> b.step.data]
  BY DEF Good, File, faulty, Step
<1> DEFINE a == IF w THEN b.m_attributeWrites ELSE NoAttributes
<1>2. a \in [Owner -> Version]
  BY <1>1, EmptyTypes
<1>3. Merge(b.step.attr, a) = IF w THEN Merge(b.step.attr, b.m_attributeWrites) ELSE b.step.attr
  BY <1>1, MergeNothing
<1>4. CASE b.m_buffer = NoChunks /\ ~writesAttributes(b, w)
  <2>1. run(b, w) = b /\ a = NoAttributes
    BY <1>1, <1>4 DEF run, writesAttributes
  <2>2. Merge(b.step.attr, a) = b.step.attr /\ Merge(b.step.data, b.m_buffer) = b.step.data
    BY <1>1, <1>4, <2>1, MergeNothing
  <2> QED
    BY <1>1, <1>3, <2>1, <2>2 DEF SameContents
<1>5. CASE ~(b.m_buffer = NoChunks /\ ~writesAttributes(b, w))
  <2>1. run(b, w) = put(b, b.m_buffer, a)
    BY <1>1, <1>5 DEF run
  <2> HIDE DEF a
  <2> QED
    BY <1>1, <1>2, <1>3, <2>1, PutContents
<1> QED
  BY <1>4, <1>5

\* A flush of the handler merges the buffered puts into the step.
LEMMA Gathered ==
  ASSUME NEW b, Good(b)
  PROVE  LET c == flush(b, "putget", FALSE, FALSE)
         IN /\ SameContents(b, c)
            /\ c.m_buffer = NoChunks /\ c.m_attributeWrites = b.m_attributeWrites
            /\ c.step = [attr |-> b.step.attr, data |-> Merge(b.step.data, b.m_buffer)]
<1> DEFINE g == getEngine(b)
           r == run(stepOn(g), FALSE)
<1>1. /\ Good(g) /\ g.opened /\ SameBuffers(b, g) /\ SameContents(b, g) /\ g.step = b.step
  BY GetEngine, OpenContents
<1>2. flush(b, "putget", FALSE, FALSE) = flushEngine(g, "putget", FALSE, FALSE)
  BY DEF flush, Good, File, WriterStatus, faulty
<1>3. g.fault = "none" /\ g \in File
  BY <1>1 DEF Good
<1> HIDE DEF g
<1>4. CASE nothingToDo(g, FALSE)
  <2>1. flush(b, "putget", FALSE, FALSE) = g
    BY <1>2, <1>3, <1>4 DEF flushEngine, faulty
  <2>2. g.m_buffer = NoChunks /\ g.step = [attr |-> g.step.attr, data |-> g.step.data]
        /\ g.step.data \in [Iter -> Version]
    BY <1>3, <1>4 DEF nothingToDo, File, Step
  <2>3. Merge(g.step.data, g.m_buffer) = g.step.data
    BY <2>2, MergeNothing
  <2> QED
    BY <1>1, <2>1, <2>2, <2>3 DEF SameBuffers
<1>5. CASE ~nothingToDo(g, FALSE)
  <2> DEFINE o == stepOn(g)
  <2>1. /\ Good(o) /\ o.opened /\ o.streamStatus # "OutsideOfStep"
        /\ SameBuffers(g, o) /\ SameContents(g, o) /\ o.step = g.step
    BY <1>1, StepOn, StepOnContents
  <2> HIDE DEF o
  <2>2. /\ Good(r) /\ SameBuffers(o, r) /\ SameContents(o, r)
        /\ r.step = [attr |-> o.step.attr, data |-> Merge(o.step.data, o.m_buffer)]
    BY <2>1, Run, RunContents DEF o
  <2> HIDE DEF r
  <2>3. r \in File /\ r.fault = "none"
    BY <2>2 DEF Good
  <2>4. flush(b, "putget", FALSE, FALSE) = cleared(r, FALSE)
    BY <1>2, <1>5, <2>3 DEF flushEngine, perform, r
  <2>5. cleared(r, FALSE) = [r EXCEPT !.m_buffer = NoChunks]
    BY <2>3 DEF cleared, faulty, File
  <2>6. /\ SameContents(r, cleared(r, FALSE)) /\ cleared(r, FALSE).m_buffer = NoChunks
        /\ cleared(r, FALSE).m_attributeWrites = r.m_attributeWrites
        /\ cleared(r, FALSE).step = r.step
    BY <2>3, <2>5 DEF File, SameContents
  <2> QED
    BY <1>1, <2>1, <2>2, <2>4, <2>6 DEF SameContents, SameBuffers
<1> QED
  BY <1>4, <1>5

\* Beginning a step, or adopting one that is open, changes no contents.
LEMMA Begun ==
  ASSUME NEW b, Good(b), b.m_buffer = NoChunks
  PROVE  LET c == advance(b, "BEGINSTEP")
         IN SameContents(b, c) /\ SameBuffers(b, c) /\ c.step = b.step
<1>1. b \in File /\ b.fault = "none" /\ b.advanceStatus = "OK" /\ b.streamStatus \in WriterStatus
  BY DEF Good, File
<1>2. [b EXCEPT !.advanceStatus = "OK"] = b
  BY <1>1 DEF File
<1>3. advance(b, "BEGINSTEP") = advanceEngine(b, "BEGINSTEP")
  BY <1>1, <1>2 DEF advance, WriterStatus
<1>4. CASE b.streamStatus = "NoStream"
  <2>1. advance(b, "BEGINSTEP") = flush(b, "putget", FALSE, FALSE)
    BY <1>1, <1>3, <1>4 DEF advanceEngine, faulty
  <2>2. Merge(b.step.data, b.m_buffer) = b.step.data
        /\ b.step = [attr |-> b.step.attr, data |-> b.step.data]
    BY <1>1, MergeNothing DEF File, Step
  <2> QED
    BY <2>1, <2>2, Gathered DEF SameBuffers
<1>5. CASE b.streamStatus = "DuringStep"
  <2>1. advance(b, "BEGINSTEP") = beginStep(b)
    BY <1>1, <1>3, <1>5 DEF advanceEngine, faulty
  <2>2. beginStep(b) = [b EXCEPT !.status = "OK", !.streamStatus = "DuringStep"]
    BY <1>1, <1>5 DEF beginStep, begun, faulty, File
  <2> QED
    <3> DEFINE h == [b EXCEPT !.status = "OK"]
               k == [h EXCEPT !.streamStatus = "DuringStep"]
    <3>1. h \in File /\ h.streamStatus = "DuringStep" /\ SameBuffers(b, h)
          /\ SameContents(b, h) /\ h.step = b.step
      BY <1>1, <1>5 DEF File, SameBuffers, SameContents
    <3> HIDE DEF h
    <3>2. SameBuffers(h, k) /\ SameContents(h, k) /\ k.step = h.step
      BY <3>1 DEF File, SameBuffers, SameContents
    <3>3. advance(b, "BEGINSTEP") = k
      BY <2>1, <2>2 DEF h
    <3> HIDE DEF k
    <3> QED
      BY <3>1, <3>2, <3>3 DEF SameBuffers, SameContents
<1>6. CASE b.streamStatus = "OutsideOfStep"
  <2>1. advance(b, "BEGINSTEP") = beginStep(b)
    BY <1>1, <1>3, <1>6 DEF advanceEngine, faulty
  <2> DEFINE g == getEngine(b)
  <2>2. /\ Good(g) /\ g.opened /\ g.streamStatus = "OutsideOfStep"
        /\ SameBuffers(b, g) /\ SameContents(b, g) /\ g.step = b.step
    BY <1>6, GetEngine, OpenContents
  <2>3. flush(b, "begin", FALSE, TRUE) = flushEngine(g, "begin", FALSE, TRUE)
    BY <1>1, <1>6 DEF flush, faulty
  <2> HIDE DEF g
  <2>4. g \in File /\ ~g.inStep /\ g.fault = "none" /\ g.m_buffer = NoChunks
    BY <2>2 DEF Good, Agrees, SameBuffers
  <2>5. nothingToDo(g, FALSE)
    BY <2>2, <2>4 DEF nothingToDo, writesAttributes
  <2>6. flush(b, "begin", FALSE, TRUE) = BeginStep(g)
    BY <2>3, <2>4, <2>5 DEF flushEngine, perform, faulty
  <2>7. BeginStep(g) = [g EXCEPT !.inStep = TRUE]
    BY <2>4, BeginStepOutside
  <2> DEFINE h == [g EXCEPT !.inStep = TRUE]
             k == [h EXCEPT !.streamStatus = "DuringStep"]
  <2>8. h \in File /\ h.fault = "none" /\ h.status = "OK"
    BY <2>4 DEF File
  <2>9. beginStep(b) = begun(h)
    BY <1>6, <2>6, <2>7 DEF beginStep
  <2>10. SameBuffers(g, k) /\ SameContents(g, k) /\ k.step = g.step
    BY <2>2, <2>4 DEF File, SameBuffers, SameContents
  <2> HIDE DEF h
  <2>11. beginStep(b) = k
    BY <2>8, <2>9 DEF begun, faulty
  <2> HIDE DEF k
  <2> QED
    BY <2>1, <2>2, <2>10, <2>11 DEF SameBuffers, SameContents
<1> QED
  BY <1>1, <1>4, <1>5, <1>6 DEF WriterStatus

\* What a step is published with.
Published(b) ==
  [attr |-> IF b.layout = "ByAdiosAttributes" THEN b.attributes
            ELSE Merge(b.step.attr, b.m_attributeWrites),
   data |-> b.step.data]

\* Ending a step publishes its contents; the attributes written next belong to
\* the next one.
LEMMA Ended ==
  ASSUME NEW b, Good(b), b.m_buffer = NoChunks, b.streamStatus = "DuringStep"
  PROVE  LET c == advance(b, "ENDSTEP")
         IN /\ c.attributes = b.attributes /\ c.uncommitted = {}
            /\ c.streamStatus # "NoStream"
            /\ c.m_buffer = NoChunks /\ c.m_attributeWrites = NoAttributes
            /\ c.step = EmptyStep
            /\ c.steps = Append(b.steps, Published(b))
<1>1. b \in File /\ b.fault = "none" /\ b.advanceStatus = "OK"
  BY DEF Good, File
<1>2. [b EXCEPT !.advanceStatus = "OK"] = b
  BY <1>1 DEF File
<1>3. advance(b, "ENDSTEP") = endStep(b)
  BY <1>1, <1>2 DEF advance, advanceEngine, faulty
<1> DEFINE g == getEngine(b)
           r == run(g, TRUE)
           x == EndStep(r)
<1>4. /\ Good(g) /\ g.opened /\ g.streamStatus = "DuringStep" /\ SameEngine(b, g)
      /\ SameBuffers(b, g) /\ SameContents(b, g) /\ g.step = b.step
  BY GetEngine, OpenContents
<1> HIDE DEF g
<1>5. /\ Good(r) /\ r.streamStatus = "DuringStep" /\ SameEngine(g, r)
      /\ SameContents(g, r)
      /\ r.step = [attr |-> Merge(g.step.attr, g.m_attributeWrites),
                   data |-> Merge(g.step.data, g.m_buffer)]
  BY <1>4, Run, RunContents
<1> HIDE DEF r
<1>6. r \in File /\ r.inStep /\ r.fault = "none"
  BY <1>5 DEF Good, Agrees
<1>7. /\ x \in File
      /\ x = [r EXCEPT !.inStep = FALSE, !.step = EmptyStep,
                       !.steps = Append(r.steps, contents(r))]
  BY <1>6, EndStepInside
<1>8. /\ x.fault = "none" /\ x.attributes = r.attributes /\ x.step = EmptyStep
      /\ x.steps = Append(r.steps, contents(r))
  BY <1>6, <1>7 DEF File
<1> HIDE DEF x
<1>9. g.fault = "none" /\ stepOn(g) = g /\ ~nothingToDo(g, TRUE)
  BY <1>4 DEF Good, stepOn, nothingToDo
<1>10. flush(b, "end", TRUE, TRUE) = cleared(x, TRUE)
  <2>1. flush(b, "end", TRUE, TRUE) = flushEngine(g, "end", TRUE, TRUE)
    BY DEF flush, Good, faulty, g
  <2>2. flushEngine(g, "end", TRUE, TRUE) = cleared(perform(r, "end"), TRUE)
    BY <1>9 DEF flushEngine, r
  <2>3. perform(r, "end") = x
    BY <1>6 DEF perform, faulty, x
  <2> QED
    BY <2>1, <2>2, <2>3
<1>11. cleared(x, TRUE) = [x EXCEPT !.m_buffer = NoChunks, !.m_attributeWrites = NoAttributes]
  BY <1>7, <1>8 DEF cleared, faulty
<1> DEFINE c == [x EXCEPT !.m_buffer = NoChunks, !.m_attributeWrites = NoAttributes]
<1>12. /\ c \in File /\ c.fault = "none" /\ c.m_buffer = NoChunks
       /\ c.m_attributeWrites = NoAttributes /\ c.attributes = x.attributes
       /\ c.step = x.step /\ c.steps = x.steps
  <2>0. x \in File /\ x.fault = "none"
    BY <1>7, <1>8
  <2> DEFINE d == [x EXCEPT !.m_buffer = NoChunks]
  <2>1. /\ d \in File /\ d.fault = "none" /\ d.m_buffer = NoChunks
        /\ d.attributes = x.attributes /\ d.step = x.step /\ d.steps = x.steps
    BY <2>0, EmptyTypes DEF File
  <2>2. c = [d EXCEPT !.m_attributeWrites = NoAttributes]
    BY <2>0 DEF File
  <2> HIDE DEF d
  <2> QED
    BY <2>1, <2>2, EmptyTypes DEF File
<1> HIDE DEF c
<1>13. endStep(b) = [c EXCEPT !.uncommitted = {}, !.streamStatus = "OutsideOfStep"]
  BY <1>10, <1>11, <1>12 DEF endStep, ended, faulty, c
<1>14. contents(r) = Published(b)
  <2>1. Merge(g.step.data, g.m_buffer) = b.step.data
    BY <1>1, <1>4, MergeNothing DEF File, Step, SameBuffers
  <2>2. r.step = [attr |-> Merge(b.step.attr, b.m_attributeWrites), data |-> b.step.data]
    BY <1>4, <1>5, <2>1 DEF SameBuffers
  <2>3. r.layout = b.layout /\ r.attributes = b.attributes
    BY <1>4, <1>5 DEF SameEngine, SameContents
  <2> QED
    BY <2>2, <2>3 DEF contents, Published
<1>15. /\ endStep(b).attributes = c.attributes /\ endStep(b).uncommitted = {}
       /\ endStep(b).streamStatus = "OutsideOfStep" /\ endStep(b).m_buffer = c.m_buffer
       /\ endStep(b).m_attributeWrites = c.m_attributeWrites
       /\ endStep(b).step = c.step /\ endStep(b).steps = c.steps
  BY <1>12, <1>13 DEF File
<1>16. r.attributes = b.attributes /\ r.steps = b.steps
  BY <1>4, <1>5 DEF SameContents
<1> QED
  BY <1>3, <1>8, <1>12, <1>14, <1>15, <1>16

\* What the end of a file may do to its contents: steps are added to those that
\* were published, and the data of the step in progress stay or come with them.
Completed(b, c) ==
  /\ c.m_buffer = b.m_buffer /\ c.m_attributeWrites = b.m_attributeWrites
  /\ c.attributes = b.attributes
  /\ \A k \in DOMAIN b.steps : k \in DOMAIN c.steps /\ c.steps[k] = b.steps[k]
  /\ \/ c.step.data = b.step.data
     \/ c.step.data = NoChunks /\ \E k \in DOMAIN c.steps : c.steps[k].data = b.step.data

\* One such change may follow another.
LEMMA CompletedTwice ==
  ASSUME NEW b, NEW c, NEW d, Completed(b, c), Completed(c, d)
  PROVE  Completed(b, d)
<1>1. /\ d.m_buffer = b.m_buffer /\ d.m_attributeWrites = b.m_attributeWrites
      /\ d.attributes = b.attributes
      /\ \A k \in DOMAIN b.steps : k \in DOMAIN d.steps /\ d.steps[k] = b.steps[k]
  BY DEF Completed
<1>2. \/ d.step.data = b.step.data
      \/ d.step.data = NoChunks /\ \E k \in DOMAIN d.steps : d.steps[k].data = b.step.data
  <2>1. CASE c.step.data = b.step.data
    BY <2>1 DEF Completed
  <2>2. CASE c.step.data = NoChunks /\ \E k \in DOMAIN c.steps : c.steps[k].data = b.step.data
    <3>1. d.step.data = NoChunks
      BY <2>2 DEF Completed
    <3>2. PICK k \in DOMAIN c.steps : c.steps[k].data = b.step.data
      BY <2>2
    <3>3. k \in DOMAIN d.steps /\ d.steps[k] = c.steps[k]
      BY <3>2 DEF Completed
    <3> QED
      BY <3>1, <3>2, <3>3
  <2> QED
    BY <2>1, <2>2 DEF Completed
<1> QED
  BY <1>1, <1>2 DEF Completed

\* Publishing what the step holds is such a change.
LEMMA AppendedStep ==
  ASSUME NEW b \in File, NEW c, c.step = EmptyStep,
         c.steps = Append(b.steps, contents(b)),
         c.m_buffer = b.m_buffer, c.m_attributeWrites = b.m_attributeWrites,
         c.attributes = b.attributes
  PROVE  Completed(b, c)
<1>1. contents(b) \in Step /\ contents(b).data = b.step.data /\ b.steps \in Seq(Step)
  BY ContentsType DEF contents, File, Step
<1>2. /\ \A k \in DOMAIN b.steps : k \in DOMAIN c.steps /\ c.steps[k] = b.steps[k]
      /\ Len(b.steps) + 1 \in DOMAIN c.steps /\ c.steps[Len(b.steps) + 1] = contents(b)
  BY <1>1
<1>3. c.step.data = NoChunks
  BY DEF EmptyStep
<1> QED
  BY <1>1, <1>2, <1>3 DEF Completed

\* Closing the engine's step and the engine.
LEMMA ClosedContents ==
  ASSUME NEW b, Good(b), ~b.finalized
  PROVE  Completed(b, engineClosed(stepClosed(b)))
<1> DEFINE s == stepClosed(b)
<1>0. b \in File /\ b.fault = "none"
  BY DEF Good
<1>1. s \in File /\ Completed(b, s)
  <2>1. CASE b.opened /\ b.streamStatus = "DuringStep"
    <3>1. b.inStep
      BY <2>1 DEF Good, Agrees
    <3>2. s = EndStep(b)
      BY <1>0, <2>1 DEF stepClosed, faulty
    <3>3. /\ EndStep(b) \in File
          /\ EndStep(b) = [b EXCEPT !.inStep = FALSE, !.step = EmptyStep,
                                    !.steps = Append(b.steps, contents(b))]
      BY <1>0, <3>1, EndStepInside
    <3>4. /\ EndStep(b).step = EmptyStep /\ EndStep(b).steps = Append(b.steps, contents(b))
          /\ EndStep(b).m_buffer = b.m_buffer
          /\ EndStep(b).m_attributeWrites = b.m_attributeWrites
          /\ EndStep(b).attributes = b.attributes
      BY <1>0, <3>3 DEF File
    <3> QED
      BY <1>0, <3>2, <3>3, <3>4, AppendedStep
  <2>2. CASE ~(b.opened /\ b.streamStatus = "DuringStep")
    <3>1. s = b
      BY <1>0, <2>2 DEF stepClosed
    <3> QED
      BY <1>0, <3>1 DEF Completed
  <2> QED
    BY <2>1, <2>2
<1> HIDE DEF s
<1> DEFINE t == IF s.opened THEN EngineClose(s) ELSE s
<1>2. t \in File /\ Completed(s, t)
  <2>1. CASE t = s
    BY <1>1, <2>1 DEF Completed
  <2>2. CASE t # s
    <3> DEFINE u == Append(s.steps, contents(s))
    <3>1. contents(s) \in Step /\ u \in Seq(Step)
      BY <1>1, ContentsType DEF File
    <3> HIDE DEF u
    <3>2. t = [s EXCEPT !.steps = u, !.step = EmptyStep]
      BY <1>1, <2>2 DEF EngineClose, File, u
    <3>3. /\ t \in File /\ t.steps = u /\ t.step = EmptyStep /\ t.m_buffer = s.m_buffer
          /\ t.m_attributeWrites = s.m_attributeWrites /\ t.attributes = s.attributes
      <4> DEFINE d == [s EXCEPT !.steps = u]
      <4>1. /\ d \in File /\ d.steps = u /\ d.m_buffer = s.m_buffer
            /\ d.m_attributeWrites = s.m_attributeWrites /\ d.attributes = s.attributes
        BY <1>1, <3>1 DEF File
      <4>2. t = [d EXCEPT !.step = EmptyStep]
        BY <1>1, <3>2 DEF File
      <4> HIDE DEF d, t
      <4> QED
        BY <4>1, <4>2, EmptyTypes DEF File
    <3> HIDE DEF t
    <3> QED
      BY <1>1, <3>3, AppendedStep DEF u
  <2> QED
    BY <2>1, <2>2
<1> HIDE DEF t
<1>3. engineClosed(s) = [t EXCEPT !.finalized = TRUE]
  BY DEF engineClosed, t
<1>4. Completed(t, engineClosed(s))
  BY <1>2, <1>3 DEF File, Completed
<1> QED
  BY <1>1, <1>2, <1>4, CompletedTwice DEF s

\* finalize publishes what is there, and loses nothing of it.
LEMMA Finalized ==
  ASSUME NEW b, Good(b), ~b.finalized
  PROVE  Completed(b, finalize(b))
<1> DEFINE g == getEngine(b)
           o == stepOn(g)
           u == put(o, NoChunks, b.m_attributeWrites)
<1>0. b \in File /\ b.mode = "Write" /\ b.m_attributeWrites \in [Owner -> Version]
  BY DEF Good, File
<1>1. /\ Good(g) /\ g.opened /\ SameEngine(b, g) /\ SameBuffers(b, g)
      /\ SameContents(b, g) /\ g.step = b.step
  BY GetEngine, OpenContents
<1> HIDE DEF g
<1>2. /\ Good(o) /\ o.opened /\ o.streamStatus # "OutsideOfStep" /\ SameEngine(g, o)
      /\ SameBuffers(g, o) /\ SameContents(g, o) /\ o.step = g.step
  BY <1>1, StepOn, StepOnContents
<1> HIDE DEF o
<1>3. /\ Good(u) /\ SameEngine(o, u) /\ SameBuffers(o, u) /\ SameContents(o, u)
      /\ u.step.data = Merge(o.step.data, NoChunks)
  <2>1. NoChunks \in [Iter -> Version]
    BY EmptyTypes
  <2>2. /\ Good(u) /\ SameEngine(o, u) /\ SameBuffers(o, u)
    BY <1>0, <1>2, <2>1, Put
  <2>3. /\ SameContents(o, u)
        /\ u.step = [attr |-> Merge(o.step.attr, b.m_attributeWrites),
                     data |-> Merge(o.step.data, NoChunks)]
    BY <1>0, <1>2, <2>1, PutContents
  <2> QED
    BY <2>2, <2>3
<1> HIDE DEF u
<1>4. u.step.data = b.step.data
  <2>1. o.step.data \in [Iter -> Version]
    BY <1>2 DEF Good, File, Step
  <2> QED
    BY <1>1, <1>2, <1>3, <2>1, MergeNothing
<1>5. Completed(b, g) /\ Completed(b, u)
  BY <1>1, <1>2, <1>3, <1>4 DEF SameBuffers, SameContents, Completed
<1>6. ~g.finalized /\ ~u.finalized
  BY <1>1, <1>2, <1>3 DEF SameEngine
<1>7. \/ finalize(b) = engineClosed(stepClosed(g))
      \/ finalize(b) = engineClosed(stepClosed(u))
  BY <1>0 DEF finalize, requireActiveStep, g, o, u
<1> QED
  BY <1>1, <1>3, <1>5, <1>6, <1>7, ClosedContents, CompletedTwice

-----------------------------------------------------------------------------
(* What the queue still holds.                                             *)

IsTask(t, op, i) == t.op = op /\ t.of = i

HasTask(s, op, i) == \E k \in DOMAIN s : IsTask(s[k], op, i)

\* The last task of its kind carries the version v.
LastIs(s, op, i, v) ==
  \E k \in DOMAIN s : /\ s[k] = VersionTask(op, i, v)
                      /\ \A l \in DOMAIN s : l > k => ~IsTask(s[l], op, i)

\* Where the tasks of two queues are when one follows the other.
LEMMA ConcatTasks ==
  ASSUME NEW s \in Seq(IOTask), NEW u \in Seq(IOTask)
  PROVE  /\ s \o u \in Seq(IOTask)
         /\ \A k \in DOMAIN s : k \in DOMAIN (s \o u) /\ (s \o u)[k] = s[k]
         /\ \A l \in DOMAIN u : Len(s) + l \in DOMAIN (s \o u) /\ (s \o u)[Len(s) + l] = u[l]
         /\ \A k \in DOMAIN (s \o u) :
              \/ k \in DOMAIN s /\ (s \o u)[k] = s[k]
              \/ k - Len(s) \in DOMAIN u /\ k > Len(s) /\ (s \o u)[k] = u[k - Len(s)]
OBVIOUS

\* Tasks of another kind do not matter.
LEMMA Unrelated ==
  ASSUME NEW s \in Seq(IOTask), NEW u \in Seq(IOTask), NEW op, NEW i, NEW v,
         ~HasTask(u, op, i)
  PROVE  /\ LastIs(s, op, i, v) => LastIs(s \o u, op, i, v)
         /\ ~HasTask(s, op, i) => ~HasTask(s \o u, op, i)
<1> DEFINE q == s \o u
<1>1. /\ \A k \in DOMAIN s : k \in DOMAIN q /\ q[k] = s[k]
      /\ \A k \in DOMAIN q : \/ k \in DOMAIN s /\ q[k] = s[k]
                             \/ k - Len(s) \in DOMAIN u /\ q[k] = u[k - Len(s)]
  BY ConcatTasks
<1> HIDE DEF q
<1>2. ASSUME LastIs(s, op, i, v)
      PROVE  LastIs(q, op, i, v)
  <2>1. PICK k \in DOMAIN s : /\ s[k] = VersionTask(op, i, v)
                              /\ \A l \in DOMAIN s : l > k => ~IsTask(s[l], op, i)
    BY <1>2 DEF LastIs
  <2>2. k \in DOMAIN q /\ q[k] = VersionTask(op, i, v)
    BY <1>1, <2>1
  <2>3. \A l \in DOMAIN q : l > k => ~IsTask(q[l], op, i)
    BY <1>1, <2>1 DEF HasTask
  <2> QED
    BY <2>2, <2>3 DEF LastIs
<1>3. ASSUME ~HasTask(s, op, i)
      PROVE  ~HasTask(q, op, i)
  BY <1>1, <1>3 DEF HasTask
<1> QED
  BY <1>2, <1>3 DEF q

\* The last task is the last one of what is enqueued last.
LEMMA Latest ==
  ASSUME NEW s \in Seq(IOTask), NEW u \in Seq(IOTask), NEW op, NEW i, NEW v,
         LastIs(u, op, i, v)
  PROVE  LastIs(s \o u, op, i, v)
<1> DEFINE q == s \o u
<1>1. /\ \A l \in DOMAIN u : Len(s) + l \in DOMAIN q /\ q[Len(s) + l] = u[l]
      /\ \A k \in DOMAIN q : \/ k \in DOMAIN s
                             \/ k - Len(s) \in DOMAIN u /\ q[k] = u[k - Len(s)]
      /\ DOMAIN q \subseteq Nat
  BY ConcatTasks
<1> HIDE DEF q
<1>2. PICK k \in DOMAIN u : /\ u[k] = VersionTask(op, i, v)
                            /\ \A l \in DOMAIN u : l > k => ~IsTask(u[l], op, i)
  BY DEF LastIs
<1>3. Len(s) + k \in DOMAIN q /\ q[Len(s) + k] = VersionTask(op, i, v)
  BY <1>1, <1>2
<1>4. ASSUME NEW l \in DOMAIN q, l > Len(s) + k
      PROVE  ~IsTask(q[l], op, i)
  <2>0. k \in Nat /\ Len(s) \in Nat /\ DOMAIN s = 1 .. Len(s) /\ k > 0 /\ l \in Nat
    BY <1>1, <1>2
  <2>1. l \notin DOMAIN s
    BY <1>4, <2>0
  <2>2. l - Len(s) \in DOMAIN u /\ q[l] = u[l - Len(s)]
    BY <1>1, <1>4, <2>1
  <2>3. l - Len(s) > k
    BY <1>4, <2>0, <2>2
  <2> QED
    BY <1>2, <2>2, <2>3
<1> QED
  BY <1>3, <1>4 DEF LastIs, q

\* The first task leaves the queue.
LEMMA OneLess ==
  ASSUME NEW s \in Seq(IOTask), s # <<>>, NEW op, NEW i, NEW v
  PROVE  /\ LastIs(s, op, i, v) =>
              \/ LastIs(Tail(s), op, i, v)
              \/ Head(s) = VersionTask(op, i, v) /\ ~HasTask(Tail(s), op, i)
         /\ ~HasTask(s, op, i) => ~HasTask(Tail(s), op, i) /\ ~IsTask(Head(s), op, i)
<1> DEFINE q == Tail(s)
<1>1. /\ \A k \in DOMAIN q : k + 1 \in DOMAIN s /\ q[k] = s[k + 1]
      /\ \A k \in DOMAIN s : k # 1 => k - 1 \in DOMAIN q
      /\ 1 \in DOMAIN s /\ Head(s) = s[1]
      /\ DOMAIN q \subseteq Nat \ {0} /\ DOMAIN s \subseteq Nat \ {0}
  OBVIOUS
<1> HIDE DEF q
<1>2. ASSUME LastIs(s, op, i, v)
      PROVE  \/ LastIs(q, op, i, v)
             \/ Head(s) = VersionTask(op, i, v) /\ ~HasTask(q, op, i)
  <2>1. PICK k \in DOMAIN s : /\ s[k] = VersionTask(op, i, v)
                              /\ \A l \in DOMAIN s : l > k => ~IsTask(s[l], op, i)
    BY <1>2 DEF LastIs
  <2>2. CASE k = 1
    <3>1. \A l \in DOMAIN q : ~IsTask(q[l], op, i)
      BY <1>1, <2>1, <2>2
    <3> QED
      BY <1>1, <2>1, <2>2, <3>1 DEF HasTask
  <2>3. CASE k # 1
    <3>1. k - 1 \in DOMAIN q /\ q[k - 1] = VersionTask(op, i, v)
      BY <1>1, <2>1, <2>3
    <3>2. \A l \in DOMAIN q : l > k - 1 => ~IsTask(q[l], op, i)
      BY <1>1, <2>1
    <3> QED
      BY <3>1, <3>2 DEF LastIs
  <2> QED
    BY <2>2, <2>3
<1>3. ASSUME ~HasTask(s, op, i)
      PROVE  ~HasTask(q, op, i) /\ ~IsTask(Head(s), op, i)
  BY <1>1, <1>3 DEF HasTask
<1> QED
  BY <1>2, <1>3 DEF q

\* A queue of a task if the condition c holds, and of none otherwise.
TaskIf(q, c, op, o, v) ==
  /\ q \in Seq(IOTask)
  /\ \A k \in DOMAIN q : c /\ q[k].op = op /\ q[k].of = o /\ q[k].v = v
  /\ c => LastIs(q, op, o, v)
  /\ \A p, i : ~c \/ p # op \/ i # o => ~HasTask(q, p, i)

\* When makes such a queue.
LEMMA OneTask ==
  ASSUME NEW op \in Operation, NEW o \in Owner, NEW v \in Version, NEW c \in BOOLEAN
  PROVE  TaskIf(When(c, VersionTask(op, o, v)), c, op, o, v)
<1> DEFINE t == VersionTask(op, o, v)
           q == When(c, t)
<1>1. t \in IOTask /\ t.op = op /\ t.of = o /\ t.v = v
  BY DEF VersionTask, Task, IOTask, Modes
<1> HIDE DEF t
<1>2. /\ q \in Seq(IOTask)
      /\ \A k \in DOMAIN q : c /\ q[k] = t
      /\ c => 1 \in DOMAIN q /\ q[1] = t /\ DOMAIN q = {1}
  BY <1>1 DEF When
<1> HIDE DEF q
<1>3. ASSUME c PROVE LastIs(q, op, o, v)
  <2>1. 1 \in DOMAIN q /\ q[1] = VersionTask(op, o, v)
    BY <1>2, <1>3 DEF t
  <2>2. \A l \in DOMAIN q : l > 1 => ~IsTask(q[l], op, o)
    BY <1>2, <1>3
  <2> QED
    BY <2>1, <2>2 DEF LastIs
<1>4. ASSUME NEW p, NEW i, ~c \/ p # op \/ i # o PROVE ~HasTask(q, p, i)
  BY <1>1, <1>2, <1>4 DEF HasTask, IsTask
<1>5. \A k \in DOMAIN q : c /\ q[k].op = op /\ q[k].of = o /\ q[k].v = v
  BY <1>1, <1>2
<1>6. TaskIf(q, c, op, o, v)
  BY <1>2, <1>3, <1>4, <1>5 DEF TaskIf
<1> QED
  BY <1>6 DEF q, t

\* Task(op, o) is a task with the version 0.
LEMMA PlainTask ==
  ASSUME NEW op, NEW o
  PROVE  Task(op, o) = VersionTask(op, o, 0)
BY DEF Task, VersionTask

\* What an iteration that is visited puts into the queue.
LEMMA IterationQueue ==
  ASSUME FrontendTypeOK, NEW i \in Iter
  PROVE  LET u == iterationTasks(i)
         IN /\ u \in Seq(IOTask)
            /\ \A k \in DOMAIN u :
                 /\ u[k].of = i /\ u[k].op \in {"CREATE_PATH", "WRITE_DATASET", "WRITE_ATT"}
                 /\ u[k].op = "WRITE_DATASET" => pending[i] /\ u[k].v = mem[i].data
            /\ IF pending[i] THEN LastIs(u, "WRITE_DATASET", i, mem[i].data)
               ELSE ~HasTask(u, "WRITE_DATASET", i)
            /\ IF dirty[i] THEN LastIs(u, "WRITE_ATT", i, mem[i].attr)
               ELSE ~HasTask(u, "WRITE_ATT", i)
<1>0. /\ i \in Owner /\ written[i] \in BOOLEAN /\ pending[i] \in BOOLEAN /\ dirty[i] \in BOOLEAN
      /\ mem[i].data \in Version /\ mem[i].attr \in Version /\ 0 \in Version
      /\ {"CREATE_PATH", "WRITE_DATASET", "WRITE_ATT"} \subseteq Operation
  BY VersionAssumption DEF FrontendTypeOK, Content, Owner, Operation, Version
<1> DEFINE d == mem[i].data
           e == mem[i].attr
           a == When(~written[i], VersionTask("CREATE_PATH", i, 0))
           b == When(pending[i], VersionTask("WRITE_DATASET", i, d))
           c == When(dirty[i], VersionTask("WRITE_ATT", i, e))
           u == (a \o b) \o c
<1>1. /\ a \in Seq(IOTask)
      /\ \A k \in DOMAIN a : a[k].of = i /\ a[k].op = "CREATE_PATH"
      /\ \A p : p # "CREATE_PATH" => ~HasTask(a, p, i)
  <2>1. TaskIf(a, ~written[i], "CREATE_PATH", i, 0)
    BY <1>0, OneTask
  <2> QED
    BY <2>1 DEF TaskIf
<1>2. /\ b \in Seq(IOTask)
      /\ \A k \in DOMAIN b : b[k].of = i /\ b[k].op = "WRITE_DATASET" /\ b[k].v = d /\ pending[i]
      /\ pending[i] => LastIs(b, "WRITE_DATASET", i, d)
      /\ \A p : ~pending[i] \/ p # "WRITE_DATASET" => ~HasTask(b, p, i)
  <2>1. TaskIf(b, pending[i], "WRITE_DATASET", i, d)
    BY <1>0, OneTask
  <2> QED
    BY <2>1 DEF TaskIf
<1>3. /\ c \in Seq(IOTask)
      /\ \A k \in DOMAIN c : c[k].of = i /\ c[k].op = "WRITE_ATT"
      /\ dirty[i] => LastIs(c, "WRITE_ATT", i, e)
      /\ \A p : ~dirty[i] \/ p # "WRITE_ATT" => ~HasTask(c, p, i)
  <2>1. TaskIf(c, dirty[i], "WRITE_ATT", i, e)
    BY <1>0, OneTask
  <2> QED
    BY <2>1 DEF TaskIf
<1>4. iterationTasks(i) = u
  <2>1. iterationTasks(i) = a \o b \o c
    BY PlainTask DEF iterationTasks
  <2> QED
    BY <1>1, <1>2, <1>3, <2>1
<1> HIDE DEF a, b, c
<1>5. a \o b \in Seq(IOTask) /\ u \in Seq(IOTask)
  BY <1>1, <1>2, <1>3
<1>6. \A k \in DOMAIN u :
        /\ u[k].of = i /\ u[k].op \in {"CREATE_PATH", "WRITE_DATASET", "WRITE_ATT"}
        /\ u[k].op = "WRITE_DATASET" => pending[i] /\ u[k].v = d
  <2> DEFINE ab == a \o b
  <2>1. \A k \in DOMAIN ab :
          /\ ab[k].of = i /\ ab[k].op \in {"CREATE_PATH", "WRITE_DATASET"}
          /\ ab[k].op = "WRITE_DATASET" => pending[i] /\ ab[k].v = d
    BY <1>1, <1>2, ConcatTasks
  <2> HIDE DEF ab
  <2>2. \A k \in DOMAIN (ab \o c) :
          \/ k \in DOMAIN ab /\ (ab \o c)[k] = ab[k]
          \/ k - Len(ab) \in DOMAIN c /\ (ab \o c)[k] = c[k - Len(ab)]
    BY <1>3, <1>5, ConcatTasks DEF ab
  <2> QED
    BY <1>3, <2>1, <2>2 DEF ab
<1>7. IF pending[i] THEN LastIs(u, "WRITE_DATASET", i, d)
      ELSE ~HasTask(u, "WRITE_DATASET", i)
  <2>1. IF pending[i] THEN LastIs(a \o b, "WRITE_DATASET", i, d)
        ELSE ~HasTask(a \o b, "WRITE_DATASET", i)
    BY <1>1, <1>2, Unrelated, Latest
  <2>2. ~HasTask(c, "WRITE_DATASET", i)
    BY <1>3
  <2> QED
    BY <1>3, <1>5, <2>1, <2>2, Unrelated
<1>8. IF dirty[i] THEN LastIs(u, "WRITE_ATT", i, e)
      ELSE ~HasTask(u, "WRITE_ATT", i)
  <2>1. ~HasTask(a \o b, "WRITE_ATT", i)
    BY <1>1, <1>2, Unrelated
  <2> QED
    BY <1>3, <1>5, <2>1, Unrelated, Latest
<1> QED
  BY <1>4, <1>5, <1>6, <1>7, <1>8

-----------------------------------------------------------------------------
(* The invariant of the loop.                                              *)

Open(i) == m_closed[i] # "ClosedInBackend"

\* Steps are used; whether they are does not change.
Stepwise == file.streamStatus # "NoStream"

\* The ENDSTEP of an iteration that has just been closed is still to run.
Ending == phase = "last" /\ call.op = "end" /\ Advancing

\* No more than one iteration is open, in the step that the frontend is in or
\* is about to begin.
LoopInv ==
  /\ \A i \in Iter : m_closed[i] # "ClosedInFrontend"
  /\ \A i \in Iter \ iterations : Open(i) /\ dirty[i] /\ ~pending[i] /\ mem[i].data = 0
  /\ currentlyOpen # None => currentlyOpen \in iterations
  /\ \A i \in iterations : Open(i) =>
       i = currentlyOpen /\ (m_stepStatus = "DuringStep" \/ call.op = "begin")
  /\ todo \subseteq iterations
  /\ phase \in {"idle", "destroyed"} => call.op = "none"
  /\ call.next # None => call.op = "end"

\* A closed iteration is closed again: its flush is about to be refused.
Refused == phase = "flush" /\ todo = {call.it} /\ ~Open(call.it) /\ dirty[call.it]

\* The call that ends a step closes the open iteration, with nothing of it left
\* in the frontend; the one that begins a step closes nothing.
CallInv ==
  /\ call.op \in {"begin", "end"} => todo \subseteq {call.it}
  /\ call.op = "begin" => call.it = currentlyOpen /\ call.old # "ClosedInFrontend"
  /\ call.op = "end" =>
       /\ call.it \in iterations
       /\ phase \in {"flush", "drain", "advance"} =>
            Refused \/ (call.old = "ClosedInFrontend" /\ Open(call.it))
       /\ (phase = "flush" /\ call.it \in todo) \/ (~dirty[call.it] /\ ~pending[call.it])
       /\ phase \in {"last", "return"} => \A i \in iterations : ~Open(i)

\* What is written belongs to an iteration that is open.
TaskOK(t) ==
  /\ t.op = "WRITE_DATASET" => t.of \in iterations /\ Open(t.of) /\ t.v # 0
  /\ t.op = "WRITE_ATT" /\ t.of # Root => t.of \in iterations /\ Open(t.of)
  /\ t.op = "CLOSE_PATH" => phase = "last" /\ call.op = "end" /\ t.of = call.it

TasksInv == \A k \in DOMAIN m_work : TaskOK(m_work[k])

\* Behind the queue, the newest version is the one that was buffered last, or
\* the one in the step, or one that was published.
DataKept(i) ==
  \/ file.m_buffer[i] # 0 /\ file.m_buffer[i] = mem[i].data
  \/ file.m_buffer[i] = 0 /\ file.step.data[i] # 0 /\ file.step.data[i] = mem[i].data
  \/ /\ file.m_buffer[i] = 0 /\ file.step.data[i] = 0
     /\ \/ mem[i].data = 0
        \/ \E k \in DOMAIN file.steps : file.steps[k].data[i] = mem[i].data

AttrKept(i) ==
  \/ file.layout = "ByAdiosVariables" /\ file.m_attributeWrites[i] = mem[i].attr
  \/ file.layout = "ByAdiosAttributes" /\ file.attributes[i] = mem[i].attr
  \/ \E k \in DOMAIN file.steps : file.steps[k].attr[i] = mem[i].attr

\* Something knows the newest version: the frontend, the last task, the file.
DataChain(i) ==
  /\ pending[i] => mem[i].data # 0
  /\ \/ pending[i]
     \/ LastIs(m_work, "WRITE_DATASET", i, mem[i].data)
     \/ ~HasTask(m_work, "WRITE_DATASET", i) /\ DataKept(i)

AttrChain(i) ==
  /\ mem[i].attr # 0
  /\ \/ dirty[i]
     \/ LastIs(m_work, "WRITE_ATT", i, mem[i].attr)
     \/ ~HasTask(m_work, "WRITE_ATT", i) /\ AttrKept(i)

ChainInv == \A i \in Iter : DataChain(i) /\ AttrChain(i)

\* Nothing of an iteration is in a step before the one that closes it, and its
\* attributes can still be changed until then.
Unpublished(i) == Open(i) \/ (Ending /\ i = call.it)

PlaceOK(i) ==
  /\ file.layout = "ByAdiosAttributes" /\ Open(i) =>
       file.attributes[i] = 0 \/ i \in file.uncommitted
  /\ i \notin iterations => file.attributes[i] = 0 /\ file.m_attributeWrites[i] = 0
  /\ file.m_buffer[i] # 0 => i \in iterations /\ Open(i)
  /\ Stepwise /\ file.step.data[i] # 0 => i \in iterations /\ Unpublished(i)
  /\ Unpublished(i) => \A k \in DOMAIN file.steps :
                         file.steps[k].data[i] = 0 /\ file.steps[k].attr[i] = 0

PlacesInv == phase # "destroyed" =>
  /\ file.streaming => Stepwise
  /\ file.step.attr = NoAttributes
  /\ \A i \in Iter : PlaceOK(i)

\* The steps of the file are the iterations that were closed.
Closing == [it |-> call.it, attr |-> mem[call.it].attr, data |-> mem[call.it].data]

ClosedOnce ==
  \A n \in DOMAIN finished :
    /\ finished[n].it \in iterations /\ ~Open(finished[n].it)
    /\ \A m \in DOMAIN finished : m # n => finished[m].it # finished[n].it

StepsInv ==
  phase # "destroyed" /\ Stepwise =>
    /\ Len(finished) = Len(file.steps) + (IF Ending THEN 1 ELSE 0)
    /\ \A n \in DOMAIN file.steps : publishedAs(n, finished[n])

LastClosed ==
  phase = "last" /\ call.op = "end" => finished # <<>> /\ finished[Len(finished)] = Closing

DeliveryInv ==
  LoopInv /\ CallInv /\ TasksInv /\ ChainInv /\ PlacesInv /\ ClosedOnce /\ StepsInv /\ LastClosed

-----------------------------------------------------------------------------
(* Steps that do not touch the file.                                       *)

\* Tasks that write nothing of an iteration.
Harmless(u) ==
  /\ u \in Seq(IOTask)
  /\ \A k \in DOMAIN u : \/ u[k].op \in {"CREATE_FILE", "CREATE_PATH"}
                         \/ u[k].op = "WRITE_ATT" /\ u[k].of = Root

LEMMA HarmlessQueues ==
  /\ Harmless(<<>>)
  /\ \A c \in BOOLEAN : Harmless(When(c, Task("CREATE_FILE", Root)))
  /\ \A c \in BOOLEAN, v \in Version : Harmless(When(c, VersionTask("WRITE_ATT", Root, v)))
<1>1. Root \in Owner /\ 0 \in Version /\ {"CREATE_FILE", "WRITE_ATT"} \subseteq Operation
  BY VersionAssumption DEF Owner, Version, Operation
<1>2. Harmless(<<>>)
  BY DEF Harmless
<1>3. ASSUME NEW c \in BOOLEAN PROVE Harmless(When(c, Task("CREATE_FILE", Root)))
  <2>1. TaskIf(When(c, Task("CREATE_FILE", Root)), c, "CREATE_FILE", Root, 0)
    BY <1>1, OneTask, PlainTask
  <2> QED
    BY <2>1 DEF TaskIf, Harmless
<1>4. ASSUME NEW c \in BOOLEAN, NEW v \in Version
      PROVE  Harmless(When(c, VersionTask("WRITE_ATT", Root, v)))
  <2>1. TaskIf(When(c, VersionTask("WRITE_ATT", Root, v)), c, "WRITE_ATT", Root, v)
    BY <1>1, OneTask
  <2> QED
    BY <2>1 DEF TaskIf, Harmless
<1> QED
  BY <1>2, <1>3, <1>4

\* What a call that only adds to the frontend does to the contents.
Added(i) ==
  /\ \/ mem'[i].data = mem[i].data /\ pending'[i] = pending[i]
     \/ pending'[i] = TRUE /\ mem'[i].data # 0
  /\ mem'[i].attr # 0
  /\ (mem'[i].attr = mem[i].attr /\ dirty'[i] = dirty[i]) \/ dirty'[i] = TRUE

\* As long as the file and what is open stay as they are, the values are where
\* they were.
LEMMA Quiet ==
  ASSUME Inv, DeliveryInv, phase \notin {"last", "destroyed"}, phase' # "last",
         UNCHANGED <<file, finished>>, iterations \subseteq iterations',
         \A i \in Iter : Open(i)' <=> Open(i),
         NEW u, Harmless(u), m_work' = m_work \o u,
         \A i \in Iter : Added(i)
  PROVE  TasksInv' /\ ChainInv' /\ PlacesInv' /\ ClosedOnce' /\ StepsInv' /\ LastClosed'
<1>0. /\ FrontendTypeOK /\ m_work \in Seq(IOTask) /\ u \in Seq(IOTask)
      /\ TasksInv /\ ChainInv /\ PlacesInv /\ ClosedOnce /\ StepsInv
      /\ iterations \subseteq Iter
      /\ finished \in Seq([it : Iter, attr : Version, data : Version])
      /\ ~Ending
  BY DEF Inv, DeliveryInv, FrontendTypeOK, Harmless, Ending
<1>1. \A i \in Iter : i # Root
  BY RootAssumption, IterAssumption
<1>2. TasksInv'
  <2>1. ASSUME NEW t \in IOTask, TaskOK(t)
        PROVE  TaskOK(t)'
    <3>1. t.of \in iterations => (Open(t.of)' <=> Open(t.of))
      BY <1>0
    <3> QED
      BY <2>1, <3>1 DEF TaskOK
  <2>2. ASSUME NEW k \in DOMAIN u, NEW t, t = u[k]
        PROVE  TaskOK(t)'
    BY <2>2 DEF Harmless, TaskOK
  <2>3. ASSUME NEW k \in DOMAIN m_work'
        PROVE  \E t : t = m_work'[k] /\ TaskOK(t)'
    <3>1. CASE k \in DOMAIN m_work /\ m_work'[k] = m_work[k]
      <4>1. TaskOK(m_work[k]) /\ m_work[k] \in IOTask
        BY <1>0, <3>1 DEF TasksInv
      <4> QED
        BY <2>1, <3>1, <4>1
    <3>2. CASE k - Len(m_work) \in DOMAIN u /\ m_work'[k] = u[k - Len(m_work)]
      BY <2>2, <3>2
    <3> QED
      BY <1>0, <3>1, <3>2, ConcatTasks
  <2> QED
    BY <2>3 DEF TasksInv, TaskOK
<1>3. ChainInv'
  <2>1. ASSUME NEW i \in Iter
        PROVE  DataChain(i)' /\ AttrChain(i)'
    <3>1. ~HasTask(u, "WRITE_DATASET", i) /\ ~HasTask(u, "WRITE_ATT", i)
      BY <1>1 DEF Harmless, HasTask, IsTask
    <3>2. /\ DataChain(i) /\ AttrChain(i) /\ Added(i)
      BY <1>0 DEF ChainInv
    <3>3. DataChain(i)'
      <4>1. CASE mem'[i].data = mem[i].data /\ pending'[i] = pending[i]
        <5>1. DataKept(i) => DataKept(i)'
          BY <4>1 DEF DataKept
        <5>2. /\ LastIs(m_work, "WRITE_DATASET", i, mem[i].data) =>
                   LastIs(m_work', "WRITE_DATASET", i, mem'[i].data)
              /\ ~HasTask(m_work, "WRITE_DATASET", i) => ~HasTask(m_work', "WRITE_DATASET", i)
          BY <1>0, <3>1, <4>1, Unrelated
        <5> QED
          BY <3>2, <4>1, <5>1, <5>2 DEF DataChain
      <4>2. CASE pending'[i] = TRUE /\ mem'[i].data # 0
        BY <4>2 DEF DataChain
      <4> QED
        BY <3>2, <4>1, <4>2 DEF Added
    <3>4. AttrChain(i)'
      <4>1. CASE mem'[i].attr = mem[i].attr /\ dirty'[i] = dirty[i]
        <5>1. AttrKept(i) => AttrKept(i)'
          BY <4>1 DEF AttrKept
        <5>2. /\ LastIs(m_work, "WRITE_ATT", i, mem[i].attr) =>
                   LastIs(m_work', "WRITE_ATT", i, mem'[i].attr)
              /\ ~HasTask(m_work, "WRITE_ATT", i) => ~HasTask(m_work', "WRITE_ATT", i)
          BY <1>0, <3>1, <4>1, Unrelated
        <5> QED
          BY <3>2, <4>1, <5>1, <5>2 DEF AttrChain
      <4>2. CASE dirty'[i] = TRUE
        BY <3>2, <4>2 DEF AttrChain, Added
      <4> QED
        BY <3>2, <4>1, <4>2 DEF Added
    <3> QED
      BY <3>3, <3>4
  <2> QED
    BY <2>1 DEF ChainInv
<1>4. PlacesInv'
  <2>1. ~Ending'
    BY DEF Ending
  <2>2. ASSUME NEW i \in Iter, PlaceOK(i)
        PROVE  PlaceOK(i)'
    BY <1>0, <2>1, <2>2 DEF PlaceOK, Unpublished, Stepwise
  <2> QED
    BY <1>0, <2>2 DEF PlacesInv, Stepwise
<1>5. ClosedOnce'
  <2>1. ASSUME NEW n \in DOMAIN finished
        PROVE  /\ finished[n].it \in iterations' /\ ~Open(finished[n].it)'
               /\ \A m \in DOMAIN finished : m # n => finished[m].it # finished[n].it
    <3>1. finished[n].it \in Iter /\ finished[n].it \in iterations /\ ~Open(finished[n].it)
      BY <1>0 DEF ClosedOnce
    <3> QED
      BY <1>0, <3>1 DEF ClosedOnce
  <2>2. UNCHANGED finished
    OBVIOUS
  <2> QED
    BY <2>1, <2>2 DEF ClosedOnce
<1>6. StepsInv' /\ LastClosed'
  BY <1>0 DEF StepsInv, LastClosed, Ending, Stepwise, publishedAs
<1> QED
  BY <1>2, <1>3, <1>4, <1>5, <1>6

\* The invariant holds at first.
LEMMA DeliveryInit ==
  ASSUME Init
  PROVE  DeliveryInv
<1>1. LoopInv /\ CallInv
  BY DEF Init, LoopInv, CallInv, NoCall, Open
<1>2. TasksInv /\ ClosedOnce /\ LastClosed
  BY DEF Init, TasksInv, ClosedOnce, LastClosed
<1>3. ChainInv
  <2>1. ASSUME NEW i \in Iter PROVE DataChain(i) /\ AttrChain(i)
    BY DEF Init, DataChain, AttrChain, DataKept, HasTask, newFile, NoChunks, EmptyStep
  <2> QED
    BY <2>1 DEF ChainInv
<1>4. file.steps = <<>> /\ file.step = EmptyStep /\ file.m_buffer = NoChunks
      /\ file.attributes = NoAttributes /\ file.m_attributeWrites = NoAttributes
  BY DEF Init, newFile
<1>5. file.streaming => Stepwise
  <2>1. engine \in Engines
    BY ConfigsAssumption DEF Init
  <2> QED
    BY <2>1 DEF Init, newFile, Stepwise, Engines
<1>6. PlacesInv
  <2>1. ASSUME NEW i \in Iter PROVE PlaceOK(i)
    BY <1>4 DEF PlaceOK, NoAttributes, NoChunks, EmptyStep, Owner
  <2> QED
    BY <1>4, <1>5, <2>1 DEF PlacesInv, EmptyStep
<1>7. StepsInv
  <2>1. finished = <<>> /\ ~Ending
    BY DEF Init, Ending
  <2> QED
    BY <1>4, <2>1 DEF StepsInv
<1> QED
  BY <1>1, <1>2, <1>3, <1>6, <1>7 DEF DeliveryInv

\* Between two calls no call is in progress, and an open iteration is in a step.
LEMMA BetweenCalls ==
  ASSUME Inv, DeliveryInv, phase = "idle"
  PROVE  /\ FrontendTypeOK /\ LoopInv /\ call.op = "none" /\ m_work \in Seq(IOTask)
         /\ m_work = m_work \o <<>>
         /\ \A i \in Iter : mem[i].attr \in Nat \ {0} /\ mem[i].data \in Nat
         /\ \A i \in iterations : Open(i) => i = currentlyOpen /\ m_stepStatus = "DuringStep"
         /\ \A i \in Iter : m_closed[i] \in {"Open", "ClosedInBackend"} /\ i # None
<1>1. FrontendTypeOK /\ LoopInv /\ call.op = "none" /\ m_work \in Seq(IOTask)
  BY DEF Inv, DeliveryInv, LoopInv, FrontendTypeOK
<1>2. \A i \in Iter : mem[i] \in Content /\ mem[i].attr # 0
  <2>1. \A i \in Iter : AttrChain(i)
    BY DEF DeliveryInv, ChainInv
  <2>2. \A i \in Iter : mem[i].attr # 0
    BY <2>1, Zenon DEF AttrChain
  <2> QED
    BY <1>1, <2>2 DEF FrontendTypeOK
<1>3. ASSUME NEW i \in Iter PROVE mem[i].attr \in Nat \ {0} /\ mem[i].data \in Nat
  <2>1. mem[i].attr \in Version /\ mem[i].data \in Version
    BY <1>2 DEF Content
  <2> QED
    BY <1>2, <2>1, VersionAssumption DEF Version
<1>4. \A i \in Iter : m_closed[i] \in {"Open", "ClosedInBackend"} /\ i # None
  BY <1>1, NoneAssumption, IterAssumption DEF LoopInv, FrontendTypeOK, CloseStatus
<1> QED
  BY <1>1, <1>3, <1>4 DEF LoopInv

\* What the user does between two calls.
LEMMA ModifyDelivers ==
  ASSUME Extras = {}, Inv, DeliveryInv, Modify
  PROVE  DeliveryInv'
<1>1. /\ phase = "idle" /\ phase' = "idle" /\ UNCHANGED <<call, todo>>
      /\ UNCHANGED <<file, m_work, iterations, m_closed, m_stepStatus, currentlyOpen, finished>>
  BY DEF Modify, SetAttribute, StoreChunk, Insert, SetSeriesAttribute, change, Idle,
         backendVars, control, user
<1>2. /\ FrontendTypeOK /\ LoopInv /\ call.op = "none" /\ m_work' = m_work \o <<>>
      /\ \A i \in Iter : mem[i].attr \in Nat \ {0} /\ mem[i].data \in Nat
  BY <1>1, BetweenCalls
<1>3. /\ \A j \in Iter : Added(j)
      /\ \A j \in Iter \ iterations : dirty'[j] /\ ~pending'[j] /\ mem'[j].data = 0
  <2>1. ASSUME NEW i \in Iter, SetAttribute(i)
        PROVE  /\ \A j \in Iter : Added(j)
               /\ \A j \in Iter \ iterations : dirty'[j] /\ ~pending'[j] /\ mem'[j].data = 0
    <3>1. /\ i \in iterations /\ mem' = [mem EXCEPT ![i].attr = mem[i].attr + 1]
          /\ dirty' = [dirty EXCEPT ![i] = TRUE] /\ UNCHANGED pending
      BY <2>1 DEF SetAttribute
    <3>2. /\ \A j \in Iter : mem'[j].data = mem[j].data
          /\ \A j \in Iter : j # i => mem'[j].attr = mem[j].attr
          /\ mem'[i].attr = mem[i].attr + 1
      BY <1>2, <3>1 DEF FrontendTypeOK, Content
    <3>3. ASSUME NEW j \in Iter
          PROVE  Added(j) /\ (j \notin iterations => dirty'[j] /\ ~pending'[j] /\ mem'[j].data = 0)
      <4>1. CASE j = i
        BY <1>2, <3>1, <3>2, <4>1 DEF Added, FrontendTypeOK
      <4>2. CASE j # i
        BY <1>2, <3>1, <3>2, <4>2 DEF Added, LoopInv, FrontendTypeOK
      <4> QED
        BY <4>1, <4>2
    <3> QED
      BY <3>3
  <2>2. ASSUME NEW i \in Iter, StoreChunk(i)
        PROVE  /\ \A j \in Iter : Added(j)
               /\ \A j \in Iter \ iterations : dirty'[j] /\ ~pending'[j] /\ mem'[j].data = 0
    <3>1. /\ i \in iterations /\ mem' = [mem EXCEPT ![i].data = mem[i].data + 1]
          /\ pending' = [pending EXCEPT ![i] = TRUE] /\ UNCHANGED dirty
      BY <2>2 DEF StoreChunk
    <3>2. /\ \A j \in Iter : mem'[j].attr = mem[j].attr
          /\ \A j \in Iter : j # i => mem'[j].data = mem[j].data
          /\ mem'[i].data = mem[i].data + 1
      BY <1>2, <3>1 DEF FrontendTypeOK, Content
    <3>3. ASSUME NEW j \in Iter
          PROVE  Added(j) /\ (j \notin iterations => dirty'[j] /\ ~pending'[j] /\ mem'[j].data = 0)
      <4>1. CASE j = i
        <5>1. pending'[i] = TRUE /\ mem'[i].data # 0
          BY <1>2, <3>1, <3>2 DEF FrontendTypeOK
        <5>2. mem'[i].attr # 0 /\ mem'[i].attr = mem[i].attr
          BY <1>2, <3>2
        <5> QED
          BY <3>1, <4>1, <5>1, <5>2 DEF Added
      <4>2. CASE j # i
        BY <1>2, <3>1, <3>2, <4>2 DEF Added, LoopInv, FrontendTypeOK
      <4> QED
        BY <4>1, <4>2
    <3> QED
      BY <3>3
  <2>3. CASE SetSeriesAttribute
    BY <1>2, <2>3 DEF SetSeriesAttribute, Added, LoopInv
  <2>4. ASSUME NEW i \in Iter, Insert(i) PROVE FALSE
    BY <2>4 DEF Insert
  <2> QED
    BY <2>1, <2>2, <2>3, <2>4 DEF Modify
<1>4. LoopInv' /\ CallInv'
  <2>1. LoopInv'
    BY <1>1, <1>2, <1>3 DEF LoopInv, Open
  <2>2. CallInv'
    BY <1>1, <1>2 DEF CallInv
  <2> QED
    BY <2>1, <2>2
<1>5. TasksInv' /\ ChainInv' /\ PlacesInv' /\ ClosedOnce' /\ StepsInv' /\ LastClosed'
  <2>1. \A i \in Iter : Open(i)' <=> Open(i)
    BY <1>1 DEF Open
  <2>2. Harmless(<<>>)
    BY HarmlessQueues
  <2> QED
    BY <1>1, <1>2, <1>3, <2>1, <2>2, Quiet
<1> QED
  BY <1>4, <1>5 DEF DeliveryInv

\* Entering a call enqueues no more than the creation of the file.
LEMMA EnteredQueue ==
  ASSUME FrontendTypeOK, NEW op, NEW i, NEW old, NEW next, NEW S,
         startFlush(op, i, old, next, S)
  PROVE  \E u : Harmless(u) /\ m_work' = m_work \o u
<1>1. seriesWritten \in BOOLEAN
  BY DEF FrontendTypeOK
<1>2. Harmless(When(~seriesWritten, Task("CREATE_FILE", Root)))
  BY <1>1, HarmlessQueues
<1> QED
  BY <1>2 DEF startFlush, enqueue

\* Nothing is added to the contents that do not change.
LEMMA NothingAdded ==
  ASSUME DeliveryInv, UNCHANGED <<mem, dirty, pending>>
  PROVE  \A i \in Iter : Added(i)
<1>1. ASSUME NEW i \in Iter PROVE Added(i)
  <2>1. AttrChain(i)
    BY DEF DeliveryInv, ChainInv
  <2>2. mem[i].attr # 0
    BY <2>1, Zenon DEF AttrChain
  <2> QED
    BY <2>2 DEF Added
<1> QED
  BY <1>1

\* Series::flush, and the destructor's.
LEMMA FlushDelivers ==
  ASSUME Inv, DeliveryInv, Flush \/ Destroy
  PROVE  DeliveryInv'
<1>1. phase = "idle"
  BY DEF Flush, Destroy, Idle
<1>2. PICK op \in {"flush", "destroy"} : startFlush(op, None, "Open", None, iterations)
  BY DEF Flush, Destroy
<1>3. UNCHANGED <<file, iterations, m_closed, dirty, pending, mem, currentlyOpen, m_stepStatus,
                  finished>>
  BY DEF Flush, Destroy, backendVars, objects, user
<1>4. /\ phase' = "flush" /\ todo' = iterations
      /\ call' = [op |-> op, it |-> None, old |-> "Open", next |-> None]
  BY <1>2 DEF startFlush
<1>5. /\ FrontendTypeOK /\ LoopInv
      /\ \A i \in iterations : Open(i) => i = currentlyOpen /\ m_stepStatus = "DuringStep"
  BY <1>1, BetweenCalls
<1>6. LoopInv' /\ CallInv'
  <2>1. LoopInv'
    BY <1>3, <1>4, <1>5 DEF LoopInv, Open
  <2>2. CallInv'
    BY <1>4 DEF CallInv
  <2> QED
    BY <2>1, <2>2
<1>7. PICK u : Harmless(u) /\ m_work' = m_work \o u
  BY <1>2, <1>5, EnteredQueue
<1>8. TasksInv' /\ ChainInv' /\ PlacesInv' /\ ClosedOnce' /\ StepsInv' /\ LastClosed'
  <2>1. \A i \in Iter : Open(i)' <=> Open(i)
    BY <1>3 DEF Open
  <2>2. \A i \in Iter : Added(i)
    BY <1>3, NothingAdded
  <2> QED
    BY <1>1, <1>3, <1>4, <1>7, <2>1, <2>2, Quiet
<1> QED
  BY <1>6, <1>8 DEF DeliveryInv

\* Iteration::close of the open iteration ends its step; that of another one is
\* about to be refused.
LEMMA CloseDelivers ==
  ASSUME Inv, DeliveryInv, phase = "idle", NEW i \in iterations,
         NEW next \in Iter \cup {None}, next # None => Open(i),
         closeIteration(i, TRUE, next), UNCHANGED <<iterations, currentlyOpen>>
  PROVE  DeliveryInv'
<1>0. /\ FrontendTypeOK /\ LoopInv /\ i \in Iter /\ i # None
      /\ \A j \in Iter : mem[j].attr \in Nat \ {0} /\ mem[j].data \in Nat
      /\ \A j \in iterations : Open(j) => j = currentlyOpen /\ m_stepStatus = "DuringStep"
      /\ m_closed[i] \in {"Open", "ClosedInBackend"}
  BY BetweenCalls DEF FrontendTypeOK
<1>1. /\ mem' = [mem EXCEPT ![i].attr = IF @ < MaxVersion THEN @ + 1 ELSE @]
      /\ dirty' = [dirty EXCEPT ![i] = TRUE]
      /\ UNCHANGED <<file, pending, m_stepStatus, finished>>
  BY DEF closeIteration, backendVars
<1>2. \/ /\ m_stepStatus = "DuringStep" /\ Open(i)
         /\ startStep("end", i, "ClosedInFrontend", next)
      \/ /\ m_stepStatus = "DuringStep" /\ ~Open(i)
         /\ startStep("end", i, "ClosedInBackend", next)
      \/ /\ m_stepStatus # "DuringStep" /\ ~Open(i)
         /\ startFlush("close", i, "Open", next, {i})
         /\ m_closed' = [m_closed EXCEPT ![i] = "ClosedInBackend"]
  BY <1>0 DEF closeIteration, Open
<1>3. /\ UNCHANGED m_closed /\ phase' = "flush" /\ todo' = {i}
      /\ \/ /\ Open(i)
            /\ call' = [op |-> "end", it |-> i, old |-> "ClosedInFrontend", next |-> next]
         \/ /\ ~Open(i) /\ next = None
            /\ \E op \in {"end", "close"} : call'.op = op /\ call'.it = i /\ call'.next = None
      /\ \E op, old : startFlush(op, i, old, next, {i})
  <2>1. m_closed \in [Iter -> CloseStatus]
    BY <1>0 DEF FrontendTypeOK
  <2>2. CASE Open(i) /\ startStep("end", i, "ClosedInFrontend", next)
    BY <1>0, <2>1, <2>2 DEF startStep, startFlush, Open
  <2>3. CASE ~Open(i) /\ startStep("end", i, "ClosedInBackend", next)
    BY <1>0, <2>1, <2>3 DEF startStep, startFlush, Open
  <2>4. CASE /\ ~Open(i) /\ startFlush("close", i, "Open", next, {i})
             /\ m_closed' = [m_closed EXCEPT ![i] = "ClosedInBackend"]
    BY <1>0, <2>1, <2>4 DEF startFlush, Open
  <2> QED
    BY <1>2, <2>2, <2>3, <2>4
<1>4. /\ \A j \in Iter : Added(j)
      /\ \A j \in Iter \ iterations : dirty'[j] = dirty[j] /\ mem'[j] = mem[j]
      /\ dirty'[i] = TRUE
  <2>1. /\ \A j \in Iter : mem'[j].data = mem[j].data /\ (j # i => mem'[j] = mem[j])
        /\ mem'[i].attr \in {mem[i].attr, mem[i].attr + 1}
    BY <1>0, <1>1 DEF FrontendTypeOK, Content
  <2>2. mem'[i].attr # 0
    BY <1>0, <2>1
  <2>3. /\ \A j \in Iter : j # i => dirty'[j] = dirty[j]
        /\ dirty'[i] = TRUE
    BY <1>0, <1>1 DEF FrontendTypeOK
  <2>4. ASSUME NEW j \in Iter PROVE Added(j)
    <3>1. CASE j = i
      BY <1>1, <2>1, <2>2, <2>3, <3>1 DEF Added
    <3>2. CASE j # i
      BY <1>0, <1>1, <2>1, <2>3, <3>2 DEF Added
    <3> QED
      BY <3>1, <3>2
  <2> QED
    BY <2>1, <2>3, <2>4
<1>5. LoopInv'
  BY <1>0, <1>1, <1>3, <1>4 DEF LoopInv, Open
<1>6. CallInv'
  BY <1>3, <1>4 DEF CallInv, Open, Refused
<1>7. TasksInv' /\ ChainInv' /\ PlacesInv' /\ ClosedOnce' /\ StepsInv' /\ LastClosed'
  <2>1. \A j \in Iter : Open(j)' <=> Open(j)
    BY <1>3 DEF Open
  <2>2. PICK u : Harmless(u) /\ m_work' = m_work \o u
    BY <1>0, <1>3, EnteredQueue
  <2> QED
    BY <1>1, <1>3, <1>4, <2>1, <2>2, Quiet
<1> QED
  BY <1>5, <1>6, <1>7 DEF DeliveryInv

\* A step is begun for an iteration when no other one is open.
LEMMA BeginDelivers ==
  ASSUME Inv, DeliveryInv, phase \in {"idle", "return"}, NEW i \in Iter,
         \A j \in iterations : ~Open(j) \/ j = i,
         startStep("begin", i, m_closed[i], None),
         currentlyOpen' = i, iterations' = iterations \cup {i},
         UNCHANGED <<file, dirty, pending, mem, finished>>
  PROVE  DeliveryInv'
<1>0. /\ FrontendTypeOK /\ LoopInv /\ m_closed[i] # "ClosedInFrontend"
      /\ m_closed \in [Iter -> CloseStatus]
      /\ i # None
  BY NoneAssumption, IterAssumption DEF Inv, DeliveryInv, LoopInv, FrontendTypeOK
<1>1. startFlush("begin", i, m_closed[i], None, {i}) /\ UNCHANGED m_closed
  BY <1>0 DEF startStep
<1>2. /\ phase' = "flush" /\ todo' = {i}
      /\ call' = [op |-> "begin", it |-> i, old |-> m_closed[i], next |-> None]
  BY <1>1 DEF startFlush
<1>3. LoopInv'
  BY <1>0, <1>1, <1>2 DEF LoopInv, Open
<1>4. CallInv'
  BY <1>0, <1>1, <1>2 DEF CallInv
<1>5. TasksInv' /\ ChainInv' /\ PlacesInv' /\ ClosedOnce' /\ StepsInv' /\ LastClosed'
  <2>1. \A j \in Iter : Open(j)' <=> Open(j)
    BY <1>1 DEF Open
  <2>2. PICK u : Harmless(u) /\ m_work' = m_work \o u
    BY <1>0, <1>1, EnteredQueue
  <2>3. \A j \in Iter : Added(j)
    BY NothingAdded
  <2> QED
    BY <1>2, <2>1, <2>2, <2>3, Quiet
<1> QED
  BY <1>3, <1>4, <1>5 DEF DeliveryInv

\* WriteIterations::operator[].
LEMMA SwitchToDelivers ==
  ASSUME Inv, DeliveryInv, NEW i \in Iter, SwitchTo(i)
  PROVE  DeliveryInv'
<1>0. phase = "idle"
  BY DEF SwitchTo, Idle
<1>1. /\ FrontendTypeOK /\ LoopInv /\ i # None /\ call.op = "none" /\ m_work = m_work \o <<>>
      /\ \A j \in iterations : Open(j) => j = currentlyOpen /\ m_stepStatus = "DuringStep"
      /\ \A j \in Iter : m_closed[j] \in {"Open", "ClosedInBackend"} /\ j # None
  BY <1>0, BetweenCalls
<1>2. CASE currentlyOpen # None /\ currentlyOpen # i /\ ~closed(currentlyOpen)
  <2>1. closeIteration(currentlyOpen, TRUE, i) /\ UNCHANGED <<iterations, currentlyOpen>>
    BY <1>2 DEF SwitchTo
  <2>2. currentlyOpen \in iterations /\ Open(currentlyOpen)
    BY <1>1, <1>2 DEF LoopInv, closed, Open
  <2> QED
    BY <1>0, <2>1, <2>2, CloseDelivers
<1>3. CASE ~(currentlyOpen # None /\ currentlyOpen # i /\ ~closed(currentlyOpen))
  <2>1. /\ select(i)
        /\ UNCHANGED <<file, dirty, pending, mem, m_stepStatus, finished>>
    BY <1>3 DEF SwitchTo, backendVars
  <2>2. currentlyOpen' = i /\ iterations' = iterations \cup {i}
    BY <2>1 DEF select
  <2>3. \A j \in iterations : ~Open(j) \/ j = i
    <3>1. ASSUME NEW j \in iterations, Open(j), j # i PROVE FALSE
      <4>1. j = currentlyOpen /\ j \in Iter
        BY <1>1, <3>1 DEF FrontendTypeOK
      <4>2. closed(j) /\ m_closed[j] = "Open"
        BY <1>1, <1>3, <3>1, <4>1 DEF Open
      <4> QED
        BY <4>2 DEF closed
    <3> QED
      BY <3>1
  <2>4. CASE startStep("begin", i, m_closed[i], None)
    BY <1>0, <2>1, <2>2, <2>3, <2>4, BeginDelivers
  <2>5. CASE /\ m_stepStatus = "DuringStep"
             /\ phase' = "idle" /\ call' = NoCall /\ todo' = {}
             /\ UNCHANGED <<m_closed, m_work>>
    <3>1. LoopInv'
      BY <1>1, <2>1, <2>2, <2>3, <2>5 DEF LoopInv, Open, NoCall
    <3>2. CallInv'
      BY <2>5 DEF CallInv, NoCall
    <3>3. TasksInv' /\ ChainInv' /\ PlacesInv' /\ ClosedOnce' /\ StepsInv' /\ LastClosed'
      <4>1. \A j \in Iter : Open(j)' <=> Open(j)
        BY <2>5 DEF Open
      <4>2. \A j \in Iter : Added(j)
        BY <2>1, NothingAdded
      <4>3. Harmless(<<>>) /\ m_work' = m_work \o <<>>
        BY <1>1, <2>5, HarmlessQueues
      <4> QED
        BY <1>0, <2>1, <2>2, <2>5, <4>1, <4>2, <4>3, Quiet
    <3> QED
      BY <3>1, <3>2, <3>3 DEF DeliveryInv
  <2> QED
    BY <2>1, <2>4, <2>5 DEF select
<1> QED
  BY <1>2, <1>3

\* operator[] goes on to the iteration it was called for.
LEMMA ReturnToLoopDelivers ==
  ASSUME Inv, DeliveryInv, ReturnToLoop
  PROVE  DeliveryInv'
<1>0. /\ FrontendTypeOK /\ LoopInv /\ CallInv /\ phase = "return" /\ call.next # None
      /\ call \in Call
  BY DEF Inv, DeliveryInv, ReturnToLoop, FrontendTypeOK
<1>1. call.op = "end" /\ call.next \in Iter /\ \A j \in iterations : ~Open(j)
  BY <1>0 DEF LoopInv, CallInv, Call
<1>2. /\ startStep("begin", call.next, m_closed[call.next], None)
      /\ currentlyOpen' = call.next /\ iterations' = iterations \cup {call.next}
      /\ UNCHANGED <<file, dirty, pending, mem, finished>>
  BY DEF ReturnToLoop, afterCall, backendVars
<1> QED
  BY <1>0, <1>1, <1>2, BeginDelivers

-----------------------------------------------------------------------------
(* The flush loop.                                                         *)

\* An iteration that is closed and clean is passed over.
LEMMA SkipClosedDelivers ==
  ASSUME Inv, DeliveryInv, NEW i \in Iter, SkipClosed(i)
  PROVE  DeliveryInv'
<1>0. /\ FrontendTypeOK /\ LoopInv /\ CallInv /\ phase = "flush" /\ phase' = "flush"
      /\ i \in todo /\ todo' = todo \ {i} /\ ~Open(i) /\ ~dirty[i]
      /\ UNCHANGED <<file, m_work, iterations, m_closed, dirty, pending, mem, currentlyOpen,
                     call, m_stepStatus, finished>>
      /\ m_work \in Seq(IOTask)
  BY DEF Inv, DeliveryInv, SkipClosed, Reached, Least, dirtyRecursive, Open, backendVars,
         objects, user, FrontendTypeOK
<1>1. LoopInv'
  BY <1>0 DEF LoopInv, Open
<1>2. CallInv'
  <2>2. call.op # "end"
    BY <1>0 DEF CallInv, Refused
  <2> QED
    BY <1>0, <2>2 DEF CallInv
<1>3. TasksInv' /\ ChainInv' /\ PlacesInv' /\ ClosedOnce' /\ StepsInv' /\ LastClosed'
  <2>1. \A j \in Iter : Open(j)' <=> Open(j)
    BY <1>0 DEF Open
  <2>2. \A j \in Iter : Added(j)
    BY <1>0, NothingAdded
  <2>3. Harmless(<<>>) /\ m_work' = m_work \o <<>>
    BY <1>0, HarmlessQueues
  <2> QED
    BY <1>0, <2>1, <2>2, <2>3, Quiet
<1> QED
  BY <1>1, <1>2, <1>3 DEF DeliveryInv

\* The end of the loop; the call has visited what it set out to visit.
LEMMA LoopDoneDelivers ==
  ASSUME Inv, DeliveryInv, LoopDone
  PROVE  DeliveryInv'
<1>0. /\ FrontendTypeOK /\ LoopInv /\ CallInv /\ phase = "flush" /\ phase' = "drain"
      /\ todo = {} /\ todo' = {}
      /\ m_work' = m_work \o When(seriesDirty, VersionTask("WRITE_ATT", Root, seriesAttr))
      /\ UNCHANGED <<file, iterations, m_closed, dirty, pending, mem, currentlyOpen, call,
                     m_stepStatus, finished>>
      /\ seriesDirty \in BOOLEAN /\ seriesAttr \in Version
  BY DEF Inv, DeliveryInv, LoopDone, enqueue, backendVars, user, FrontendTypeOK
<1>1. LoopInv'
  BY <1>0 DEF LoopInv, Open
<1>2. CallInv'
  BY <1>0 DEF CallInv, Refused, Open
<1>3. TasksInv' /\ ChainInv' /\ PlacesInv' /\ ClosedOnce' /\ StepsInv' /\ LastClosed'
  <2>1. \A j \in Iter : Open(j)' <=> Open(j)
    BY <1>0 DEF Open
  <2>2. \A j \in Iter : Added(j)
    BY <1>0, NothingAdded
  <2>3. Harmless(When(seriesDirty, VersionTask("WRITE_ATT", Root, seriesAttr)))
    BY <1>0, HarmlessQueues
  <2> QED
    BY <1>0, <2>1, <2>2, <2>3, Quiet
<1> QED
  BY <1>1, <1>2, <1>3 DEF DeliveryInv

\* A visited iteration gives what is new in it to the queue.
LEMMA WriteIterationDelivers ==
  ASSUME Inv, DeliveryInv, NEW i \in Iter, WriteIteration(i)
  PROVE  DeliveryInv'
<1>0. /\ FrontendTypeOK /\ LoopInv /\ CallInv /\ TasksInv /\ ChainInv /\ PlacesInv
      /\ ClosedOnce /\ StepsInv /\ phase = "flush" /\ phase' = "flush"
      /\ i \in todo /\ i \in iterations /\ todo' = todo \ {i} /\ Open(i)
      /\ m_work' = m_work \o iterationTasks(i)
      /\ dirty' = [dirty EXCEPT ![i] = FALSE] /\ pending' = [pending EXCEPT ![i] = FALSE]
      /\ UNCHANGED <<file, iterations, mem, currentlyOpen, call, m_stepStatus, finished>>
      /\ m_work \in Seq(IOTask)
  BY DEF Inv, DeliveryInv, WriteIteration, Reached, Least, Open, enqueue, backendVars,
         user, FrontendTypeOK, LoopInv
<1>1. UNCHANGED m_closed
  <2>1. m_closed[i] # "ClosedInFrontend" /\ m_closed \in [Iter -> CloseStatus]
    BY <1>0 DEF LoopInv, FrontendTypeOK
  <2> QED
    BY <2>1 DEF WriteIteration
<1>2. \A j \in Iter : Open(j)' <=> Open(j)
  BY <1>1 DEF Open
<1>3. \A j \in Iter : IF j = i THEN ~dirty'[j] /\ ~pending'[j]
                      ELSE dirty'[j] = dirty[j] /\ pending'[j] = pending[j]
  BY <1>0 DEF FrontendTypeOK
<1>4. LoopInv'
  BY <1>0, <1>1, <1>3 DEF LoopInv, Open
<1>5. CallInv'
  <2>1. ASSUME call.op = "end"
        PROVE  call.it = i /\ call.old = "ClosedInFrontend"
    BY <1>0, <2>1 DEF CallInv, Refused
  <2> QED
    BY <1>0, <1>2, <1>3, <2>1 DEF CallInv
<1> DEFINE u == iterationTasks(i)
<1>6. /\ u \in Seq(IOTask)
      /\ \A k \in DOMAIN u :
           /\ u[k].of = i /\ u[k].op \in {"CREATE_PATH", "WRITE_DATASET", "WRITE_ATT"}
           /\ u[k].op = "WRITE_DATASET" => pending[i] /\ u[k].v = mem[i].data
      /\ IF pending[i] THEN LastIs(u, "WRITE_DATASET", i, mem[i].data)
         ELSE ~HasTask(u, "WRITE_DATASET", i)
      /\ IF dirty[i] THEN LastIs(u, "WRITE_ATT", i, mem[i].attr)
         ELSE ~HasTask(u, "WRITE_ATT", i)
  BY <1>0, IterationQueue
<1> HIDE DEF u
<1>7. DataChain(i) /\ AttrChain(i)
  BY <1>0 DEF ChainInv
<1>8. TasksInv'
  <2>1. ASSUME NEW t, TaskOK(t)
        PROVE  TaskOK(t)'
    BY <1>0, <1>1, <2>1 DEF TaskOK, Open
  <2>2. ASSUME NEW k \in DOMAIN u, NEW t, t = u[k]
        PROVE  TaskOK(t)'
    <3>1. pending[i] => mem[i].data # 0
      BY <1>7, Zenon DEF DataChain
    <3> QED
      BY <1>0, <1>1, <1>6, <2>2, <3>1 DEF TaskOK, Open
  <2>3. ASSUME NEW k \in DOMAIN m_work'
        PROVE  \E t : t = m_work'[k] /\ TaskOK(t)'
    <3>1. CASE k \in DOMAIN m_work /\ m_work'[k] = m_work[k]
      <4>1. TaskOK(m_work[k])
        BY <1>0, <3>1 DEF TasksInv
      <4> QED
        BY <2>1, <3>1, <4>1
    <3>2. CASE k - Len(m_work) \in DOMAIN u /\ m_work'[k] = u[k - Len(m_work)]
      BY <2>2, <3>2
    <3> QED
      BY <1>0, <1>6, <3>1, <3>2, ConcatTasks DEF u
  <2> QED
    BY <2>3 DEF TasksInv, TaskOK
<1>9. ChainInv'
  <2>1. ASSUME NEW j \in Iter
        PROVE  (DataKept(j) => DataKept(j)') /\ (AttrKept(j) => AttrKept(j)')
    BY <1>0 DEF DataKept, AttrKept
  <2>2. ASSUME NEW j \in Iter, NEW op \in {"WRITE_DATASET", "WRITE_ATT"}, NEW v,
               ~HasTask(u, op, j)
        PROVE  /\ LastIs(m_work, op, j, v) => LastIs(m_work', op, j, v)
               /\ ~HasTask(m_work, op, j) => ~HasTask(m_work', op, j)
    BY <1>0, <1>6, <2>2, Unrelated DEF u
  <2>3. ASSUME NEW op \in {"WRITE_DATASET", "WRITE_ATT"}, NEW v, LastIs(u, op, i, v)
        PROVE  LastIs(m_work', op, i, v)
    BY <1>0, <1>6, <2>3, Latest DEF u
  <2>4. ASSUME NEW j \in Iter
        PROVE  DataChain(j)'
    <3>0. DataChain(j)
      BY <1>0 DEF ChainInv
    <3>1. CASE j # i
      <4>1. ~HasTask(u, "WRITE_DATASET", j)
        BY <1>6, <3>1 DEF HasTask, IsTask
      <4> QED
        BY <1>0, <1>3, <2>1, <2>2, <3>0, <3>1, <4>1 DEF DataChain
    <3>2. CASE j = i /\ pending[i]
      BY <1>0, <1>3, <1>6, <2>3, <3>2 DEF DataChain
    <3>3. CASE j = i /\ ~pending[i]
      BY <1>0, <1>3, <1>6, <2>1, <2>2, <3>0, <3>3 DEF DataChain
    <3> QED
      BY <3>1, <3>2, <3>3
  <2>5. ASSUME NEW j \in Iter
        PROVE  AttrChain(j)'
    <3>0. AttrChain(j)
      BY <1>0 DEF ChainInv
    <3>1. CASE j # i
      <4>1. ~HasTask(u, "WRITE_ATT", j)
        BY <1>6, <3>1 DEF HasTask, IsTask
      <4> QED
        BY <1>0, <1>3, <2>1, <2>2, <3>0, <3>1, <4>1 DEF AttrChain
    <3>2. CASE j = i /\ dirty[i]
      <4>1. mem[i].attr # 0
        BY <1>7, Zenon DEF AttrChain
      <4> QED
        BY <1>0, <1>3, <1>6, <2>3, <3>2, <4>1 DEF AttrChain
    <3>3. CASE j = i /\ ~dirty[i]
      BY <1>0, <1>3, <1>6, <2>1, <2>2, <3>0, <3>3 DEF AttrChain
    <3> QED
      BY <3>1, <3>2, <3>3
  <2> QED
    BY <2>4, <2>5 DEF ChainInv
<1>10. PlacesInv'
  <2>1. ~Ending /\ ~Ending'
    BY <1>0 DEF Ending
  <2>2. ASSUME NEW j \in Iter, PlaceOK(j)
        PROVE  PlaceOK(j)'
    BY <1>0, <1>1, <2>1, <2>2 DEF PlaceOK, Unpublished, Stepwise, Open
  <2> QED
    BY <1>0, <2>2 DEF PlacesInv, Stepwise
<1>11. ClosedOnce' /\ StepsInv' /\ LastClosed'
  BY <1>0, <1>1 DEF ClosedOnce, StepsInv, LastClosed, Ending, Stepwise, Open, publishedAs
<1> QED
  BY <1>4, <1>5, <1>8, <1>9, <1>10, <1>11 DEF DeliveryInv

-----------------------------------------------------------------------------
(* The end of a call.                                                      *)

\* What is kept in a file is kept in its final form.
LEMMA FinalKept ==
  ASSUME Inv, NEW i \in Iter, Completed(file, file'), file'.layout = file.layout,
         UNCHANGED mem
  PROVE  (DataKept(i) => DataKept(i)') /\ (AttrKept(i) => AttrKept(i)')
<1>1. /\ file'.m_buffer = file.m_buffer /\ file'.m_attributeWrites = file.m_attributeWrites
      /\ file'.attributes = file.attributes
      /\ \A k \in DOMAIN file.steps : k \in DOMAIN file'.steps /\ file'.steps[k] = file.steps[k]
  BY DEF Completed
<1>2. AttrKept(i) => AttrKept(i)'
  BY <1>1 DEF AttrKept
<1>3. ASSUME DataKept(i) PROVE DataKept(i)'
  <2>1. CASE file'.step.data = file.step.data
    BY <1>1, <1>3, <2>1 DEF DataKept
  <2>2. CASE /\ file'.step.data = NoChunks
             /\ \E k \in DOMAIN file'.steps : file'.steps[k].data = file.step.data
    <3>1. file'.step.data[i] = 0
      BY <2>2 DEF NoChunks
    <3>2. PICK k \in DOMAIN file'.steps : file'.steps[k].data = file.step.data
      BY <2>2
    <3>3. CASE file.m_buffer[i] # 0 /\ file.m_buffer[i] = mem[i].data
      BY <1>1, <3>3 DEF DataKept
    <3>4. CASE file.m_buffer[i] = 0 /\ file.step.data[i] # 0 /\ file.step.data[i] = mem[i].data
      BY <1>1, <3>1, <3>2, <3>4 DEF DataKept
    <3>5. CASE /\ file.m_buffer[i] = 0 /\ file.step.data[i] = 0
               /\ \/ mem[i].data = 0
                  \/ \E n \in DOMAIN file.steps : file.steps[n].data[i] = mem[i].data
      BY <1>1, <3>1, <3>5 DEF DataKept
    <3> QED
      BY <1>3, <3>3, <3>4, <3>5 DEF DataKept
  <2> QED
    BY <2>1, <2>2 DEF Completed
<1> QED
  BY <1>2, <1>3

\* Leaving a call keeps the values where they are, in the file that is
\* finalized if the Series is destroyed.
LEMMA LeaveDelivers ==
  ASSUME Inv, DeliveryInv, phase \in {"flush", "return"}, NEW r, leave(r),
         UNCHANGED <<m_work, mem, dirty, pending, iterations, m_closed, finished>>
  PROVE  /\ phase' \in {"idle", "destroyed"} /\ call' = NoCall /\ todo' = {}
         /\ TasksInv' /\ ChainInv' /\ PlacesInv' /\ ClosedOnce' /\ StepsInv' /\ LastClosed'
<1>0. /\ phase' \in {"idle", "destroyed"} /\ call' = NoCall /\ todo' = {}
      /\ \/ UNCHANGED file
         \/ file' = finalize(file) /\ phase' = "destroyed"
      /\ m_work \in Seq(IOTask)
  BY DEF leave, Inv, FrontendTypeOK
<1>1. CASE UNCHANGED file
  <2>1. \A j \in Iter : Open(j)' <=> Open(j)
    BY DEF Open
  <2>2. \A j \in Iter : Added(j)
    BY NothingAdded
  <2>3. Harmless(<<>>) /\ m_work' = m_work \o <<>>
    BY <1>0, HarmlessQueues
  <2>4. TasksInv' /\ ChainInv' /\ PlacesInv' /\ ClosedOnce' /\ StepsInv' /\ LastClosed'
    BY <1>0, <1>1, <2>1, <2>2, <2>3, Quiet
  <2> QED
    BY <1>0, <2>4
<1>2. CASE file' = finalize(file) /\ phase' = "destroyed"
  <2>0. TasksInv /\ ChainInv /\ ClosedOnce /\ Good(file) /\ ~file.finalized
    BY DEF Inv, DeliveryInv, FileInv, Good
  <2>1. Completed(file, file') /\ file'.layout = file.layout
    BY <1>2, <2>0, Finalized, FinalizeGood
  <2>2. ChainInv'
    <3>1. ASSUME NEW i \in Iter PROVE DataChain(i)' /\ AttrChain(i)'
      <4>1. (DataKept(i) => DataKept(i)') /\ (AttrKept(i) => AttrKept(i)')
        BY <2>1, FinalKept
      <4>2. DataChain(i) /\ AttrChain(i)
        BY <2>0 DEF ChainInv
      <4> QED
        BY <4>1, <4>2 DEF DataChain, AttrChain
    <3> QED
      BY <3>1 DEF ChainInv
  <2>3. TasksInv'
    BY <2>0 DEF TasksInv, TaskOK, Open
  <2>4. ClosedOnce'
    BY <2>0 DEF ClosedOnce, Open
  <2>5. PlacesInv' /\ StepsInv' /\ LastClosed'
    BY <1>2 DEF PlacesInv, StepsInv, LastClosed
  <2> QED
    BY <1>0, <2>2, <2>3, <2>4, <2>5
<1> QED
  BY <1>0, <1>1, <1>2

\* A refused flush: no iteration is open outside of a step.
LEMMA RejectDelivers ==
  ASSUME Inv, DeliveryInv, NEW i \in Iter, Reject(i)
  PROVE  DeliveryInv'
<1>0. /\ LoopInv /\ CallInv /\ phase = "flush" /\ i \in todo /\ ~Open(i)
      /\ UNCHANGED <<m_work, iterations, m_closed, dirty, pending, mem, currentlyOpen,
                     m_stepStatus, finished>>
  BY DEF DeliveryInv, Reject, Reached, Least, Open, objects, user
<1>1. PICK r : leave(r)
  BY DEF Reject
<1>2. /\ phase' \in {"idle", "destroyed"} /\ call' = NoCall /\ todo' = {}
      /\ TasksInv' /\ ChainInv' /\ PlacesInv' /\ ClosedOnce' /\ StepsInv' /\ LastClosed'
  BY <1>0, <1>1, LeaveDelivers
<1>3. \A j \in iterations : Open(j) => j = currentlyOpen /\ m_stepStatus = "DuringStep"
  <2>1. ASSUME NEW j \in iterations, Open(j), call.op = "begin"
        PROVE  FALSE
    <3>1. i = call.it /\ call.it = currentlyOpen /\ j = currentlyOpen
      BY <1>0, <2>1 DEF CallInv, LoopInv
    <3> QED
      BY <1>0, <2>1, <3>1
  <2> QED
    BY <1>0, <2>1 DEF LoopInv
<1>4. LoopInv' /\ CallInv'
  BY <1>0, <1>2, <1>3 DEF LoopInv, CallInv, Open, NoCall
<1> QED
  BY <1>2, <1>4 DEF DeliveryInv

\* A call returns.
LEMMA ReturnDelivers ==
  ASSUME Inv, DeliveryInv, Return
  PROVE  DeliveryInv'
<1>0. /\ LoopInv /\ CallInv /\ phase = "return" /\ leave("ok")
      /\ UNCHANGED <<m_work, iterations, m_closed, dirty, pending, mem, currentlyOpen, finished>>
      /\ m_stepStatus' = CASE call.op = "begin" -> "DuringStep"
                           [] call.op = "end" -> "NoStep"
                           [] OTHER -> m_stepStatus
  BY DEF DeliveryInv, Return, afterCall
<1>1. /\ phase' \in {"idle", "destroyed"} /\ call' = NoCall /\ todo' = {}
      /\ TasksInv' /\ ChainInv' /\ PlacesInv' /\ ClosedOnce' /\ StepsInv' /\ LastClosed'
  BY <1>0, LeaveDelivers
<1>2. \A j \in iterations : Open(j) => j = currentlyOpen /\ m_stepStatus' = "DuringStep"
  <2>1. CASE call.op = "begin"
    BY <1>0, <2>1 DEF LoopInv
  <2>2. CASE call.op = "end"
    BY <1>0, <2>2 DEF CallInv
  <2>3. CASE call.op \notin {"begin", "end"}
    BY <1>0, <2>3 DEF LoopInv
  <2> QED
    BY <2>1, <2>2, <2>3
<1>3. LoopInv' /\ CallInv'
  BY <1>0, <1>1, <1>2 DEF LoopInv, CallInv, Open, NoCall
<1> QED
  BY <1>1, <1>3 DEF DeliveryInv

-----------------------------------------------------------------------------
(* The queue and the file.                                                 *)

\* A flush of the file brings what is buffered into the step.
LEMMA SettleDelivers ==
  ASSUME Inv, DeliveryInv, Settle
  PROVE  DeliveryInv'
<1>0. /\ LoopInv /\ CallInv /\ TasksInv /\ ChainInv /\ PlacesInv /\ ClosedOnce /\ StepsInv
      /\ phase \in {"drain", "last"} /\ m_work = <<>> /\ m_work' = <<>>
      /\ file' = flush(file, "putget", FALSE, FALSE)
      /\ phase' = IF phase = "drain" /\ call.op \in {"begin", "end"} THEN "advance"
                  ELSE "return"
      /\ UNCHANGED <<iterations, m_closed, dirty, pending, mem, currentlyOpen, call, todo,
                     m_stepStatus, finished>>
  BY DEF DeliveryInv, Settle, Draining, flushed, objects, user
<1>1. /\ Good(file) /\ ~file.finalized
  BY <1>0 DEF Inv, FileInv, Good
<1>2. /\ SameContents(file, file') /\ SameEngine(file, file')
      /\ file'.m_buffer = NoChunks /\ file'.m_attributeWrites = file.m_attributeWrites
      /\ file'.step = [attr |-> file.step.attr, data |-> Merge(file.step.data, file.m_buffer)]
  BY <1>0, <1>1, Gathered, FlushPutGet
<1>3. \A i \in Iter : /\ file'.m_buffer[i] = 0
                      /\ file'.step.data[i] = IF file.m_buffer[i] # 0 THEN file.m_buffer[i]
                                              ELSE file.step.data[i]
  <2>1. file.step.data \in [Iter -> Version]
    BY <1>1 DEF Good, File, Step
  <2> QED
    BY <1>2, <2>1 DEF Merge, NoChunks
<1>4. LoopInv' /\ CallInv'
  <2>1. LoopInv'
    BY <1>0 DEF LoopInv, Open
  <2>2. CallInv'
    BY <1>0 DEF CallInv, Refused, Open
  <2> QED
    BY <2>1, <2>2
<1>5. TasksInv'
  BY <1>0 DEF TasksInv
<1>6. ChainInv'
  <2>1. ASSUME NEW i \in Iter
        PROVE  DataChain(i)' /\ AttrChain(i)'
    <3>1. DataChain(i) /\ AttrChain(i)
      BY <1>0 DEF ChainInv
    <3>2. DataKept(i) => DataKept(i)'
      <4>1. file'.steps = file.steps /\ UNCHANGED mem
        BY <1>0, <1>2 DEF SameContents
      <4> QED
        BY <1>3, <4>1 DEF DataKept
    <3>3. AttrKept(i) => AttrKept(i)'
      BY <1>0, <1>2 DEF AttrKept, SameContents, SameEngine
    <3> QED
      BY <1>0, <3>1, <3>2, <3>3 DEF DataChain, AttrChain
  <2> QED
    BY <2>1 DEF ChainInv
<1>7. ~Ending /\ ~Ending'
  BY <1>0 DEF Ending, Advancing
<1>8. PlacesInv'
  <2>1. ASSUME NEW i \in Iter, PlaceOK(i)
        PROVE  PlaceOK(i)'
    BY <1>0, <1>2, <1>3, <1>7, <2>1
    DEF PlaceOK, Unpublished, Stepwise, Open, SameContents, SameEngine
  <2>2. /\ file'.step.attr = file.step.attr /\ file'.streaming = file.streaming
        /\ Stepwise' <=> Stepwise
    BY <1>2 DEF Stepwise, SameContents, SameEngine
  <2>3. phase # "destroyed"
    BY <1>0
  <2>4. /\ file.streaming => Stepwise
        /\ file.step.attr = NoAttributes
        /\ \A i \in Iter : PlaceOK(i)
    BY <1>0, <2>3 DEF PlacesInv
  <2>5. \A i \in Iter : PlaceOK(i)'
    BY <2>1, <2>4
  <2> QED
    BY <2>2, <2>4, <2>5 DEF PlacesInv
<1>9. ClosedOnce' /\ LastClosed'
  BY <1>0 DEF ClosedOnce, LastClosed, Open
<1>10. StepsInv'
  <2>1. file'.steps = file.steps /\ (Stepwise' <=> Stepwise)
    BY <1>2 DEF SameContents, Stepwise
  <2>2. phase # "destroyed" /\ UNCHANGED finished
    BY <1>0
  <2>3. Stepwise => /\ Len(finished) = Len(file.steps) + 0
                    /\ \A n \in DOMAIN file.steps : publishedAs(n, finished[n])
    BY <1>0, <1>7, <2>2 DEF StepsInv
  <2> QED
    BY <1>7, <2>1, <2>2, <2>3 DEF StepsInv, publishedAs
<1> QED
  BY <1>4, <1>5, <1>6, <1>8, <1>9, <1>10 DEF DeliveryInv

\* The end of a step is enqueued together with the closing of its iteration.
LEMMA AdvanceDelivers ==
  ASSUME Inv, DeliveryInv, Advance
  PROVE  DeliveryInv'
<1> DEFINE i == call.it
           closing == call.old = "ClosedInFrontend" /\ call.op = "end"
           a == <<AdvanceTask(IF call.op = "begin" THEN "BEGINSTEP" ELSE "ENDSTEP")>>
           c == When(closing, VersionTask("CLOSE_PATH", i, 0))
<1>0. /\ LoopInv /\ CallInv /\ TasksInv /\ ChainInv /\ PlacesInv /\ ClosedOnce /\ StepsInv
      /\ FrontendTypeOK /\ AdvanceInv /\ phase = "advance" /\ phase' = "last"
      /\ UNCHANGED <<file, iterations, dirty, pending, mem, currentlyOpen, call, todo,
                     m_stepStatus>>
  BY DEF Inv, DeliveryInv, Advance, backendVars, user
<1>1. /\ call.op \in {"begin", "end"} /\ m_work = <<>> /\ file.m_buffer = NoChunks
      /\ i \in Iter /\ i \in Owner /\ i # Root
  BY <1>0, RootAssumption, IterAssumption DEF AdvanceInv, FrontendTypeOK, Owner
<1>2. call.op = "end" => /\ closing /\ Open(i) /\ i \in iterations /\ i = currentlyOpen
                         /\ ~dirty[i] /\ ~pending[i]
  BY <1>0 DEF CallInv, Refused, LoopInv
<1>3. call.op = "begin" => ~closing /\ call.old # "ClosedInFrontend" /\ i = currentlyOpen
  BY <1>0 DEF CallInv
<1>4. /\ m_closed' = IF closing THEN [m_closed EXCEPT ![i] = "ClosedInBackend"] ELSE m_closed
      /\ finished' = IF closing THEN Append(finished, Closing) ELSE finished
  <2>1. m_closed \in [Iter -> CloseStatus]
    BY <1>0 DEF FrontendTypeOK
  <2>2. closing => m_closed' = [m_closed EXCEPT ![i] = "ClosedInBackend"]
    BY DEF Advance
  <2>3. ~closing => m_closed' = m_closed
    BY <1>1, <1>2, <1>3, <2>1 DEF Advance
  <2>4. finished' = IF closing THEN Append(finished, Closing) ELSE finished
    BY DEF Advance, Closing
  <2> QED
    BY <2>2, <2>3, <2>4
<1>5. /\ m_closed' \in [Iter -> CloseStatus]
      /\ \A j \in Iter : Open(j)' <=> (Open(j) /\ ~(closing /\ j = i))
  <2>1. m_closed \in [Iter -> CloseStatus] /\ "ClosedInBackend" \in CloseStatus
    BY <1>0 DEF FrontendTypeOK, CloseStatus
  <2>2. CASE closing
    BY <1>1, <1>4, <2>1, <2>2 DEF Open
  <2>3. CASE ~closing
    BY <1>4, <2>1, <2>3 DEF Open
  <2> QED
    BY <2>2, <2>3
<1>6. call.op = "end" => \A j \in iterations : ~Open(j)'
  <2>1. call.op = "end" => \A j \in iterations : Open(j) => j = i
    BY <1>0, <1>1, <1>2 DEF LoopInv
  <2> QED
    BY <1>0, <1>2, <1>5, <2>1 DEF FrontendTypeOK
<1>7. /\ m_work' = a \o c
      /\ a[1].op = "ADVANCE" /\ a \in Seq(IOTask) /\ DOMAIN a = {1}
      /\ TaskIf(c, closing, "CLOSE_PATH", i, 0)
  <2>0. 0 \in Version /\ {"ADVANCE", "CLOSE_PATH"} \subseteq Operation /\ Root \in Owner
    BY VersionAssumption DEF Version, Operation, Owner
  <2>1. TaskIf(c, closing, "CLOSE_PATH", i, 0)
    BY <1>1, <2>0, OneTask
  <2>2. a[1].op = "ADVANCE" /\ a \in Seq(IOTask) /\ DOMAIN a = {1}
    BY <2>0 DEF AdvanceTask, Task, IOTask, Modes
  <2>3. enqueue(a \o c)
    BY PlainTask DEF Advance
  <2>4. c \in Seq(IOTask)
    BY <2>1 DEF TaskIf
  <2> HIDE DEF a, c
  <2>5. m_work' = a \o c
    BY <1>1, <2>2, <2>3, <2>4 DEF enqueue
  <2> QED
    BY <2>1, <2>2, <2>5
<1> HIDE DEF a, c
<1>8. \A k \in DOMAIN m_work' : \/ m_work'[k].op = "ADVANCE"
                                \/ closing /\ m_work'[k].op = "CLOSE_PATH" /\ m_work'[k].of = i
  <2>1. c \in Seq(IOTask) /\ \A k \in DOMAIN c : closing /\ c[k].op = "CLOSE_PATH" /\ c[k].of = i
    BY <1>7 DEF TaskIf
  <2> HIDE DEF closing, i
  <2>2. ASSUME NEW k \in DOMAIN m_work'
        PROVE  \/ k \in DOMAIN a /\ m_work'[k] = a[k]
               \/ k - Len(a) \in DOMAIN c /\ m_work'[k] = c[k - Len(a)]
    BY <1>7, <2>1, ConcatTasks
  <2> QED
    BY <1>7, <2>1, <2>2
<1>9. Ending' <=> call.op = "end"
  <2>1. 1 \in DOMAIN m_work' /\ m_work'[1].op = "ADVANCE"
    BY <1>7 DEF TaskIf
  <2> QED
    BY <1>0, <2>1 DEF Ending, Advancing
<1>10. ~Ending
  BY <1>0 DEF Ending
<1>11. LoopInv'
  <2>1. \A j \in Iter : m_closed'[j] # "ClosedInFrontend"
    BY <1>0, <1>4 DEF LoopInv, FrontendTypeOK
  <2>2. \A j \in Iter \ iterations : Open(j)' /\ dirty[j] /\ ~pending[j] /\ mem[j].data = 0
    BY <1>0, <1>2, <1>5 DEF LoopInv
  <2>3. \A j \in iterations : Open(j)' =>
           j = currentlyOpen /\ (m_stepStatus = "DuringStep" \/ call.op = "begin")
    BY <1>0, <1>5 DEF LoopInv, FrontendTypeOK
  <2>4. /\ currentlyOpen # None => currentlyOpen \in iterations
        /\ todo \subseteq iterations /\ (call.next # None => call.op = "end")
    BY <1>0 DEF LoopInv
  <2>5. UNCHANGED <<iterations, dirty, pending, mem, currentlyOpen, call, todo, m_stepStatus>>
    BY <1>0
  <2> HIDE DEF i, closing
  <2> QED
    BY <1>0, <2>1, <2>2, <2>3, <2>4, <2>5 DEF LoopInv, Open
<1>12. CallInv'
  <2>1. CASE call.op = "begin"
    BY <1>0, <2>1 DEF CallInv
  <2>2. CASE call.op = "end"
    BY <1>0, <1>2, <1>6, <2>2 DEF CallInv
  <2> QED
    BY <1>1, <2>1, <2>2
<1>13. TasksInv'
  <2>1. ASSUME NEW k \in DOMAIN m_work', NEW t, t = m_work'[k]
        PROVE  TaskOK(t)'
    BY <1>0, <1>8, <2>1 DEF TaskOK
  <2> QED
    BY <2>1 DEF TasksInv, TaskOK
<1>14. ChainInv'
  <2>1. ASSUME NEW j \in Iter
        PROVE  DataChain(j)' /\ AttrChain(j)'
    <3>1. DataChain(j) /\ AttrChain(j)
      BY <1>0 DEF ChainInv
    <3>2. (DataKept(j) => DataKept(j)') /\ (AttrKept(j) => AttrKept(j)')
      BY <1>0 DEF DataKept, AttrKept
    <3>3. ~HasTask(m_work', "WRITE_DATASET", j) /\ ~HasTask(m_work', "WRITE_ATT", j)
      BY <1>8 DEF HasTask, IsTask
    <3>4. /\ ~LastIs(m_work, "WRITE_DATASET", j, mem[j].data)
          /\ ~LastIs(m_work, "WRITE_ATT", j, mem[j].attr)
      BY <1>1 DEF LastIs
    <3>5. DataChain(j)'
      BY <1>0, <3>1, <3>2, <3>3, <3>4 DEF DataChain
    <3>6. AttrChain(j)'
      BY <1>0, <3>1, <3>2, <3>3, <3>4 DEF AttrChain
    <3> QED
      BY <3>5, <3>6
  <2> QED
    BY <2>1 DEF ChainInv
<1>15. PlacesInv'
  <2>1. ASSUME NEW j \in Iter, PlaceOK(j)
        PROVE  PlaceOK(j)'
    <3>1. Open(j)' => Open(j)
      BY <1>5
    <3>2. Unpublished(j)' => Unpublished(j)
      BY <1>0, <1>2, <1>9, <3>1 DEF Unpublished
    <3>3. file.m_buffer[j] = 0
      BY <1>1 DEF NoChunks
    <3>4. j \in iterations /\ Unpublished(j) => Unpublished(j)'
      <4>1. ASSUME j \in iterations, Unpublished(j) PROVE Unpublished(j)'
        <5>1. Open(j)
          BY <1>10, <4>1 DEF Unpublished
        <5>2. CASE call.op = "end"
          <6>1. j = i
            BY <1>0, <1>2, <4>1, <5>1, <5>2 DEF LoopInv
          <6> QED
            BY <1>0, <1>9, <5>2, <6>1 DEF Unpublished
        <5>3. CASE call.op = "begin"
          BY <1>3, <1>5, <5>1, <5>3 DEF Unpublished
        <5> QED
          BY <1>1, <5>2, <5>3
      <4> QED
        BY <4>1
    <3>5. Stepwise' <=> Stepwise
      BY <1>0 DEF Stepwise
    <3> HIDE DEF i, closing
    <3> QED
      BY <1>0, <2>1, <3>1, <3>2, <3>3, <3>4, <3>5 DEF PlaceOK
  <2>2. /\ file.streaming => Stepwise
        /\ file.step.attr = NoAttributes
        /\ \A j \in Iter : PlaceOK(j)
    BY <1>0 DEF PlacesInv
  <2>3. (Stepwise' <=> Stepwise) /\ UNCHANGED file
    BY <1>0 DEF Stepwise
  <2> QED
    BY <2>1, <2>2, <2>3 DEF PlacesInv
<1>16. Closing \in [it : Iter, attr : Version, data : Version]
       /\ finished \in Seq([it : Iter, attr : Version, data : Version])
  <2>1. mem[i] \in Content
    BY <1>0, <1>1 DEF FrontendTypeOK
  <2> QED
    BY <1>0, <1>1, <2>1 DEF FrontendTypeOK, Content, Closing
<1>17. ClosedOnce'
  <2>1. ASSUME NEW n \in DOMAIN finished
        PROVE  /\ finished[n].it \in iterations /\ finished[n].it \in Iter
               /\ ~Open(finished[n].it) /\ m_closed'[finished[n].it] = "ClosedInBackend"
    <3>1. finished[n].it \in iterations /\ finished[n].it \in Iter /\ ~Open(finished[n].it)
      BY <1>0, <1>16 DEF ClosedOnce, FrontendTypeOK
    <3>2. \A j \in Iter : ~Open(j) => m_closed'[j] = "ClosedInBackend"
      BY <1>5 DEF Open
    <3> QED
      BY <3>1, <3>2
  <2>2. CASE ~closing
    <3>1. /\ \A n \in DOMAIN finished : \A m \in DOMAIN finished :
               m # n => finished[m].it # finished[n].it
          /\ UNCHANGED <<finished, iterations>>
      BY <1>0, <1>4, <2>2 DEF ClosedOnce
    <3> HIDE DEF closing
    <3> QED
      BY <2>1, <3>1 DEF ClosedOnce, Open
  <2>3. CASE closing
    <3>0. Open(i) /\ i \in iterations /\ m_closed'[i] = "ClosedInBackend" /\ Closing.it = i
      BY <1>1, <1>2, <1>5, <2>3 DEF Closing, Open
    <3>1. /\ DOMAIN finished' = DOMAIN finished \cup {Len(finished) + 1}
          /\ \A n \in DOMAIN finished : finished'[n] = finished[n]
          /\ finished'[Len(finished) + 1] = Closing
      BY <1>4, <1>16, <2>3
    <3>2. \A n \in DOMAIN finished : finished[n].it # i
      BY <2>1, <3>0
    <3>3. ASSUME NEW n \in DOMAIN finished'
          PROVE  /\ finished'[n].it \in iterations' /\ m_closed'[finished'[n].it] = "ClosedInBackend"
                 /\ \A m \in DOMAIN finished' : m # n => finished'[m].it # finished'[n].it
      <4>1. CASE n \in DOMAIN finished
        BY <1>0, <2>1, <3>0, <3>1, <3>2, <4>1 DEF ClosedOnce, Open
      <4>2. CASE n = Len(finished) + 1
        BY <1>0, <3>0, <3>1, <3>2, <4>2 DEF Open
      <4> QED
        BY <3>1, <4>1, <4>2
    <3> QED
      BY <3>3 DEF ClosedOnce, Open
  <2> QED
    BY <2>2, <2>3
<1>18. LastClosed'
  <2>1. ASSUME call.op = "end"
        PROVE  finished' # <<>> /\ finished'[Len(finished')] = Closing
    BY <1>2, <1>4, <1>16, <2>1
  <2>2. Closing' = Closing
    BY <1>0 DEF Closing
  <2> QED
    BY <1>0, <2>1, <2>2 DEF LastClosed
<1>19. StepsInv'
  <2>1. ASSUME Stepwise
        PROVE  /\ Len(finished') = Len(file.steps) + (IF call.op = "end" THEN 1 ELSE 0)
               /\ \A n \in DOMAIN file.steps : publishedAs(n, finished[n]) /\ finished'[n] = finished[n]
    <3>1. /\ Len(finished) = Len(file.steps)
          /\ \A n \in DOMAIN file.steps : publishedAs(n, finished[n])
      BY <1>0, <1>10, <2>1 DEF StepsInv
    <3>2. file.steps \in Seq(Step)
      BY DEF Inv, FileInv, File
    <3>3. DOMAIN file.steps = DOMAIN finished
      BY <1>16, <3>1, <3>2
    <3>4. CASE call.op = "end"
      <4>1. /\ Len(finished') = Len(finished) + 1
            /\ \A n \in DOMAIN finished : finished'[n] = finished[n]
        BY <1>2, <1>4, <1>16, <3>4
      <4> QED
        BY <3>1, <3>3, <3>4, <4>1
    <3>5. CASE call.op = "begin"
      BY <1>3, <1>4, <1>16, <3>1, <3>2, <3>5
    <3> QED
      BY <1>1, <3>4, <3>5
  <2>2. (Stepwise' <=> Stepwise) /\ UNCHANGED file
    BY <1>0 DEF Stepwise
  <2> QED
    BY <1>9, <2>1, <2>2 DEF StepsInv, publishedAs
<1> QED
  BY <1>11, <1>12, <1>13, <1>14, <1>15, <1>17, <1>18, <1>19 DEF DeliveryInv

\* What a task t does to the values of the iterations: those that were in the
\* file stay there, unless t writes them anew.
Obeyed(t) ==
  \A i \in Iter :
    /\ DataKept(i) /\ ~IsTask(t, "WRITE_DATASET", i) => DataKept(i)'
    /\ t = VersionTask("WRITE_DATASET", i, mem[i].data) => DataKept(i)'
    /\ AttrKept(i) /\ ~IsTask(t, "WRITE_ATT", i) => AttrKept(i)'
    /\ t = VersionTask("WRITE_ATT", i, mem[i].attr) => AttrKept(i)'

\* A task that leaves the queue.
LEMMA Taken ==
  ASSUME Inv, DeliveryInv, Execute, NEW t, t = Head(m_work)
  PROVE  /\ LoopInv /\ CallInv /\ TasksInv /\ ChainInv /\ PlacesInv /\ ClosedOnce /\ StepsInv
         /\ LastClosed /\ AdvanceInv /\ StepInv /\ FrontendTypeOK
         /\ phase \in {"drain", "last"} /\ phase # "destroyed" /\ m_work # <<>>
         /\ m_work \in Seq(IOTask) /\ m_work' = Tail(m_work) /\ m_work' \in Seq(IOTask)
         /\ t \in IOTask /\ TaskOK(t) /\ Good(file) /\ ~file.finalized
         /\ file' = effect(t)
         /\ UNCHANGED <<iterations, m_closed, dirty, pending, mem, currentlyOpen, phase, call,
                        todo, m_stepStatus, finished>>
         /\ Advancing <=> t.op = "ADVANCE"
         /\ ~Ending' /\ (t.op = "ADVANCE" => phase = "last" /\ file.m_buffer = NoChunks)
         /\ \A i \in Iter : i # Root /\ mem[i].attr # 0
<1>0. /\ LoopInv /\ CallInv /\ TasksInv /\ ChainInv /\ PlacesInv /\ ClosedOnce /\ StepsInv
      /\ LastClosed /\ AdvanceInv /\ StepInv /\ FrontendTypeOK /\ FileInv
  BY DEF Inv, DeliveryInv
<1>1. /\ phase \in {"drain", "last"} /\ m_work # <<>> /\ m_work' = Tail(m_work)
      /\ file' = effect(t)
      /\ UNCHANGED <<iterations, m_closed, dirty, pending, mem, currentlyOpen, phase, call,
                     todo, m_stepStatus, finished>>
  BY DEF Execute, Draining, objects, user, control
<1>2. m_work \in Seq(IOTask)
  BY <1>0 DEF FrontendTypeOK
<1>3. /\ 1 \in DOMAIN m_work /\ t = m_work[1] /\ t \in IOTask /\ m_work' \in Seq(IOTask)
      /\ \A k \in DOMAIN m_work' : /\ k \in Nat \ {0} /\ k + 1 \in DOMAIN m_work
                                   /\ m_work'[k] = m_work[k + 1]
  BY <1>1, <1>2
<1>4. TaskOK(t)
  BY <1>0, <1>3 DEF TasksInv
<1>5. Good(file) /\ ~file.finalized
  BY <1>0, <1>1 DEF FileInv, Good
<1>6. Advancing <=> t.op = "ADVANCE"
  <2>1. \A k \in DOMAIN m_work : m_work[k].op = "ADVANCE" => k = 1
    BY <1>0 DEF AdvanceInv
  <2> QED
    BY <1>3, <2>1 DEF Advancing
<1>7. ~Ending'
  <2>1. ASSUME NEW k \in DOMAIN m_work', m_work'[k].op = "ADVANCE"
        PROVE  FALSE
    <3>1. k + 1 \in DOMAIN m_work /\ m_work[k + 1].op = "ADVANCE" /\ k \in Nat \ {0}
      BY <1>3, <2>1
    <3>2. k + 1 = 1
      BY <1>0, <3>1 DEF AdvanceInv
    <3> QED
      BY <3>1, <3>2
  <2> QED
    BY <2>1 DEF Ending, Advancing
<1>8. t.op = "ADVANCE" => phase = "last" /\ file.m_buffer = NoChunks
  BY <1>0, <1>3, <1>6 DEF AdvanceInv
<1>9. ASSUME NEW i \in Iter PROVE i # Root /\ mem[i].attr # 0
  <2>1. AttrChain(i)
    BY <1>0 DEF ChainInv
  <2>2. mem[i].attr # 0
    BY <2>1, Zenon DEF AttrChain
  <2> QED
    BY <2>2, RootAssumption, IterAssumption
<1> QED
  BY <1>0, <1>1, <1>2, <1>3, <1>4, <1>5, <1>6, <1>7, <1>8, <1>9

\* If the contents of the file stay, all stays where it was.
LEMMA SameFileObeys ==
  ASSUME Inv, DeliveryInv, Execute, NEW t, t = Head(m_work),
         t.op \notin {"WRITE_DATASET", "WRITE_ATT"},
         SameContents(file, file'), SameBuffers(file, file'), SameEngine(file, file'),
         file'.step = file.step, ~Stepwise \/ ~Ending
  PROVE  Obeyed(t) /\ PlacesInv' /\ StepsInv'
<1>0. /\ PlacesInv /\ StepsInv /\ phase # "destroyed" /\ ~Ending'
      /\ UNCHANGED <<mem, iterations, m_closed, phase, call, finished>>
  BY Taken
<1>1. /\ UNCHANGED <<file.m_buffer, file.m_attributeWrites, file.attributes, file.uncommitted,
                     file.steps, file.step, file.layout, file.streaming>>
      /\ Stepwise' <=> Stepwise
  BY DEF SameContents, SameBuffers, SameEngine, Stepwise
<1>2. Obeyed(t)
  <2>1. ASSUME NEW i \in Iter
        PROVE  (DataKept(i) => DataKept(i)') /\ (AttrKept(i) => AttrKept(i)')
    BY <1>0, <1>1 DEF DataKept, AttrKept
  <2>2. \A i, v : t # VersionTask("WRITE_DATASET", i, v) /\ t # VersionTask("WRITE_ATT", i, v)
    BY DEF VersionTask, Task
  <2> QED
    BY <2>1, <2>2 DEF Obeyed
<1>3. PlacesInv'
  <2>1. /\ file.streaming => Stepwise
        /\ file.step.attr = NoAttributes
        /\ \A i \in Iter : PlaceOK(i)
    BY <1>0 DEF PlacesInv
  <2>2. ASSUME NEW i \in Iter PROVE PlaceOK(i)'
    <3>1. PlaceOK(i)
      BY <2>1
    <3>2. Open(i)' <=> Open(i)
      BY <1>0 DEF Open
    <3>3. (Unpublished(i)' => Unpublished(i)) /\ (Stepwise /\ Unpublished(i) => Unpublished(i)')
      BY <1>0, <3>2 DEF Unpublished
    <3> QED
      BY <1>0, <1>1, <3>1, <3>2, <3>3 DEF PlaceOK
  <2> QED
    BY <1>1, <2>1, <2>2 DEF PlacesInv
<1>4. StepsInv'
  <2>1. Stepwise => /\ Len(finished) = Len(file.steps) + 0
                    /\ \A n \in DOMAIN file.steps : publishedAs(n, finished[n])
    BY <1>0 DEF StepsInv
  <2> QED
    BY <1>0, <1>1, <2>1 DEF StepsInv, publishedAs
<1> QED
  BY <1>2, <1>3, <1>4

\* A stored chunk is buffered.
LEMMA WriteDatasetObeys ==
  ASSUME Inv, DeliveryInv, Execute, NEW t, t = Head(m_work), t.op = "WRITE_DATASET"
  PROVE  Obeyed(t) /\ PlacesInv' /\ StepsInv'
<1>0. /\ PlacesInv /\ StepsInv /\ phase # "destroyed" /\ ~Ending /\ ~Ending'
      /\ UNCHANGED <<mem, iterations, m_closed, phase, call, finished>>
      /\ t \in IOTask /\ TaskOK(t) /\ Good(file) /\ file' = effect(t)
      /\ iterations \subseteq Iter
  BY Taken DEF Ending, FrontendTypeOK
<1>1. /\ t.of \in iterations /\ t.of \in Iter /\ Open(t.of) /\ t.v # 0 /\ t.v \in Version
  BY <1>0 DEF TaskOK, IOTask
<1>2. file' = [file EXCEPT !.m_buffer = [file.m_buffer EXCEPT ![t.of] = t.v]]
  BY <1>0 DEF effect, writeDataset, Good, File
<1>3. /\ UNCHANGED <<file.m_attributeWrites, file.attributes, file.uncommitted, file.steps,
                     file.step, file.layout, file.streaming, file.streamStatus>>
      /\ file'.m_buffer = [file.m_buffer EXCEPT ![t.of] = t.v]
  BY <1>0, <1>2 DEF Good, File
<1>4. \A i \in Iter : file'.m_buffer[i] = IF i = t.of THEN t.v ELSE file.m_buffer[i]
  BY <1>0, <1>1, <1>3 DEF Good, File
<1>5. Obeyed(t)
  <2>1. ASSUME NEW i \in Iter, DataKept(i), ~IsTask(t, "WRITE_DATASET", i)
        PROVE  DataKept(i)'
    <3>1. i # t.of
      BY <2>1 DEF IsTask
    <3> QED
      BY <1>0, <1>3, <1>4, <2>1, <3>1 DEF DataKept
  <2>2. ASSUME NEW i \in Iter, t = VersionTask("WRITE_DATASET", i, mem[i].data)
        PROVE  DataKept(i)'
    <3>1. t.of = i /\ t.v = mem[i].data
      BY <2>2 DEF VersionTask, Task
    <3> QED
      BY <1>0, <1>1, <1>4, <3>1 DEF DataKept
  <2>3. \A i \in Iter : AttrKept(i) => AttrKept(i)'
    BY <1>0, <1>3 DEF AttrKept
  <2>4. \A i, v : t # VersionTask("WRITE_ATT", i, v)
    BY DEF VersionTask, Task
  <2> QED
    BY <2>1, <2>2, <2>3, <2>4 DEF Obeyed
<1>6. Stepwise' <=> Stepwise
  BY <1>3 DEF Stepwise
<1>7. PlacesInv'
  <2>1. /\ file.streaming => Stepwise
        /\ file.step.attr = NoAttributes
        /\ \A i \in Iter : PlaceOK(i)
    BY <1>0 DEF PlacesInv
  <2>2. ASSUME NEW i \in Iter PROVE PlaceOK(i)'
    <3>1. PlaceOK(i)
      BY <2>1
    <3>2. (Open(i)' <=> Open(i)) /\ (Unpublished(i)' <=> Unpublished(i))
      BY <1>0 DEF Open, Unpublished
    <3>3. file'.m_buffer[i] # 0 => i \in iterations /\ Open(i)
      BY <1>1, <1>4, <3>1 DEF PlaceOK
    <3> QED
      BY <1>0, <1>3, <1>6, <3>1, <3>2, <3>3 DEF PlaceOK
  <2> QED
    BY <1>3, <1>6, <2>1, <2>2 DEF PlacesInv
<1>8. StepsInv'
  <2>1. Stepwise => /\ Len(finished) = Len(file.steps) + 0
                    /\ \A n \in DOMAIN file.steps : publishedAs(n, finished[n])
    BY <1>0 DEF StepsInv
  <2> QED
    BY <1>0, <1>3, <1>6, <2>1 DEF StepsInv, publishedAs
<1> QED
  BY <1>5, <1>7, <1>8

\* An attribute is buffered, or defined in the engine: that of an open iteration
\* is in no step that was ended, and is not dropped.
LEMMA WriteAttributeObeys ==
  ASSUME Inv, DeliveryInv, Execute, NEW t, t = Head(m_work), t.op = "WRITE_ATT"
  PROVE  Obeyed(t) /\ PlacesInv' /\ StepsInv'
<1>0. /\ PlacesInv /\ StepsInv /\ phase # "destroyed" /\ ~Ending /\ ~Ending'
      /\ UNCHANGED <<mem, iterations, m_closed, phase, call, finished>>
      /\ t \in IOTask /\ TaskOK(t) /\ Good(file) /\ file' = effect(t)
      /\ \A i \in Iter : i # Root
  BY Taken DEF Ending
<1>1. /\ t.of \in Owner /\ t.v \in Version
      /\ t.of # Root => t.of \in iterations /\ t.of \in Iter /\ Open(t.of)
  BY <1>0 DEF TaskOK, IOTask, Owner
<1>2. \A i \in Iter : PlaceOK(i)
  BY <1>0 DEF PlacesInv
<1>3. /\ UNCHANGED <<file.m_buffer, file.steps, file.step, file.layout, file.streaming,
                     file.streamStatus>>
      /\ file.layout \in {"ByAdiosVariables", "ByAdiosAttributes"}
      /\ file.layout = "ByAdiosVariables" =>
           /\ UNCHANGED <<file.attributes, file.uncommitted>>
           /\ \A o \in Owner : file'.m_attributeWrites[o] =
                                 IF o = t.of THEN t.v ELSE file.m_attributeWrites[o]
      /\ file.layout = "ByAdiosAttributes" =>
           /\ UNCHANGED file.m_attributeWrites
           /\ \/ UNCHANGED <<file.attributes, file.uncommitted>> /\ t.of = Root
              \/ /\ \A o \in Owner : file'.attributes[o] = IF o = t.of THEN t.v
                                                           ELSE file.attributes[o]
                 /\ file'.uncommitted = file.uncommitted \cup {t.of}
  <2>0. file \in File /\ file' = writeAttribute(file, t.of, t.v)
    BY <1>0 DEF Good, effect
  <2>1. CASE file.layout = "ByAdiosVariables"
    <3>1. file' = [file EXCEPT !.m_attributeWrites = [file.m_attributeWrites EXCEPT ![t.of] = t.v]]
      BY <2>0, <2>1 DEF writeAttribute, File
    <3> QED
      BY <1>1, <2>0, <2>1, <3>1 DEF File
  <2>2. CASE /\ file.layout = "ByAdiosAttributes"
             /\ file.attributes[t.of] = 0 \/ t.of \in file.uncommitted
    <3> DEFINE d == [file EXCEPT !.attributes = [file.attributes EXCEPT ![t.of] = t.v]]
               e == [d EXCEPT !.uncommitted = file.uncommitted \cup {t.of}]
    <3>1. file' = e
      BY <2>0, <2>2 DEF writeAttribute, File
    <3>2. /\ d.attributes = [file.attributes EXCEPT ![t.of] = t.v]
          /\ d.m_buffer = file.m_buffer /\ d.steps = file.steps /\ d.step = file.step
          /\ d.layout = file.layout /\ d.streaming = file.streaming
          /\ d.streamStatus = file.streamStatus /\ d.m_attributeWrites = file.m_attributeWrites
          /\ d \in File
      BY <1>1, <2>0 DEF File
    <3> HIDE DEF d
    <3>3. /\ e.attributes = d.attributes /\ e.uncommitted = file.uncommitted \cup {t.of}
          /\ e.m_buffer = d.m_buffer /\ e.steps = d.steps /\ e.step = d.step
          /\ e.layout = d.layout /\ e.streaming = d.streaming
          /\ e.streamStatus = d.streamStatus /\ e.m_attributeWrites = d.m_attributeWrites
      BY <3>2 DEF File
    <3> HIDE DEF e
    <3>4. \A o \in Owner : e.attributes[o] = IF o = t.of THEN t.v ELSE file.attributes[o]
      BY <1>1, <2>0, <3>2, <3>3 DEF File
    <3> QED
      BY <2>2, <3>1, <3>2, <3>3, <3>4
  <2>3. CASE /\ file.layout = "ByAdiosAttributes"
             /\ ~(file.attributes[t.of] = 0 \/ t.of \in file.uncommitted)
    <3>1. file' = file
      BY <2>0, <2>3 DEF writeAttribute
    <3>2. t.of = Root
      BY <1>1, <1>2, <2>3 DEF PlaceOK
    <3> QED
      BY <2>3, <3>1, <3>2
  <2> QED
    BY <2>0, <2>1, <2>2, <2>3 DEF File
<1>4. Obeyed(t)
  <2>1. ASSUME NEW i \in Iter, AttrKept(i), ~IsTask(t, "WRITE_ATT", i)
        PROVE  AttrKept(i)'
    <3>1. i # t.of /\ i \in Owner
      BY <2>1 DEF IsTask, Owner
    <3> QED
      BY <1>0, <1>3, <2>1, <3>1 DEF AttrKept
  <2>2. ASSUME NEW i \in Iter, t = VersionTask("WRITE_ATT", i, mem[i].attr)
        PROVE  AttrKept(i)'
    <3>1. t.of = i /\ t.v = mem[i].attr /\ i # Root /\ i \in Owner
      BY <1>0, <2>2 DEF VersionTask, Task, Owner
    <3> QED
      BY <1>0, <1>3, <3>1 DEF AttrKept
  <2>3. \A i \in Iter : DataKept(i) => DataKept(i)'
    BY <1>0, <1>3 DEF DataKept
  <2>4. \A i, v : t # VersionTask("WRITE_DATASET", i, v)
    BY DEF VersionTask, Task
  <2> QED
    BY <2>1, <2>2, <2>3, <2>4 DEF Obeyed
<1>5. Stepwise' <=> Stepwise
  BY <1>3 DEF Stepwise
<1>6. PlacesInv'
  <2>1. (file.streaming => Stepwise) /\ file.step.attr = NoAttributes
    BY <1>0 DEF PlacesInv
  <2>2. ASSUME NEW i \in Iter PROVE PlaceOK(i)'
    <3>1. PlaceOK(i) /\ i \in Owner /\ i # Root
      BY <1>0, <1>2 DEF Owner
    <3>2. (Open(i)' <=> Open(i)) /\ (Unpublished(i)' <=> Unpublished(i))
      BY <1>0 DEF Open, Unpublished
    <3>3. file.layout = "ByAdiosAttributes" /\ Open(i) =>
            file'.attributes[i] = 0 \/ i \in file'.uncommitted
      BY <1>3, <3>1 DEF PlaceOK
    <3>4. i \notin iterations => file'.attributes[i] = 0 /\ file'.m_attributeWrites[i] = 0
      BY <1>1, <1>3, <3>1 DEF PlaceOK
    <3> QED
      BY <1>0, <1>3, <1>5, <3>1, <3>2, <3>3, <3>4 DEF PlaceOK
  <2> QED
    BY <1>3, <1>5, <2>1, <2>2 DEF PlacesInv
<1>7. StepsInv'
  <2>1. Stepwise => /\ Len(finished) = Len(file.steps) + 0
                    /\ \A n \in DOMAIN file.steps : publishedAs(n, finished[n])
    BY <1>0 DEF StepsInv
  <2> QED
    BY <1>0, <1>3, <1>5, <2>1 DEF StepsInv, publishedAs
<1> QED
  BY <1>4, <1>6, <1>7

\* A streaming engine forgets the attributes of an iteration that it has sent.
LEMMA ClosePathObeys ==
  ASSUME Inv, DeliveryInv, Execute, NEW t, t = Head(m_work), t.op = "CLOSE_PATH"
  PROVE  Obeyed(t) /\ PlacesInv' /\ StepsInv'
<1>0. /\ PlacesInv /\ StepsInv /\ LastClosed /\ CallInv /\ phase # "destroyed"
      /\ ~Ending /\ ~Ending'
      /\ UNCHANGED <<mem, iterations, m_closed, phase, call, finished>>
      /\ t \in IOTask /\ TaskOK(t) /\ Good(file) /\ file' = effect(t)
      /\ \A i \in Iter : i # Root
      /\ \A i, v : t # VersionTask("WRITE_DATASET", i, v) /\ t # VersionTask("WRITE_ATT", i, v)
  BY Taken DEF Ending, VersionTask, Task
<1>1. phase = "last" /\ call.op = "end" /\ t.of = call.it /\ t.of \in Owner
  BY <1>0 DEF TaskOK, IOTask
<1>2. file' = closePath(file, t.of)
  BY <1>0 DEF effect
<1>3. CASE ~(file.streaming /\ file.layout = "ByAdiosAttributes")
  <2>1. file' = file
    BY <1>2, <1>3 DEF closePath
  <2> QED
    BY <1>0, <2>1, SameFileObeys DEF SameContents, SameBuffers, SameEngine
<1>4. CASE file.streaming /\ file.layout = "ByAdiosAttributes"
  <2>1. /\ UNCHANGED <<file.m_buffer, file.m_attributeWrites, file.uncommitted, file.steps,
                       file.step, file.layout, file.streaming, file.streamStatus>>
        /\ file'.attributes = [file.attributes EXCEPT ![t.of] = 0]
    <3>1. file' = [file EXCEPT !.attributes = [file.attributes EXCEPT ![t.of] = 0]]
      BY <1>0, <1>2, <1>4 DEF closePath, Good, File
    <3> QED
      BY <1>0, <3>1 DEF Good, File
  <2>2. \A o \in Owner : file'.attributes[o] = IF o = t.of THEN 0 ELSE file.attributes[o]
    BY <1>0, <1>1, <2>1 DEF Good, File
  <2>3. /\ file.streaming => Stepwise
        /\ file.step.attr = NoAttributes
        /\ \A i \in Iter : PlaceOK(i)
    BY <1>0 DEF PlacesInv
  <2>4. Stepwise' <=> Stepwise
    BY <2>1 DEF Stepwise
  <2>5. /\ Len(finished) = Len(file.steps) + 0
        /\ \A n \in DOMAIN file.steps : publishedAs(n, finished[n])
    BY <1>0, <1>4, <2>3 DEF StepsInv
  <2>6. \E k \in DOMAIN file.steps : file.steps[k].attr[call.it] = mem[call.it].attr
    <3>1. finished # <<>> /\ finished[Len(finished)] = Closing
      BY <1>0, <1>1 DEF LastClosed
    <3>2. file.steps \in Seq(Step) /\ finished \in Seq([it : Iter, attr : Version, data : Version])
      BY <1>0 DEF Good, File, Inv, FrontendTypeOK
    <3>3. Len(finished) \in DOMAIN file.steps
      BY <2>5, <3>1, <3>2
    <3>4. publishedAs(Len(finished), Closing)
      BY <2>5, <3>1, <3>3
    <3> QED
      BY <3>3, <3>4 DEF publishedAs, Closing
  <2>7. Obeyed(t)
    <3>1. ASSUME NEW i \in Iter, AttrKept(i)
          PROVE  AttrKept(i)'
      <4>1. CASE i = call.it
        BY <1>0, <2>1, <2>6, <4>1 DEF AttrKept
      <4>2. CASE i # call.it
        <5>1. file'.attributes[i] = file.attributes[i]
          BY <1>1, <2>2, <4>2 DEF Owner
        <5> QED
          BY <1>0, <2>1, <3>1, <5>1 DEF AttrKept
      <4> QED
        BY <4>1, <4>2
    <3>2. \A i \in Iter : DataKept(i) => DataKept(i)'
      BY <1>0, <2>1 DEF DataKept
    <3> QED
      BY <1>0, <3>1, <3>2 DEF Obeyed
  <2>8. PlacesInv'
    <3>1. ASSUME NEW i \in Iter PROVE PlaceOK(i)'
      <4>1. PlaceOK(i) /\ i \in Owner
        BY <2>3 DEF Owner
      <4>2. (Open(i)' <=> Open(i)) /\ (Unpublished(i)' <=> Unpublished(i))
        BY <1>0 DEF Open, Unpublished
      <4>3. file'.attributes[i] \in {0, file.attributes[i]}
        BY <2>2, <4>1
      <4> QED
        BY <1>0, <2>1, <2>4, <4>1, <4>2, <4>3 DEF PlaceOK
    <3> QED
      BY <2>1, <2>3, <2>4, <3>1 DEF PlacesInv
  <2>9. StepsInv'
    BY <1>0, <2>1, <2>4, <2>5 DEF StepsInv, publishedAs
  <2> QED
    BY <2>7, <2>8, <2>9
<1> QED
  BY <1>3, <1>4

\* The engine's step ends when everything of the iteration is in it.
LEMMA EndObeys ==
  ASSUME Inv, DeliveryInv, Execute, NEW t, t = Head(m_work), t.op = "ADVANCE",
         call.op = "end", file.streamStatus = "DuringStep",
         file' = advance(file, "ENDSTEP")
  PROVE  Obeyed(t) /\ PlacesInv' /\ StepsInv'
<1> DEFINE e == call.it
           p == Published(file)
           n == Len(file.steps) + 1
<1>0. /\ PlacesInv /\ StepsInv /\ LastClosed /\ CallInv /\ TasksInv /\ ChainInv
      /\ FrontendTypeOK /\ phase = "last" /\ file.m_buffer = NoChunks
      /\ Ending /\ ~Ending' /\ Stepwise
      /\ UNCHANGED <<mem, iterations, m_closed, phase, call, finished>>
      /\ Good(file)
      /\ \A i \in Iter : i # Root /\ mem[i].attr # 0
      /\ \A i, v : t # VersionTask("WRITE_DATASET", i, v) /\ t # VersionTask("WRITE_ATT", i, v)
  BY Taken DEF Ending, VersionTask, Task, Stepwise
<1>1. /\ file'.attributes = file.attributes /\ file'.uncommitted = {}
      /\ file'.streamStatus # "NoStream"
      /\ file'.m_buffer = NoChunks /\ file'.m_attributeWrites = NoAttributes
      /\ file'.step = EmptyStep
      /\ file'.steps = Append(file.steps, p)
  BY <1>0, Ended
<1>2. file'.layout = file.layout /\ file'.streaming = file.streaming
  BY <1>0, AdvanceGood DEF SameEngine, Modes
<1>3. /\ file.steps \in Seq(Step) /\ finished \in Seq([it : Iter, attr : Version, data : Version])
      /\ e \in iterations /\ e \in Iter /\ ~dirty[e] /\ ~pending[e]
      /\ \A i \in iterations : ~Open(i)
  BY <1>0 DEF Good, File, FrontendTypeOK, CallInv
<1>4. /\ DOMAIN file'.steps = DOMAIN file.steps \cup {n} /\ n \in DOMAIN file'.steps
      /\ file'.steps[n] = p /\ n \in Nat /\ Len(file'.steps) = n /\ n \notin DOMAIN file.steps
      /\ \A k \in DOMAIN file.steps : k \in DOMAIN file'.steps /\ file'.steps[k] = file.steps[k]
  <2>1. p \in Step
    <3>1. /\ file.attributes \in [Owner -> Version] /\ file.step.data \in [Iter -> Version]
          /\ Merge(file.step.attr, file.m_attributeWrites) \in [Owner -> Version]
      BY <1>0, MergeType DEF Good, File, Step
    <3> QED
      BY <3>1 DEF Published, Step
  <2> DEFINE s == file.steps
  <2>2. s \in Seq(Step) /\ file'.steps = Append(s, p)
    BY <1>1, <1>3
  <2> HIDE DEF p, s
  <2> QED
    BY <2>1, <2>2 DEF s
<1>5. \A i \in Iter : /\ file.m_buffer[i] = 0 /\ file'.m_buffer[i] = 0
                      /\ file'.step.data[i] = 0 /\ file'.m_attributeWrites[i] = 0
  BY <1>0, <1>1 DEF NoChunks, NoAttributes, EmptyStep, Owner
<1>6. /\ p.data = file.step.data
      /\ \A i \in Iter : p.attr[i] = IF file.layout = "ByAdiosAttributes" THEN file.attributes[i]
                                     ELSE file.m_attributeWrites[i]
      /\ file.layout \in {"ByAdiosVariables", "ByAdiosAttributes"}
  <2>1. file.step.attr = NoAttributes
    BY <1>0 DEF PlacesInv
  <2>2. \A i \in Iter : i \in Owner
    BY DEF Owner
  <2> QED
    BY <1>0, <2>1, <2>2 DEF Published, Merge, NoAttributes, Good, File
<1>7. \A i \in Iter : PlaceOK(i)
  BY <1>0 DEF PlacesInv
<1>8. DataKept(e) /\ AttrKept(e)
  <2>1. ~HasTask(m_work, "WRITE_DATASET", e) /\ ~HasTask(m_work, "WRITE_ATT", e)
    <3>1. ASSUME NEW k \in DOMAIN m_work, NEW op \in {"WRITE_DATASET", "WRITE_ATT"},
                 IsTask(m_work[k], op, e)
          PROVE  FALSE
      BY <1>0, <1>3, <3>1 DEF TasksInv, TaskOK, IsTask
    <3> QED
      BY <3>1 DEF HasTask
  <2>2. \A op \in {"WRITE_DATASET", "WRITE_ATT"} : \A v : ~LastIs(m_work, op, e, v)
    <3>1. ASSUME NEW op \in {"WRITE_DATASET", "WRITE_ATT"}, NEW v, LastIs(m_work, op, e, v)
          PROVE  FALSE
      <4>1. PICK k \in DOMAIN m_work : m_work[k] = VersionTask(op, e, v)
        BY <3>1 DEF LastIs
      <4>2. IsTask(m_work[k], op, e)
        BY <4>1 DEF IsTask, VersionTask, Task
      <4> QED
        BY <2>1, <4>1, <4>2 DEF HasTask
    <3> QED
      BY <3>1
  <2>3. DataChain(e) /\ AttrChain(e)
    BY <1>0, <1>3 DEF ChainInv
  <2>4. DataKept(e)
    BY <1>3, <2>2, <2>3 DEF DataChain
  <2>5. AttrKept(e)
    BY <1>3, <2>2, <2>3 DEF AttrChain
  <2> QED
    BY <2>4, <2>5
<1>9. \A k \in DOMAIN file.steps : file.steps[k].data[e] = 0 /\ file.steps[k].attr[e] = 0
  BY <1>0, <1>3, <1>7 DEF PlaceOK, Unpublished
<1>10. p.data[e] = mem[e].data /\ p.attr[e] = mem[e].attr
  <2>1. file.step.data[e] = mem[e].data
    BY <1>3, <1>5, <1>8, <1>9 DEF DataKept
  <2>2. /\ file.layout = "ByAdiosVariables" => file.m_attributeWrites[e] = mem[e].attr
        /\ file.layout = "ByAdiosAttributes" => file.attributes[e] = mem[e].attr
    BY <1>0, <1>3, <1>6, <1>8, <1>9 DEF AttrKept
  <2> QED
    BY <1>3, <1>6, <2>1, <2>2
<1>11. \A j \in Iter \ {e} : p.data[j] = 0
  <2>1. ASSUME NEW j \in Iter \ {e}, file.step.data[j] # 0
        PROVE  FALSE
    <3>1. j \in iterations /\ Unpublished(j)
      BY <1>0, <1>7, <2>1 DEF PlaceOK
    <3> QED
      BY <1>3, <2>1, <3>1 DEF Unpublished
  <2> QED
    BY <1>6, <2>1
<1> HIDE DEF e, p, n
<1>12. Obeyed(t)
  <2>1. ASSUME NEW i \in Iter, DataKept(i)
        PROVE  DataKept(i)'
    <3>1. \/ p.data[i] = mem[i].data
          \/ mem[i].data = 0
          \/ \E k \in DOMAIN file.steps : file.steps[k].data[i] = mem[i].data
      BY <1>5, <1>6, <2>1 DEF DataKept
    <3> QED
      BY <1>0, <1>4, <1>5, <3>1 DEF DataKept
  <2>2. ASSUME NEW i \in Iter, AttrKept(i)
        PROVE  AttrKept(i)'
    <3>1. CASE file.layout = "ByAdiosVariables" /\ file.m_attributeWrites[i] = mem[i].attr
      <4>1. p.attr[i] = mem[i].attr
        BY <1>6, <3>1
      <4> QED
        BY <1>0, <1>4, <4>1 DEF AttrKept
    <3>2. CASE file.layout = "ByAdiosAttributes" /\ file.attributes[i] = mem[i].attr
      BY <1>0, <1>1, <1>2, <3>2 DEF AttrKept
    <3>3. CASE \E k \in DOMAIN file.steps : file.steps[k].attr[i] = mem[i].attr
      BY <1>0, <1>4, <3>3 DEF AttrKept
    <3> QED
      BY <2>2, <3>1, <3>2, <3>3 DEF AttrKept
  <2> QED
    BY <1>0, <2>1, <2>2 DEF Obeyed
<1>13. PlacesInv'
  <2>1. ASSUME NEW i \in Iter PROVE PlaceOK(i)'
    <3>1. PlaceOK(i)
      BY <1>7
    <3>2. Open(i)' <=> Open(i)
      BY <1>0 DEF Open
    <3>3. Unpublished(i)' => Open(i) /\ i \notin iterations
      BY <1>0, <1>3, <3>2 DEF Unpublished
    <3>4. Open(i) => i \notin iterations
      BY <1>3
    <3>5. i \notin iterations => file.attributes[i] = 0 /\ file.m_attributeWrites[i] = 0
      BY <3>1 DEF PlaceOK
    <3>6. i \notin iterations /\ Open(i) => p.data[i] = 0 /\ p.attr[i] = 0
      <4>1. i \notin iterations => p.attr[i] = 0
        BY <1>6, <3>5
      <4>2. i \notin iterations => p.data[i] = 0
        BY <1>3, <1>11
      <4> QED
        BY <4>1, <4>2
    <3>7. Unpublished(i)' => \A k \in DOMAIN file'.steps :
                               file'.steps[k].data[i] = 0 /\ file'.steps[k].attr[i] = 0
      <4>1. ASSUME Unpublished(i)', NEW k \in DOMAIN file'.steps
            PROVE  file'.steps[k].data[i] = 0 /\ file'.steps[k].attr[i] = 0
        <5>1. Open(i) /\ i \notin iterations
          BY <3>3, <4>1
        <5>2. CASE k \in DOMAIN file.steps
          BY <1>4, <3>1, <5>1, <5>2 DEF PlaceOK, Unpublished
        <5>3. CASE k = n
          BY <1>4, <3>6, <5>1, <5>3
        <5> QED
          BY <1>4, <4>1, <5>2, <5>3
      <4> QED
        BY <4>1
    <3> QED
      BY <1>0, <1>1, <1>5, <3>2, <3>4, <3>5, <3>7 DEF PlaceOK
  <2>2. file'.step.attr = NoAttributes /\ Stepwise'
    BY <1>1 DEF EmptyStep, Stepwise
  <2> QED
    BY <2>1, <2>2 DEF PlacesInv
<1>14. StepsInv'
  <2>1. /\ Len(finished) = n
        /\ \A k \in DOMAIN file.steps : publishedAs(k, finished[k])
    BY <1>0 DEF StepsInv, n
  <2>2. finished[n] = Closing
    BY <1>0, <2>1 DEF LastClosed, Ending
  <2>3. Closing.it = e /\ Closing.data = mem[e].data /\ Closing.attr = mem[e].attr
    BY DEF Closing, e
  <2>4. ASSUME NEW k \in DOMAIN file'.steps, NEW c, c = finished[k]
        PROVE  /\ file'.steps[k].data[c.it] = c.data
               /\ file'.steps[k].attr[c.it] = c.attr
               /\ \A j \in Iter \ {c.it} : file'.steps[k].data[j] = 0
    <3>1. CASE k \in DOMAIN file.steps
      BY <1>4, <2>1, <2>4, <3>1 DEF publishedAs
    <3>2. CASE k = n
      BY <1>4, <1>10, <1>11, <2>2, <2>3, <2>4, <3>2
    <3> QED
      BY <1>4, <2>4, <3>1, <3>2
  <2> QED
    BY <1>0, <1>4, <2>1, <2>4 DEF StepsInv, publishedAs
<1> QED
  BY <1>12, <1>13, <1>14

\* ADVANCE begins a step, ends one, or flushes a file without steps.
LEMMA AdvanceObeys ==
  ASSUME Inv, DeliveryInv, Execute, NEW t, t = Head(m_work), t.op = "ADVANCE"
  PROVE  Obeyed(t) /\ PlacesInv' /\ StepsInv'
<1>0. /\ AdvanceInv /\ StepInv /\ phase = "last" /\ file.m_buffer = NoChunks /\ Good(file)
      /\ Advancing /\ m_work \in Seq(IOTask) /\ m_work # <<>> /\ file' = effect(t)
      /\ t \in IOTask
  BY Taken
<1>1. file' = advance(file, t.mode) /\ t.mode \in Modes
  BY <1>0 DEF effect, IOTask
<1>2. 1 \in DOMAIN m_work /\ t = m_work[1]
  BY <1>0
<1>3. t.mode = ModeOf(call.op) /\ call.op \in {"begin", "end"}
  BY <1>0, <1>2 DEF AdvanceInv
<1>4. CASE call.op = "begin"
  <2>1. t.mode = "BEGINSTEP"
    BY <1>3, <1>4 DEF ModeOf
  <2>2. SameContents(file, file') /\ SameBuffers(file, file') /\ file'.step = file.step
    BY <1>0, <1>1, <2>1, Begun
  <2>3. SameEngine(file, file')
    BY <1>0, <1>1, <2>1, AdvanceGood
  <2>4. ~Ending
    BY <1>4 DEF Ending
  <2> QED
    BY <2>2, <2>3, <2>4, SameFileObeys
<1>5. CASE call.op = "end"
  <2>1. t.mode = "ENDSTEP"
    BY <1>3, <1>5 DEF ModeOf
  <2>2. file.streamStatus \in {"DuringStep", "NoStream"}
    BY <1>0, <1>5 DEF StepInv, Advanced, Good, File, WriterStatus
  <2>3. CASE file.streamStatus = "DuringStep"
    BY <1>1, <1>5, <2>1, <2>3, EndObeys
  <2>4. CASE file.streamStatus = "NoStream"
    <3>1. /\ file \in File /\ file.fault = "none" /\ file.advanceStatus = "OK"
          /\ file.step = [attr |-> file.step.attr, data |-> file.step.data]
          /\ file.step.data \in [Iter -> Version]
      BY <1>0 DEF Good, File, Step
    <3>2. [file EXCEPT !.advanceStatus = "OK"] = file
      BY <3>1 DEF File
    <3>3. file' = flush(file, "putget", FALSE, FALSE)
      BY <1>1, <2>4, <3>1, <3>2 DEF advance, advanceEngine, faulty
    <3>4. /\ SameContents(file, file') /\ file'.m_buffer = NoChunks
          /\ file'.m_attributeWrites = file.m_attributeWrites
          /\ file'.step = [attr |-> file.step.attr, data |-> Merge(file.step.data, file.m_buffer)]
      BY <1>0, <3>3, Gathered
    <3>5. file'.step = file.step /\ SameBuffers(file, file')
      BY <1>0, <3>1, <3>4, MergeNothing DEF SameBuffers
    <3>6. SameEngine(file, file')
      BY <1>0, <1>1, <2>1, <2>2, AdvanceGood DEF Modes
    <3> QED
      BY <2>4, <3>4, <3>5, <3>6, SameFileObeys DEF Stepwise
  <2> QED
    BY <2>2, <2>3, <2>4
<1> QED
  BY <1>3, <1>4, <1>5

\* The first task of the queue is run.
LEMMA ExecuteDelivers ==
  ASSUME Inv, DeliveryInv, Execute
  PROVE  DeliveryInv'
<1> PICK t : t = Head(m_work)
  OBVIOUS
<1>0. /\ LoopInv /\ CallInv /\ TasksInv /\ ChainInv /\ ClosedOnce /\ LastClosed
      /\ m_work \in Seq(IOTask) /\ m_work # <<>> /\ m_work' = Tail(m_work)
      /\ t \in IOTask /\ file' = effect(t) /\ Good(file) /\ phase # "flush"
      /\ ~Ending' /\ (t.op # "ADVANCE" => ~Ending)
      /\ UNCHANGED <<iterations, m_closed, dirty, pending, mem, currentlyOpen, phase, call,
                     todo, m_stepStatus, finished>>
  BY Taken DEF Ending
<1>1. Obeyed(t) /\ PlacesInv' /\ StepsInv'
  <2>1. CASE t.op \in {"CREATE_FILE", "CREATE_PATH"}
    <3>1. file' = file
      BY <1>0, <2>1 DEF effect
    <3> QED
      BY <1>0, <2>1, <3>1, SameFileObeys DEF SameContents, SameBuffers, SameEngine
  <2>2. CASE t.op = "WRITE_DATASET"
    BY <2>2, WriteDatasetObeys
  <2>3. CASE t.op = "WRITE_ATT"
    BY <2>3, WriteAttributeObeys
  <2>4. CASE t.op = "ADVANCE"
    BY <2>4, AdvanceObeys
  <2>5. CASE t.op = "CLOSE_PATH"
    BY <2>5, ClosePathObeys
  <2> QED
    BY <1>0, <2>1, <2>2, <2>3, <2>4, <2>5 DEF IOTask, Operation
<1>2. LoopInv'
  BY <1>0 DEF LoopInv, Open
<1>3. CallInv'
  BY <1>0 DEF CallInv, Refused, Open
<1>4. TasksInv'
  <2>1. \A k \in DOMAIN m_work' : k + 1 \in DOMAIN m_work /\ m_work'[k] = m_work[k + 1]
    BY <1>0
  <2>2. ASSUME NEW s, TaskOK(s) PROVE TaskOK(s)'
    BY <1>0, <2>2 DEF TaskOK, Open
  <2>3. ASSUME NEW k \in DOMAIN m_work'
        PROVE  \E s : s = m_work'[k] /\ TaskOK(s)'
    <3>1. TaskOK(m_work[k + 1])
      BY <1>0, <2>1 DEF TasksInv
    <3> QED
      BY <2>1, <2>2, <3>1
  <2> QED
    BY <2>3 DEF TasksInv, TaskOK
<1>5. ChainInv'
  <2>1. ASSUME NEW i \in Iter PROVE DataChain(i)' /\ AttrChain(i)'
    <3>1. DataChain(i) /\ AttrChain(i)
      BY <1>0 DEF ChainInv
    <3>2. \A op, v : LastIs(m_work, op, i, v) =>
                       \/ LastIs(m_work', op, i, v)
                       \/ t = VersionTask(op, i, v) /\ ~HasTask(m_work', op, i)
      BY <1>0, OneLess
    <3>3. \A op : ~HasTask(m_work, op, i) => ~HasTask(m_work', op, i) /\ ~IsTask(t, op, i)
      BY <1>0, OneLess
    <3>4. DataChain(i)'
      <4>1. /\ DataKept(i) /\ ~IsTask(t, "WRITE_DATASET", i) => DataKept(i)'
            /\ t = VersionTask("WRITE_DATASET", i, mem[i].data) => DataKept(i)'
        BY <1>1 DEF Obeyed
      <4> QED
        BY <1>0, <3>1, <3>2, <3>3, <4>1 DEF DataChain
    <3>5. AttrChain(i)'
      <4>1. /\ AttrKept(i) /\ ~IsTask(t, "WRITE_ATT", i) => AttrKept(i)'
            /\ t = VersionTask("WRITE_ATT", i, mem[i].attr) => AttrKept(i)'
        BY <1>1 DEF Obeyed
      <4> QED
        BY <1>0, <3>1, <3>2, <3>3, <4>1 DEF AttrChain
    <3> QED
      BY <3>4, <3>5
  <2> QED
    BY <2>1 DEF ChainInv
<1>6. ClosedOnce' /\ LastClosed'
  BY <1>0 DEF ClosedOnce, LastClosed, Open, Closing
<1> QED
  BY <1>1, <1>2, <1>3, <1>4, <1>5, <1>6 DEF DeliveryInv

-----------------------------------------------------------------------------
(* Theorems.                                                               *)

\* Every step of a writer that writes its iterations in order keeps the
\* invariant.
LEMMA DeliveryNext ==
  ASSUME Extras = {}, Inv, DeliveryInv, [WriterNext]_writerVars
  PROVE  DeliveryInv'
<1>1. CASE Modify
  BY <1>1, ModifyDelivers
<1>2. CASE CallAPI
  <2>1. CASE Flush \/ Destroy
    BY <2>1, FlushDelivers
  <2>2. ASSUME NEW i \in Iter, SwitchTo(i) PROVE DeliveryInv'
    BY <2>2, SwitchToDelivers
  <2>3. ASSUME NEW i \in Iter, NEW now \in BOOLEAN, Close(i, now) PROVE DeliveryInv'
    <3>1. /\ phase = "idle" /\ i \in iterations /\ now = TRUE
          /\ closeIteration(i, TRUE, None) /\ UNCHANGED <<iterations, currentlyOpen>>
      BY <2>3 DEF Close, Idle
    <3> QED
      BY <3>1, CloseDelivers
  <2> QED
    BY <1>2, <2>1, <2>2, <2>3 DEF CallAPI
<1>3. CASE Internal
  <2>1. ASSUME NEW i \in Iter, Reject(i) \/ SkipClosed(i) \/ WriteIteration(i)
        PROVE  DeliveryInv'
    BY <2>1, RejectDelivers, SkipClosedDelivers, WriteIterationDelivers
  <2> QED
    BY <1>3, <2>1, LoopDoneDelivers, ExecuteDelivers, SettleDelivers, AdvanceDelivers,
       ReturnDelivers, ReturnToLoopDelivers DEF Internal
<1>4. CASE UNCHANGED writerVars
  <2>1. UNCHANGED <<file, m_work, iterations, m_closed, dirty, pending, mem, currentlyOpen,
                    phase, call, todo, m_stepStatus, finished>>
    BY <1>4 DEF writerVars, backendVars, objects, user, control
  <2>2. LoopInv' /\ CallInv'
    <3>1. LoopInv'
      BY <2>1 DEF DeliveryInv, LoopInv, Open
    <3>2. CallInv'
      BY <2>1 DEF DeliveryInv, CallInv, Refused, Open
    <3> QED
      BY <3>1, <3>2
  <2>3. TasksInv' /\ ClosedOnce' /\ LastClosed'
    BY <2>1 DEF DeliveryInv, TasksInv, TaskOK, ClosedOnce, LastClosed, Closing, Open
  <2>4. ChainInv'
    BY <2>1 DEF DeliveryInv, ChainInv, DataChain, AttrChain, DataKept, AttrKept
  <2>5. PlacesInv'
    BY <2>1 DEF DeliveryInv, PlacesInv, PlaceOK, Unpublished, Ending, Advancing, Stepwise, Open
  <2>6. StepsInv'
    BY <2>1 DEF DeliveryInv, StepsInv, publishedAs, Ending, Advancing, Stepwise
  <2> QED
    BY <2>2, <2>3, <2>4, <2>5, <2>6 DEF DeliveryInv
<1> QED
  BY <1>1, <1>2, <1>3, <1>4 DEF WriterNext

\* Where the invariant holds, nothing is forgotten.
LEMMA DeliveryKeepsAll ==
  ASSUME Inv, DeliveryInv
  PROVE  NothingForgotten
<1>1. ASSUME NEW i \in iterations
      PROVE  dataOnItsWay(i) /\ attrOnItsWay(i)
  <2>0. i \in Iter
    BY DEF Inv, FrontendTypeOK
  <2>1. DataChain(i) /\ AttrChain(i)
    BY <2>0 DEF DeliveryInv, ChainInv
  <2>2. ASSUME NEW op, NEW v, LastIs(m_work, op, i, v)
        PROVE  Queued(VersionTask(op, i, v))
    <3>1. PICK k \in DOMAIN m_work : m_work[k] = VersionTask(op, i, v)
      BY <2>2 DEF LastIs
    <3> QED
      BY <3>1 DEF Queued
  <2>3. DataKept(i) => dataOnItsWay(i)
    BY DEF DataKept, dataOnItsWay
  <2>4. AttrKept(i) => attrOnItsWay(i)
    BY DEF AttrKept, attrOnItsWay
  <2>5. dataOnItsWay(i)
    BY <2>1, <2>2, <2>3 DEF DataChain, dataOnItsWay
  <2>6. attrOnItsWay(i)
    BY <2>1, <2>2, <2>4 DEF AttrChain, attrOnItsWay
  <2> QED
    BY <2>5, <2>6
<1> QED
  BY <1>1 DEF NothingForgotten

\* The n-th step of a file with steps is the n-th iteration that was closed, and
\* each iteration is closed once.
LEMMA DeliveryPublishes ==
  ASSUME Inv, DeliveryInv
  PROVE  PublishedAtomically
<1>1. ASSUME Idle, file.declaresSteps, NEW n \in DOMAIN finished
      PROVE  /\ n \in DOMAIN file.steps /\ publishedAs(n, finished[n])
             /\ \A l \in DOMAIN file.steps \ {n} : file.steps[l].data[finished[n].it] = 0
  <2>0. /\ file \in File /\ Agrees(file) /\ phase # "destroyed" /\ ~Ending
        /\ finished \in Seq([it : Iter, attr : Version, data : Version])
    BY <1>1 DEF Idle, Ending, Inv, FileInv, FrontendTypeOK
  <2>1. Stepwise
    BY <1>1, <2>0 DEF Agrees, Stepwise, File
  <2>2. /\ Len(finished) = Len(file.steps) + 0
        /\ \A l \in DOMAIN file.steps : publishedAs(l, finished[l])
    BY <2>0, <2>1 DEF DeliveryInv, StepsInv
  <2>3. DOMAIN finished = DOMAIN file.steps /\ finished[n].it \in Iter
    <3>1. file.steps \in Seq(Step)
      BY <2>0 DEF File
    <3>2. DOMAIN finished = DOMAIN file.steps
      BY <2>0, <2>2, <3>1
    <3> DEFINE R == [it : Iter, attr : Version, data : Version]
    <3>3. finished \in Seq(R) /\ n \in DOMAIN finished
      BY <1>1, <2>0
    <3>4. finished[n] \in R
      <4> HIDE DEF R
      <4> QED
        BY <3>3
    <3> QED
      BY <3>2, <3>4
  <2>4. ASSUME NEW l \in DOMAIN file.steps \ {n}
        PROVE  file.steps[l].data[finished[n].it] = 0
    <3>1. finished[n].it # finished[l].it
      BY <1>1, <2>3 DEF DeliveryInv, ClosedOnce
    <3> QED
      BY <2>2, <2>3, <3>1 DEF publishedAs
  <2> QED
    BY <1>1, <2>2, <2>3, <2>4
<1> QED
  BY <1>1 DEF PublishedAtomically

\* The writer of a stream is the writer of the group-based Series.
LEMMA StreamDelivers ==
  ASSUME Extras = {}
  PROVE  StreamSpec => [](Inv /\ DeliveryInv)
<1>1. StreamInit => Inv /\ DeliveryInv
  BY InvInit, DeliveryInit DEF StreamInit
<1>2. Inv /\ DeliveryInv /\ [StreamNext]_vars => (Inv /\ DeliveryInv)'
  <2>1. [StreamNext]_vars => [WriterNext]_writerVars
    BY DEF StreamNext, Writing, Reading, vars
  <2> QED
    BY <2>1, InvNext, DeliveryNext
<1> QED
  BY <1>1, <1>2, PTL DEF StreamSpec

\* When iterations are written one after the other and nothing else is done to
\* the Series, every version the user wrote is in the file or something still
\* knows that it has to be written: the dirty bits, the queue of the handler, the
\* buffered actions, or the engine's step.  Iteration::close, the flush loop,
\* ADVANCE and CLOSE_PATH hand it on without a gap.
THEOREM NothingIsForgotten ==
  ASSUME Extras = {}
  PROVE  StreamSpec => []NothingForgotten
<1>1. Inv /\ DeliveryInv => NothingForgotten
  BY DeliveryKeepsAll
<1> QED
  BY <1>1, StreamDelivers, PTL

\* "Each iteration will be published as one atomic step": of such a writer, with
\* steps in use, the n-th step holds all of the n-th iteration that was closed,
\* as it was then, and nothing of any other.
THEOREM StepsArePublished ==
  ASSUME Extras = {}
  PROVE  StreamSpec => []PublishedAtomically
<1>1. Inv /\ DeliveryInv => PublishedAtomically
  BY DeliveryPublishes
<1> QED
  BY <1>1, StreamDelivers, PTL

-----------------------------------------------------------------------------
(* What the steps tell of the iterations that were closed, up to the end    *)
(* of the file.                                                             *)

\* A file in the attribute layout keeps the attributes of earlier steps.
Cumulative == file.layout = "ByAdiosAttributes" /\ ~file.streaming

\* The n-th step tells of the m-th iteration that was closed.
TellsData(n, m) == ~Stepwise \/ m = n
TellsAttr(n, m) == ~Stepwise \/ m = n \/ (Cumulative /\ m < n)

\* What the n-th step tells is true, and it tells of nothing else.
Faithful(s, n) ==
  /\ \A m \in DOMAIN finished :
       /\ TellsData(n, m) => s.data[finished[m].it] = finished[m].data
       /\ TellsAttr(n, m) => s.attr[finished[m].it] = finished[m].attr
  /\ \A i \in Iter :
       /\ s.data[i] # 0 => \E m \in DOMAIN finished : TellsData(n, m) /\ finished[m].it = i
       /\ s.attr[i] # 0 => \E m \in DOMAIN finished : TellsAttr(n, m) /\ finished[m].it = i

FaithfulInv == \A n \in DOMAIN file.steps : Faithful(file.steps[n], n)

\* Iterations are closed in the order of their indices, and none is left out.
SentInv ==
  /\ \A i \in iterations : Open(i) \/ \E m \in DOMAIN finished : finished[m].it = i
  /\ \A m, n \in DOMAIN finished : m < n => finished[m].it < finished[n].it
  /\ \A m \in DOMAIN finished : finished[m].attr # 0
  /\ \A i, j \in iterations : Open(i) /\ ~Open(j) => j < i
  /\ call.next # None => call.next \in iterations \/ \A j \in iterations : j < call.next

\* A step without iterations may come last, with changes of the Series.
CountInv ==
  /\ file.streaming => Stepwise
  /\ Stepwise /\ ~file.finalized => Len(file.steps) <= Len(finished)
  /\ Stepwise /\ file.finalized => Len(file.steps) \in {Len(finished), Len(finished) + 1}
  /\ ~Stepwise => Len(file.steps) = IF file.finalized THEN 1 ELSE 0
  /\ file.finalized => (file.declaresSteps <=> Stepwise)

\* CLOSE_PATH is still to make a streaming engine forget the attributes.
Sending(i) == phase = "last" /\ call.op = "end" /\ i = call.it /\ HasTask(m_work, "CLOSE_PATH", i)

\* What is kept of a closed iteration for the steps to come.
KeptClosed(c) ==
  /\ Cumulative => file.attributes[c.it] = c.attr
  /\ ~Stepwise => file.step.data[c.it] = c.data
  /\ ~Stepwise /\ file.layout = "ByAdiosVariables" => file.m_attributeWrites[c.it] = c.attr

\* Nothing else is kept than what is known or is still to be published.
KeptOnly(i) ==
  /\ ~Stepwise /\ file.step.data[i] # 0 => i \in iterations
  /\ Stepwise /\ file.m_attributeWrites[i] # 0 => Unpublished(i)
  /\ file.layout = "ByAdiosAttributes" /\ file.streaming /\ file.attributes[i] # 0 =>
       Open(i) \/ Sending(i)

KeptInv == phase # "destroyed" =>
  /\ \A m \in DOMAIN finished : KeptClosed(finished[m])
  /\ \A i \in Iter : KeptOnly(i)

ArchiveInv == SentInv /\ CountInv /\ FaithfulInv /\ KeptInv

\* At first nothing was closed.
LEMMA ArchiveInit ==
  ASSUME Init
  PROVE  ArchiveInv
<1>0. /\ file = newFile(engine, "Write") /\ engine \in Engines /\ finished = <<>>
      /\ iterations = {} /\ call = NoCall
  BY ConfigsAssumption DEF Init
<1>1. /\ file.steps = <<>> /\ ~file.finalized /\ (file.streaming => Stepwise)
      /\ file.step = EmptyStep /\ file.m_attributeWrites = NoAttributes
      /\ file.attributes = NoAttributes
  BY <1>0 DEF newFile, Stepwise, Engines
<1>2. SentInv
  BY <1>0 DEF SentInv, NoCall
<1>3. CountInv /\ FaithfulInv
  BY <1>0, <1>1 DEF CountInv, FaithfulInv
<1>4. ASSUME NEW i \in Iter PROVE KeptOnly(i)
  <2>1. /\ EmptyStep.data[i] = 0 /\ NoAttributes[i] = 0
    BY DEF EmptyStep, NoChunks, NoAttributes, Owner
  <2> QED
    BY <1>1, <2>1 DEF KeptOnly
<1>5. KeptInv
  BY <1>0, <1>4 DEF KeptInv
<1> QED
  BY <1>2, <1>3, <1>5 DEF ArchiveInv

\* What was closed stays behind the iterations that are added.
LEMMA SentStays ==
  ASSUME Inv, DeliveryInv, SentInv, UNCHANGED finished,
         \A i \in Iter : Open(i)' <=> Open(i),
         \/ iterations' = iterations
         \/ \E i \in Iter : /\ iterations' = iterations \cup {i}
                            /\ i \in iterations \/ \A j \in iterations : j < i,
         call'.next # None =>
           call'.next \in iterations' \/ \A j \in iterations' : j < call'.next
  PROVE  SentInv'
<1>0. iterations \subseteq Iter /\ \A i \in Iter \ iterations : Open(i)
  BY DEF Inv, DeliveryInv, FrontendTypeOK, LoopInv
<1>1. iterations \subseteq iterations' /\ iterations' \subseteq Iter
  BY <1>0
<1>2. ASSUME NEW i \in iterations', ~Open(i)'
      PROVE  \E m \in DOMAIN finished' : finished'[m].it = i
  BY <1>0, <1>1, <1>2 DEF SentInv
<1>3. ASSUME NEW i \in iterations', NEW j \in iterations', Open(i)', ~Open(j)'
      PROVE  j < i
  <2>1. j \in iterations /\ i \in Iter /\ j \in Iter /\ Open(i) /\ ~Open(j)
    BY <1>0, <1>1, <1>3
  <2>2. CASE i \in iterations
    BY <2>1, <2>2 DEF SentInv
  <2>3. CASE i \notin iterations
    BY <2>1, <2>3
  <2> QED
    BY <2>2, <2>3
<1> QED
  BY <1>2, <1>3 DEF SentInv, Open

\* As long as the file and what is open stay as they are, it holds what it held.
LEMMA Undisturbed ==
  ASSUME Inv, DeliveryInv, ArchiveInv, phase \notin {"last", "destroyed"},
         UNCHANGED <<file, finished>>,
         \A i \in Iter : Open(i)' <=> Open(i),
         \/ iterations' = iterations
         \/ \E i \in Iter : /\ iterations' = iterations \cup {i}
                            /\ i \in iterations \/ \A j \in iterations : j < i,
         call'.next # None =>
           call'.next \in iterations' \/ \A j \in iterations' : j < call'.next
  PROVE  ArchiveInv'
<1>0. SentInv /\ CountInv /\ FaithfulInv /\ KeptInv /\ iterations \subseteq iterations'
  BY DEF ArchiveInv
<1>1. SentInv'
  BY <1>0, SentStays
<1>2. CountInv'
  BY <1>0 DEF CountInv, Stepwise
<1>3. FaithfulInv'
  BY <1>0 DEF FaithfulInv, Faithful, TellsData, TellsAttr, Cumulative, Stepwise
<1>4. ASSUME NEW m \in DOMAIN finished, NEW c, c = finished[m]
      PROVE  KeptClosed(c)'
  <2>1. KeptClosed(c)
    BY <1>0, <1>4 DEF KeptInv
  <2> QED
    BY <2>1 DEF KeptClosed, Cumulative, Stepwise
<1>5. ASSUME NEW i \in Iter
      PROVE  KeptOnly(i)'
  <2>1. KeptOnly(i)
    BY <1>0 DEF KeptInv
  <2> QED
    BY <1>0, <2>1 DEF KeptOnly, Stepwise, Unpublished, Ending, Sending
<1>6. KeptInv'
  BY <1>4, <1>5 DEF KeptInv, KeptClosed
<1> QED
  BY <1>1, <1>2, <1>3, <1>6 DEF ArchiveInv

\* What the user does between two calls.
LEMMA ModifyArchives ==
  ASSUME Extras = {}, Inv, DeliveryInv, ArchiveInv, Modify
  PROVE  ArchiveInv'
<1>1. /\ phase = "idle" /\ phase' = "idle"
      /\ UNCHANGED <<call, file, finished, m_closed, iterations>>
  BY DEF Modify, SetAttribute, StoreChunk, Insert, SetSeriesAttribute, change, Idle, backendVars
<1>2. /\ \A i \in Iter : Open(i)' <=> Open(i)
      /\ call.next # None => call.next \in iterations \/ \A j \in iterations : j < call.next
  BY <1>1 DEF Open, ArchiveInv, SentInv
<1> QED
  BY <1>1, <1>2, Undisturbed

\* Series::flush, and the destructor's.
LEMMA FlushArchives ==
  ASSUME Inv, DeliveryInv, ArchiveInv, Flush \/ Destroy
  PROVE  ArchiveInv'
<1>1. /\ phase = "idle" /\ phase' = "flush" /\ call'.next = None
      /\ UNCHANGED <<file, finished, m_closed, iterations>>
  BY DEF Flush, Destroy, startFlush, Idle, backendVars, objects
<1> QED
  BY <1>1, Undisturbed DEF Open

\* Iteration::close before its flush.
LEMMA CloseArchives ==
  ASSUME Inv, DeliveryInv, ArchiveInv, phase = "idle", NEW i \in iterations,
         NEW next \in Iter \cup {None}, closeIteration(i, TRUE, next),
         UNCHANGED <<iterations, currentlyOpen>>,
         next # None => next \in iterations \/ \A j \in iterations : j < next
  PROVE  ArchiveInv'
<1>0. /\ FrontendTypeOK /\ LoopInv /\ i \in Iter
      /\ \A j \in iterations : Open(j) => j = currentlyOpen /\ m_stepStatus = "DuringStep"
      /\ m_closed[i] \in {"Open", "ClosedInBackend"} /\ m_closed \in [Iter -> CloseStatus]
  BY BetweenCalls DEF FrontendTypeOK
<1>1. /\ UNCHANGED <<file, finished>>
      /\ \/ /\ m_stepStatus = "DuringStep" /\ Open(i)
            /\ startStep("end", i, "ClosedInFrontend", next)
         \/ /\ m_stepStatus = "DuringStep" /\ ~Open(i)
            /\ startStep("end", i, "ClosedInBackend", next)
         \/ /\ m_stepStatus # "DuringStep" /\ ~Open(i)
            /\ startFlush("close", i, "Open", next, {i})
            /\ m_closed' = [m_closed EXCEPT ![i] = "ClosedInBackend"]
  BY <1>0 DEF closeIteration, Open, backendVars
<1>2. phase' = "flush" /\ call'.next = next /\ UNCHANGED m_closed
  BY <1>0, <1>1 DEF startStep, startFlush, Open
<1> QED
  BY <1>1, <1>2, Undisturbed DEF Open

\* A step is begun for an iteration behind all others, or for a known one.
LEMMA BeginArchives ==
  ASSUME Inv, DeliveryInv, ArchiveInv, phase \in {"idle", "return"}, NEW i \in Iter,
         startStep("begin", i, m_closed[i], None), iterations' = iterations \cup {i},
         i \in iterations \/ \A j \in iterations : j < i,
         UNCHANGED <<file, finished>>
  PROVE  ArchiveInv'
<1>1. m_closed[i] # "ClosedInFrontend" /\ m_closed \in [Iter -> CloseStatus]
  BY DEF Inv, DeliveryInv, LoopInv, FrontendTypeOK
<1>2. phase' = "flush" /\ call'.next = None /\ UNCHANGED m_closed
  BY <1>1 DEF startStep, startFlush
<1> QED
  BY <1>2, Undisturbed DEF Open

\* WriteIterations::operator[].
LEMMA SwitchToArchives ==
  ASSUME Extras = {}, Inv, DeliveryInv, ArchiveInv, NEW i \in Iter, SwitchTo(i)
  PROVE  ArchiveInv'
<1>0. /\ phase = "idle" /\ (i \in iterations \/ \A j \in iterations : j < i)
  BY DEF SwitchTo, Idle, inOrder
<1>1. CASE currentlyOpen # None /\ currentlyOpen # i /\ ~closed(currentlyOpen)
  <2>1. closeIteration(currentlyOpen, TRUE, i) /\ UNCHANGED <<iterations, currentlyOpen>>
    BY <1>1 DEF SwitchTo
  <2>2. currentlyOpen \in iterations
    BY <1>1 DEF DeliveryInv, LoopInv
  <2> QED
    BY <1>0, <2>1, <2>2, CloseArchives
<1>2. CASE ~(currentlyOpen # None /\ currentlyOpen # i /\ ~closed(currentlyOpen))
  <2>1. select(i) /\ UNCHANGED <<file, finished>> /\ iterations' = iterations \cup {i}
    BY <1>2 DEF SwitchTo, backendVars, select
  <2>2. CASE startStep("begin", i, m_closed[i], None)
    BY <1>0, <2>1, <2>2, BeginArchives
  <2>3. CASE phase' = "idle" /\ call' = NoCall /\ UNCHANGED m_closed
    BY <1>0, <2>1, <2>3, Undisturbed DEF Open, NoCall
  <2> QED
    BY <2>1, <2>2, <2>3 DEF select
<1> QED
  BY <1>1, <1>2

\* operator[] goes on to the iteration it was called for.
LEMMA ReturnToLoopArchives ==
  ASSUME Inv, DeliveryInv, ArchiveInv, ReturnToLoop
  PROVE  ArchiveInv'
<1>1. /\ phase = "return" /\ call.next # None /\ call.next \in Iter
      /\ startStep("begin", call.next, m_closed[call.next], None)
      /\ iterations' = iterations \cup {call.next}
      /\ UNCHANGED <<file, finished>>
  BY DEF ReturnToLoop, afterCall, backendVars, Inv, FrontendTypeOK, Call
<1>2. call.next \in iterations \/ \A j \in iterations : j < call.next
  BY <1>1 DEF ArchiveInv, SentInv
<1> QED
  BY <1>1, <1>2, BeginArchives

\* The flush loop.
LEMMA LoopArchives ==
  ASSUME Inv, DeliveryInv, ArchiveInv,
         LoopDone \/ \E i \in Iter : SkipClosed(i) \/ WriteIteration(i)
  PROVE  ArchiveInv'
<1>0. call.next # None => call.next \in iterations \/ \A j \in iterations : j < call.next
  BY DEF ArchiveInv, SentInv
<1>1. CASE LoopDone
  <2>1. phase = "flush" /\ phase' = "drain" /\ UNCHANGED <<call, file, finished, m_closed, iterations>>
    BY <1>1 DEF LoopDone, backendVars
  <2> QED
    BY <1>0, <2>1, Undisturbed DEF Open
<1>2. ASSUME NEW i \in Iter, SkipClosed(i)
      PROVE  ArchiveInv'
  <2>1. phase = "flush" /\ phase' = "flush" /\ UNCHANGED <<call, file, finished, m_closed, iterations>>
    BY <1>2 DEF SkipClosed, Reached, backendVars, objects
  <2> QED
    BY <1>0, <2>1, Undisturbed DEF Open
<1>3. ASSUME NEW i \in Iter, WriteIteration(i)
      PROVE  ArchiveInv'
  <2>1. /\ phase = "flush" /\ phase' = "flush" /\ UNCHANGED <<call, file, finished, iterations>>
        /\ m_closed' = [m_closed EXCEPT ![i] =
                          IF @ = "ClosedInFrontend" THEN "ClosedInBackend" ELSE @]
    BY <1>3 DEF WriteIteration, Reached, backendVars
  <2>2. m_closed[i] # "ClosedInFrontend" /\ m_closed \in [Iter -> CloseStatus]
    BY DEF Inv, DeliveryInv, LoopInv, FrontendTypeOK
  <2>3. UNCHANGED m_closed
    BY <2>1, <2>2
  <2> QED
    BY <1>0, <2>1, <2>3, Undisturbed DEF Open
<1> QED
  BY <1>1, <1>2, <1>3

\* An iteration that was closed in a step.
LEMMA ClosedOnes ==
  ASSUME Inv, DeliveryInv, NEW m \in DOMAIN finished
  PROVE  /\ finished[m] \in [it : Iter, attr : Version, data : Version]
         /\ finished[m].it \in iterations /\ ~Open(finished[m].it)
         /\ m \in 1 .. Len(finished)
<1> DEFINE R == [it : Iter, attr : Version, data : Version]
<1>1. finished \in Seq(R)
  BY DEF Inv, FrontendTypeOK
<1>2. finished[m].it \in iterations /\ ~Open(finished[m].it)
  BY DEF DeliveryInv, ClosedOnce
<1>3. finished[m] \in R /\ m \in 1 .. Len(finished)
  <2> HIDE DEF R
  <2> QED
    BY <1>1
<1> QED
  BY <1>2, <1>3

\* What the archive needs of a file that has published nothing more.
LEMMA NothingPublished ==
  ASSUME SentInv, CountInv, FaithfulInv, ~file.finalized, ~file'.finalized,
         file'.steps = file.steps, file'.layout = file.layout,
         file'.streaming = file.streaming, Stepwise' <=> Stepwise,
         UNCHANGED <<finished, iterations, m_closed, call>>
  PROVE  SentInv' /\ CountInv' /\ FaithfulInv'
<1>1. SentInv'
  BY DEF SentInv, Open
<1>2. CountInv'
  BY DEF CountInv
<1>3. FaithfulInv'
  BY DEF FaithfulInv, Faithful, TellsData, TellsAttr, Cumulative
<1> QED
  BY <1>1, <1>2, <1>3

\* A flush of the file touches the data of the open iteration.
LEMMA SettleArchives ==
  ASSUME Inv, DeliveryInv, ArchiveInv, Settle
  PROVE  ArchiveInv'
<1>0. /\ PlacesInv /\ ClosedOnce /\ SentInv /\ CountInv /\ FaithfulInv /\ KeptInv
      /\ phase \in {"drain", "last"} /\ phase' \in {"advance", "return"} /\ m_work = <<>>
      /\ file' = flush(file, "putget", FALSE, FALSE)
      /\ UNCHANGED <<iterations, m_closed, call, finished>>
      /\ finished \in Seq([it : Iter, attr : Version, data : Version])
  BY DEF DeliveryInv, ArchiveInv, Settle, Draining, flushed, objects, Inv, FrontendTypeOK
<1>1. /\ Good(file) /\ ~file.finalized
  BY <1>0 DEF Inv, FileInv, Good
<1>2. /\ SameContents(file, file') /\ SameEngine(file, file')
      /\ file'.m_attributeWrites = file.m_attributeWrites
      /\ file'.step = [attr |-> file.step.attr, data |-> Merge(file.step.data, file.m_buffer)]
  BY <1>0, <1>1, Gathered, FlushPutGet
<1>3. /\ file'.steps = file.steps /\ file'.layout = file.layout /\ (Stepwise' <=> Stepwise)
      /\ file'.streaming = file.streaming /\ file'.attributes = file.attributes
      /\ ~file'.finalized
  BY <1>1, <1>2 DEF SameContents, SameEngine, Stepwise
<1>4. \A i \in Iter : file'.step.data[i] = IF file.m_buffer[i] # 0 THEN file.m_buffer[i]
                                           ELSE file.step.data[i]
  <2>1. file.step.data \in [Iter -> Version]
    BY <1>1 DEF Good, File, Step
  <2> QED
    BY <1>2, <2>1 DEF Merge
<1>5. ASSUME NEW i \in Iter, ~Open(i)
      PROVE  file'.step.data[i] = file.step.data[i]
  <2>1. PlaceOK(i)
    BY <1>0 DEF PlacesInv
  <2> QED
    BY <1>4, <1>5, <2>1 DEF PlaceOK
<1>6. SentInv' /\ CountInv' /\ FaithfulInv'
  BY <1>0, <1>1, <1>3, NothingPublished
<1>7. ASSUME NEW m \in DOMAIN finished, NEW c, c = finished[m]
      PROVE  KeptClosed(c)'
  <2>1. KeptClosed(c) /\ c.it \in Iter /\ ~Open(c.it)
    BY <1>0, <1>7, ClosedOnes DEF KeptInv
  <2> QED
    BY <1>2, <1>3, <1>5, <2>1 DEF KeptClosed, Cumulative
<1>8. ASSUME NEW i \in Iter
      PROVE  KeptOnly(i)'
  <2>1. KeptOnly(i) /\ PlaceOK(i)
    BY <1>0 DEF KeptInv, PlacesInv
  <2>2. ~Ending /\ ~Sending(i)
    BY <1>0 DEF Ending, Advancing, Sending, HasTask
  <2>3. Open(i)' <=> Open(i)
    BY <1>0 DEF Open
  <2>4. file.m_buffer[i] # 0 => i \in iterations
    BY <2>1 DEF PlaceOK
  <2> QED
    BY <1>0, <1>2, <1>3, <1>4, <2>1, <2>2, <2>3, <2>4 DEF KeptOnly, Unpublished
<1>9. KeptInv'
  BY <1>0, <1>7, <1>8 DEF KeptInv, KeptClosed
<1> QED
  BY <1>6, <1>9 DEF ArchiveInv

\* The iteration that is closed when its step is about to end: all of it has
\* come to the file.
LEMMA ClosingKept ==
  ASSUME Inv, DeliveryInv, ArchiveInv, phase = "advance", call.op = "end"
  PROVE  KeptClosed(Closing)
<1> DEFINE i == call.it
<1>0. /\ ChainInv /\ PlacesInv /\ FrontendTypeOK /\ m_work = <<>> /\ file.m_buffer = NoChunks
      /\ i \in iterations /\ i \in Iter /\ Open(i) /\ ~dirty[i] /\ ~pending[i]
      /\ Closing.it = i /\ Closing.attr = mem[i].attr /\ Closing.data = mem[i].data
  BY DEF Inv, DeliveryInv, CallInv, Refused, AdvanceInv, FrontendTypeOK, Closing
<1>1. PlaceOK(i) /\ DataChain(i) /\ AttrChain(i)
  BY <1>0 DEF PlacesInv, ChainInv
<1>2. DataKept(i) /\ AttrKept(i) /\ mem[i].attr # 0
  <2>1. \A op, v : ~LastIs(m_work, op, i, v)
    BY <1>0 DEF LastIs
  <2>2. mem[i].attr # 0
    BY <1>1, Zenon DEF AttrChain
  <2>3. DataKept(i)
    BY <1>0, <1>1, <2>1 DEF DataChain
  <2>4. AttrKept(i)
    BY <1>0, <1>1, <2>1 DEF AttrChain
  <2> QED
    BY <2>2, <2>3, <2>4
<1>3. \A k \in DOMAIN file.steps : file.steps[k].data[i] = 0 /\ file.steps[k].attr[i] = 0
  BY <1>0, <1>1 DEF PlaceOK, Unpublished
<1>4. file.m_buffer[i] = 0
  BY <1>0 DEF NoChunks
<1>5. file.step.data[i] = mem[i].data
  <2> HIDE DEF i
  <2> QED
    BY <1>2, <1>3, <1>4 DEF DataKept
<1>6. \/ file.layout = "ByAdiosVariables" /\ file.m_attributeWrites[i] = mem[i].attr
      \/ file.layout = "ByAdiosAttributes" /\ file.attributes[i] = mem[i].attr
  BY <1>2, <1>3 DEF AttrKept
<1> QED
  BY <1>0, <1>5, <1>6 DEF KeptClosed, Cumulative

\* The end of a step is enqueued, and its iteration is closed.
LEMMA AdvanceArchives ==
  ASSUME Inv, DeliveryInv, ArchiveInv, Advance
  PROVE  ArchiveInv'
<1> DEFINE i == call.it
           closing == call.old = "ClosedInFrontend" /\ call.op = "end"
           R == [it : Iter, attr : Version, data : Version]
           L == Len(finished)
<1>0. /\ LoopInv /\ CallInv /\ ChainInv /\ FrontendTypeOK /\ AdvanceInv /\ phase = "advance"
      /\ phase' = "last" /\ ~file.finalized
      /\ UNCHANGED <<file, iterations, mem, call>>
      /\ SentInv /\ CountInv /\ FaithfulInv /\ KeptInv
      /\ m_closed \in [Iter -> CloseStatus] /\ iterations \subseteq Iter
      /\ finished \in Seq(R) /\ call.op \in {"begin", "end"} /\ m_work = <<>>
      /\ file.steps \in Seq(Step)
  BY DEF Inv, DeliveryInv, ArchiveInv, Advance, backendVars, user, FileInv, File, FrontendTypeOK,
         AdvanceInv
<1>1. CASE call.op = "begin"
  <2>1. call.old # "ClosedInFrontend" /\ ~closing
    BY <1>0, <1>1 DEF CallInv
  <2>2. UNCHANGED <<m_closed, finished>>
    BY <1>0, <2>1 DEF Advance
  <2>3. call.next # None => call.next \in iterations \/ \A j \in iterations : j < call.next
    BY <1>0 DEF SentInv
  <2> QED
    BY <1>0, <2>2, <2>3, Undisturbed DEF Open
<1>2. CASE call.op = "end"
  <2>1. closing /\ Open(i) /\ i \in iterations /\ i \in Iter
    BY <1>0, <1>2 DEF CallInv, Refused
  <2>2. /\ m_closed' = [m_closed EXCEPT ![i] = "ClosedInBackend"]
        /\ finished' = Append(finished, Closing)
        /\ m_work' = <<AdvanceTask("ENDSTEP")>> \o <<Task("CLOSE_PATH", i)>>
    BY <1>0, <1>2, <2>1 DEF Advance, Closing, enqueue, When
  <2>3. /\ Closing \in R /\ Closing.it = i /\ Closing.attr # 0
    <3>1. mem[i] \in Content
      BY <1>0, <2>1 DEF FrontendTypeOK
    <3>2. AttrChain(i)
      BY <1>0, <2>1 DEF ChainInv
    <3>3. mem[i].attr # 0
      BY <3>2, Zenon DEF AttrChain
    <3> QED
      BY <2>1, <3>1, <3>3 DEF Closing, Content
  <2> HIDE DEF R
  <2>4. /\ DOMAIN finished' = DOMAIN finished \cup {L + 1} /\ DOMAIN finished = 1 .. L
        /\ L \in Nat /\ Len(finished') = L + 1
        /\ \A m \in DOMAIN finished : finished'[m] = finished[m]
        /\ finished'[L + 1] = Closing
    BY <1>0, <2>2, <2>3
  <2> HIDE DEF L
  <2>5. \A j \in Iter : Open(j)' <=> Open(j) /\ j # i
    BY <1>0, <2>1, <2>2 DEF Open
  <2>6. \A j \in iterations : Open(j) => j = i
    BY <1>0, <2>1 DEF LoopInv
  <2>7. /\ Ending' /\ ~Ending
        /\ \A j : ~Sending(j) /\ (j = i => Sending(j)')
    <3>1. /\ 1 \in DOMAIN m_work' /\ m_work'[1].op = "ADVANCE"
          /\ 2 \in DOMAIN m_work' /\ m_work'[2].op = "CLOSE_PATH" /\ m_work'[2].of = i
      BY <2>2 DEF AdvanceTask, Task
    <3> QED
      BY <1>0, <1>2, <3>1 DEF Ending, Advancing, Sending, HasTask, IsTask
  <2>8. SentInv'
    <3>1. ASSUME NEW j \in iterations
          PROVE  \E m \in DOMAIN finished' : finished'[m].it = j
      <4>1. CASE j = i
        BY <2>3, <2>4, <4>1
      <4>2. CASE j # i
        <5>1. PICK m \in DOMAIN finished : finished[m].it = j
          BY <1>0, <2>6, <4>2 DEF SentInv
        <5> QED
          BY <2>4, <5>1
      <4> QED
        BY <4>1, <4>2
    <3>2. ASSUME NEW m \in DOMAIN finished', NEW n \in DOMAIN finished', m < n
          PROVE  finished'[m].it < finished'[n].it
      <4>1. m \in DOMAIN finished /\ finished'[m] = finished[m]
        BY <2>4, <3>2
      <4>2. CASE n \in DOMAIN finished
        BY <1>0, <2>4, <3>2, <4>1, <4>2 DEF SentInv
      <4>3. CASE n = L + 1
        <5>1. finished[m].it \in iterations /\ ~Open(finished[m].it)
          BY <4>1, ClosedOnes
        <5>2. finished[m].it < i
          BY <1>0, <2>1, <5>1 DEF SentInv
        <5> QED
          BY <2>3, <2>4, <4>1, <4>3, <5>2
      <4> QED
        BY <2>4, <4>2, <4>3
    <3>3. ASSUME NEW m \in DOMAIN finished' PROVE finished'[m].attr # 0
      BY <1>0, <2>3, <2>4, <3>3 DEF SentInv
    <3>4. \A j \in iterations : ~Open(j)'
      BY <1>0, <2>5, <2>6
    <3>5. call.next # None => call.next \in iterations \/ \A j \in iterations : j < call.next
      BY <1>0 DEF SentInv
    <3> QED
      BY <1>0, <3>1, <3>2, <3>3, <3>4, <3>5 DEF SentInv, Open
  <2>9. CountInv'
    <3>1. /\ file.streaming => Stepwise
          /\ Stepwise => Len(file.steps) <= L
          /\ ~Stepwise => Len(file.steps) = 0
      BY <1>0 DEF CountInv, L
    <3>2. (Stepwise' <=> Stepwise) /\ Len(file.steps) \in Nat
      BY <1>0 DEF Stepwise
    <3> QED
      BY <1>0, <2>4, <3>1, <3>2 DEF CountInv
  <2>10. FaithfulInv'
    <3>1. ASSUME NEW n \in DOMAIN file.steps, NEW s, s = file.steps[n]
          PROVE  Faithful(s, n)'
      <4>1. Stepwise /\ n \in 1 .. L
        <5>1. n \in 1 .. Len(file.steps) /\ Len(file.steps) \in Nat
          BY <1>0, <3>1
        <5>2. /\ Stepwise => Len(file.steps) <= L
              /\ ~Stepwise => Len(file.steps) = 0
          BY <1>0 DEF CountInv, L
        <5> QED
          BY <2>4, <5>1, <5>2
      <4>2. Faithful(s, n)
        BY <1>0, <3>1 DEF FaithfulInv
      <4>3. \A m : (TellsData(n, m)' <=> TellsData(n, m)) /\ (TellsAttr(n, m)' <=> TellsAttr(n, m))
        BY <1>0 DEF TellsData, TellsAttr, Cumulative, Stepwise
      <4>4. ~TellsData(n, L + 1) /\ ~TellsAttr(n, L + 1)
        BY <2>4, <4>1 DEF TellsData, TellsAttr
      <4>5. ASSUME NEW m \in DOMAIN finished'
            PROVE  /\ TellsData(n, m) => s.data[finished'[m].it] = finished'[m].data
                   /\ TellsAttr(n, m) => s.attr[finished'[m].it] = finished'[m].attr
        BY <2>4, <4>2, <4>4, <4>5 DEF Faithful
      <4>6. ASSUME NEW j \in Iter
            PROVE  /\ s.data[j] # 0 => \E m \in DOMAIN finished' : TellsData(n, m) /\ finished'[m].it = j
                   /\ s.attr[j] # 0 => \E m \in DOMAIN finished' : TellsAttr(n, m) /\ finished'[m].it = j
        <5>1. \A m \in DOMAIN finished : m \in DOMAIN finished' /\ finished'[m] = finished[m]
          BY <2>4
        <5>2. /\ s.data[j] # 0 => \E m \in DOMAIN finished : TellsData(n, m) /\ finished[m].it = j
              /\ s.attr[j] # 0 => \E m \in DOMAIN finished : TellsAttr(n, m) /\ finished[m].it = j
          BY <4>2 DEF Faithful
        <5> QED
          BY <5>1, <5>2
      <4> QED
        BY <4>3, <4>5, <4>6 DEF Faithful
    <3> QED
      BY <1>0, <3>1 DEF FaithfulInv, Faithful
  <2>11. ASSUME NEW m \in DOMAIN finished', NEW c, c = finished'[m]
         PROVE  KeptClosed(c)'
    <3>1. KeptClosed(c)
      BY <1>0, <1>2, <2>4, <2>11, ClosingKept DEF KeptInv
    <3> QED
      BY <1>0, <3>1 DEF KeptClosed, Cumulative, Stepwise
  <2>12. ASSUME NEW j \in Iter
         PROVE  KeptOnly(j)'
    <3>1. KeptOnly(j)
      BY <1>0 DEF KeptInv
    <3>2. Unpublished(j) => Unpublished(j)'
      BY <1>0, <2>5, <2>7 DEF Unpublished
    <3>3. Open(j) \/ Sending(j) => Open(j)' \/ Sending(j)'
      BY <2>5, <2>7
    <3> HIDE DEF i
    <3> QED
      BY <1>0, <3>1, <3>2, <3>3 DEF KeptOnly, Stepwise
  <2>13. KeptInv'
    BY <2>11, <2>12 DEF KeptInv, KeptClosed
  <2> QED
    BY <2>8, <2>9, <2>10, <2>13 DEF ArchiveInv
<1> QED
  BY <1>0, <1>1, <1>2

\* What a task other than ADVANCE leaves as it was: all that was published, the
\* step, and the attributes that it does not name.
LEMMA HandledFile ==
  ASSUME Inv, DeliveryInv, Execute, NEW t, t = Head(m_work), t.op # "ADVANCE"
  PROVE  /\ UNCHANGED <<file.steps, file.step, file.layout, file.streaming, file.streamStatus,
                        file.finalized>>
         /\ \A i \in Iter :
              /\ ~IsTask(t, "WRITE_ATT", i) =>
                   /\ file'.m_attributeWrites[i] = file.m_attributeWrites[i]
                   /\ \/ file'.attributes[i] = file.attributes[i]
                      \/ file.streaming
              /\ ~IsTask(t, "WRITE_ATT", i) /\ file'.attributes[i] # file.attributes[i] =>
                   file'.attributes[i] = 0
              /\ IsTask(t, "CLOSE_PATH", i) /\ file.streaming /\ file.layout = "ByAdiosAttributes" =>
                   file'.attributes[i] = 0
<1>0. t \in IOTask /\ file \in File /\ file' = effect(t)
  BY Taken DEF Good
<1>1. CASE t.op \in {"CREATE_FILE", "CREATE_PATH"}
  BY <1>0, <1>1 DEF effect, IsTask
<1>2. CASE t.op = "WRITE_DATASET"
  <2>1. file' = [file EXCEPT !.m_buffer = [file.m_buffer EXCEPT ![t.of] = t.v]]
    BY <1>0, <1>2 DEF effect, writeDataset, File
  <2>2. UNCHANGED <<file.steps, file.step, file.layout, file.streaming, file.streamStatus,
                    file.finalized, file.attributes, file.m_attributeWrites>>
    BY <1>0, <2>1 DEF File
  <2> QED
    BY <1>2, <2>2 DEF IsTask
<1>3. CASE t.op = "WRITE_ATT"
  <2>0. file' = writeAttribute(file, t.of, t.v)
    BY <1>0, <1>3 DEF effect
  <2>1. ASSUME NEW i \in Iter, i # t.of
        PROVE  [file.attributes EXCEPT ![t.of] = t.v][i] = file.attributes[i]
               /\ [file.m_attributeWrites EXCEPT ![t.of] = t.v][i] = file.m_attributeWrites[i]
    BY <1>0, <2>1 DEF File, Owner
  <2>2. CASE file' = [file EXCEPT !.m_attributeWrites = [file.m_attributeWrites EXCEPT ![t.of] = t.v]]
    <3>1. /\ UNCHANGED <<file.steps, file.step, file.layout, file.streaming, file.streamStatus,
                         file.finalized, file.attributes>>
          /\ file'.m_attributeWrites = [file.m_attributeWrites EXCEPT ![t.of] = t.v]
      BY <1>0, <2>2 DEF File
    <3> QED
      BY <1>3, <2>1, <3>1 DEF IsTask
  <2>3. CASE file' = [file EXCEPT !.attributes = [file.attributes EXCEPT ![t.of] = t.v],
                                  !.uncommitted = file.uncommitted \cup {t.of}]
    <3>1. /\ UNCHANGED <<file.steps, file.step, file.layout, file.streaming, file.streamStatus,
                         file.finalized, file.m_attributeWrites>>
          /\ file'.attributes = [file.attributes EXCEPT ![t.of] = t.v]
      BY <1>0, <2>3 DEF File
    <3> QED
      BY <1>3, <2>1, <3>1 DEF IsTask
  <2>4. CASE file' = file
    BY <1>3, <2>4 DEF IsTask
  <2> QED
    BY <1>0, <2>0, <2>2, <2>3, <2>4 DEF writeAttribute, File
<1>4. CASE t.op = "CLOSE_PATH"
  <2>0. file' = closePath(file, t.of)
    BY <1>0, <1>4 DEF effect
  <2>1. CASE file.streaming /\ file.layout = "ByAdiosAttributes"
    <3>1. file' = [file EXCEPT !.attributes = [file.attributes EXCEPT ![t.of] = 0]]
      BY <1>0, <2>0, <2>1 DEF closePath, File
    <3>2. /\ UNCHANGED <<file.steps, file.step, file.layout, file.streaming, file.streamStatus,
                         file.finalized, file.m_attributeWrites>>
          /\ file'.attributes = [file.attributes EXCEPT ![t.of] = 0]
      BY <1>0, <3>1 DEF File
    <3>3. ASSUME NEW i \in Iter
          PROVE  file'.attributes[i] = IF i = t.of THEN 0 ELSE file.attributes[i]
      BY <1>0, <3>2 DEF File, Owner
    <3> QED
      BY <1>4, <2>1, <3>2, <3>3 DEF IsTask
  <2>2. CASE ~(file.streaming /\ file.layout = "ByAdiosAttributes")
    BY <1>4, <2>0, <2>2 DEF closePath, IsTask
  <2> QED
    BY <2>1, <2>2
<1> QED
  BY <1>0, <1>1, <1>2, <1>3, <1>4 DEF IOTask, Operation

\* Tasks write nothing of an iteration that was closed.
LEMMA HandledArchives ==
  ASSUME Inv, DeliveryInv, ArchiveInv, Execute, NEW t, t = Head(m_work), t.op # "ADVANCE"
  PROVE  ArchiveInv'
<1>0. /\ SentInv /\ CountInv /\ FaithfulInv /\ KeptInv /\ TaskOK(t) /\ phase # "destroyed"
      /\ ~file.finalized /\ ~Ending /\ m_work \in Seq(IOTask) /\ m_work # <<>>
      /\ m_work' = Tail(m_work)
      /\ UNCHANGED <<iterations, m_closed, phase, call, finished>>
      /\ \A i \in Iter : i # Root
  BY Taken DEF ArchiveInv, Ending
<1>1. UNCHANGED <<file.steps, file.step, file.layout, file.streaming, file.streamStatus,
                  file.finalized>>
  BY HandledFile
<1>2. ASSUME NEW i \in Iter, ~IsTask(t, "WRITE_ATT", i)
      PROVE  /\ file'.m_attributeWrites[i] = file.m_attributeWrites[i]
             /\ file'.attributes[i] # file.attributes[i] => file'.attributes[i] = 0 /\ file.streaming
  BY <1>2, HandledFile
<1>3. SentInv' /\ CountInv' /\ FaithfulInv'
  BY <1>0, <1>1, NothingPublished DEF Stepwise
<1>4. ASSUME NEW m \in DOMAIN finished, NEW c, c = finished[m]
      PROVE  KeptClosed(c)'
  <2>1. KeptClosed(c) /\ c.it \in Iter /\ ~Open(c.it)
    BY <1>0, <1>4, ClosedOnes DEF KeptInv
  <2>2. ~IsTask(t, "WRITE_ATT", c.it)
    BY <1>0, <2>1 DEF IsTask, TaskOK
  <2>3. /\ file'.m_attributeWrites[c.it] = file.m_attributeWrites[c.it]
        /\ ~file.streaming => file'.attributes[c.it] = file.attributes[c.it]
    BY <1>2, <2>1, <2>2
  <2> QED
    BY <1>1, <2>1, <2>3 DEF KeptClosed, Cumulative, Stepwise
<1>5. ASSUME NEW i \in Iter
      PROVE  KeptOnly(i)'
  <2>1. KeptOnly(i) /\ i # Root
    BY <1>0 DEF KeptInv
  <2>2. Open(i)' <=> Open(i)
    BY <1>0 DEF Open
  <2>3. CASE IsTask(t, "WRITE_ATT", i)
    <3>1. Open(i)'
      BY <1>0, <2>1, <2>2, <2>3 DEF TaskOK, IsTask
    <3> QED
      BY <1>0, <1>1, <2>1, <3>1 DEF KeptOnly, Stepwise, Unpublished
  <2>4. CASE ~IsTask(t, "WRITE_ATT", i)
    <3>1. /\ file'.m_attributeWrites[i] = file.m_attributeWrites[i]
          /\ file'.attributes[i] # 0 => file'.attributes[i] = file.attributes[i]
      BY <1>2, <2>4
    <3>2. Unpublished(i) => Unpublished(i)'
      BY <1>0, <2>2 DEF Unpublished
    <3>3. IsTask(t, "CLOSE_PATH", i) /\ file.streaming /\ file.layout = "ByAdiosAttributes" =>
            file'.attributes[i] = 0
      BY HandledFile
    <3>4. Sending(i) => Sending(i)' \/ IsTask(t, "CLOSE_PATH", i)
      <4>1. HasTask(m_work, "CLOSE_PATH", i) => HasTask(m_work', "CLOSE_PATH", i) \/ IsTask(t, "CLOSE_PATH", i)
        <5>1. \A k \in DOMAIN m_work :
                \/ m_work[k] = t
                \/ k - 1 \in DOMAIN m_work' /\ m_work'[k - 1] = m_work[k]
          BY <1>0
        <5> QED
          BY <5>1 DEF HasTask
      <4> QED
        BY <1>0, <4>1 DEF Sending
    <3> QED
      BY <1>0, <1>1, <2>1, <2>2, <3>1, <3>2, <3>3, <3>4 DEF KeptOnly, Stepwise
  <2> QED
    BY <2>3, <2>4
<1>6. KeptInv'
  BY <1>0, <1>4, <1>5 DEF KeptInv, KeptClosed
<1> QED
  BY <1>3, <1>6 DEF ArchiveInv

\* CLOSE_PATH stays behind ADVANCE.
LEMMA StillSending ==
  ASSUME Inv, DeliveryInv, Execute, NEW t, t = Head(m_work), t.op = "ADVANCE",
         NEW i, Sending(i)
  PROVE  Sending(i)'
<1>0. /\ m_work \in Seq(IOTask) /\ m_work # <<>> /\ m_work' = Tail(m_work)
      /\ UNCHANGED <<phase, call>>
  BY Taken
<1>1. \A k \in DOMAIN m_work :
        \/ m_work[k] = t
        \/ k - 1 \in DOMAIN m_work' /\ m_work'[k - 1] = m_work[k]
  BY <1>0
<1>2. HasTask(m_work', "CLOSE_PATH", i)
  BY <1>1 DEF Sending, HasTask, IsTask
<1> QED
  BY <1>0, <1>2 DEF Sending

\* An ADVANCE that publishes nothing.
LEMMA SilentArchives ==
  ASSUME Inv, DeliveryInv, ArchiveInv, Execute, NEW t, t = Head(m_work), t.op = "ADVANCE",
         SameContents(file, file'), SameBuffers(file, file'), SameEngine(file, file'),
         file'.step = file.step, ~Stepwise \/ ~Ending
  PROVE  ArchiveInv'
<1>0. /\ SentInv /\ CountInv /\ FaithfulInv /\ KeptInv /\ phase # "destroyed"
      /\ ~file.finalized
      /\ UNCHANGED <<iterations, m_closed, phase, call, finished>>
  BY Taken DEF ArchiveInv
<1>1. /\ UNCHANGED <<file.steps, file.step, file.layout, file.streaming, file.attributes,
                     file.m_attributeWrites, file.finalized>>
      /\ Stepwise' <=> Stepwise
  BY DEF SameContents, SameBuffers, SameEngine, Stepwise
<1>2. SentInv' /\ CountInv' /\ FaithfulInv'
  BY <1>0, <1>1, NothingPublished
<1>3. ASSUME NEW m \in DOMAIN finished, NEW c, c = finished[m]
      PROVE  KeptClosed(c)'
  <2>1. KeptClosed(c)
    BY <1>0, <1>3 DEF KeptInv
  <2> QED
    BY <1>1, <2>1 DEF KeptClosed, Cumulative
<1>4. ASSUME NEW i \in Iter
      PROVE  KeptOnly(i)'
  <2>1. KeptOnly(i)
    BY <1>0 DEF KeptInv
  <2>2. Open(i)' <=> Open(i)
    BY <1>0 DEF Open
  <2>3. Stepwise /\ Unpublished(i) => Unpublished(i)'
    BY <2>2 DEF Unpublished
  <2>4. Sending(i) => Sending(i)'
    BY StillSending
  <2> QED
    BY <1>0, <1>1, <2>1, <2>2, <2>3, <2>4 DEF KeptOnly
<1>5. KeptInv'
  BY <1>0, <1>3, <1>4 DEF KeptInv, KeptClosed
<1> QED
  BY <1>2, <1>5 DEF ArchiveInv

\* A step that is added to those that were published.
LEMMA OneMoreStep ==
  ASSUME NEW s \in Seq(Step), NEW p \in Step, NEW q, q = Append(s, p)
  PROVE  /\ q \in Seq(Step) /\ Len(s) \in Nat /\ Len(q) = Len(s) + 1
         /\ DOMAIN q = DOMAIN s \cup {Len(s) + 1} /\ DOMAIN s = 1 .. Len(s)
         /\ \A k \in DOMAIN s : q[k] = s[k]
         /\ q[Len(s) + 1] = p
OBVIOUS

\* What is published has the type of a step.
LEMMA PublishedType ==
  ASSUME NEW b \in File
  PROVE  Published(b) \in Step
<1>1. /\ b.attributes \in [Owner -> Version] /\ b.step.data \in [Iter -> Version]
      /\ Merge(b.step.attr, b.m_attributeWrites) \in [Owner -> Version]
  BY MergeType DEF File, Step
<1> QED
  BY <1>1 DEF Published, Step

\* Its attributes, when none of them has come to the engine.
LEMMA PublishedAttributes ==
  ASSUME NEW b \in File, b.step.attr = NoAttributes, NEW i \in Iter
  PROVE  Published(b).attr[i] = IF b.layout = "ByAdiosAttributes" THEN b.attributes[i]
                                ELSE b.m_attributeWrites[i]
<1>1. b.m_attributeWrites \in [Owner -> Version] /\ i \in Owner
  BY DEF File, Owner
<1>2. Merge(NoAttributes, b.m_attributeWrites)[i] = b.m_attributeWrites[i]
  BY <1>1 DEF Merge, NoAttributes
<1> QED
  BY <1>2 DEF Published

\* The step of an iteration tells of it, and of those before it.
LEMMA EndFaithful ==
  ASSUME Inv, DeliveryInv, ArchiveInv, phase = "last", call.op = "end", Ending, Stepwise,
         NEW n, n = Len(finished),
         NEW p, p = Published(file),
         p.data[finished[n].it] = finished[n].data, p.attr[finished[n].it] = finished[n].attr,
         \A j \in Iter \ {finished[n].it} : p.data[j] = 0
  PROVE  Faithful(p, n)
<1>0. /\ PlacesInv /\ CallInv /\ SentInv /\ KeptInv /\ LastClosed /\ file \in File
      /\ file.step.attr = NoAttributes /\ iterations \subseteq Iter
      /\ \A i \in iterations : ~Open(i)
      /\ \A i \in Iter : PlaceOK(i) /\ KeptOnly(i)
  BY DEF Inv, DeliveryInv, ArchiveInv, PlacesInv, KeptInv, CallInv, FileInv, FrontendTypeOK
<1>1. /\ n \in DOMAIN finished /\ finished[n].it = call.it
      /\ \A m \in DOMAIN finished : m \in Nat /\ m <= n
  <2> DEFINE R == [it : Iter, attr : Version, data : Version]
  <2>1. finished \in Seq(R)
    BY DEF Inv, FrontendTypeOK
  <2>2. finished # <<>> /\ finished[n] = Closing
    BY <1>0 DEF LastClosed
  <2>3. n \in DOMAIN finished /\ \A m \in DOMAIN finished : m \in Nat /\ m <= n
    <3> HIDE DEF R
    <3> QED
      BY <2>1, <2>2
  <2> QED
    BY <2>2, <2>3 DEF Closing
<1>2. \A i \in Iter : p.attr[i] = IF file.layout = "ByAdiosAttributes" THEN file.attributes[i]
                                  ELSE file.m_attributeWrites[i]
  BY <1>0, PublishedAttributes
<1>3. ASSUME NEW m \in DOMAIN finished
      PROVE  /\ TellsData(n, m) => p.data[finished[m].it] = finished[m].data
             /\ TellsAttr(n, m) => p.attr[finished[m].it] = finished[m].attr
  <2>1. CASE m = n
    BY <2>1
  <2>2. CASE m # n
    <3>1. Cumulative => file.attributes[finished[m].it] = finished[m].attr
      BY <1>0 DEF KeptInv, KeptClosed
    <3>2. finished[m].it \in Iter
      BY ClosedOnes
    <3> QED
      BY <1>2, <2>2, <3>1, <3>2 DEF TellsData, TellsAttr, Cumulative
  <2> QED
    BY <2>1, <2>2
<1>4. ASSUME NEW i \in Iter
      PROVE  /\ p.data[i] # 0 => \E m \in DOMAIN finished : TellsData(n, m) /\ finished[m].it = i
             /\ p.attr[i] # 0 => \E m \in DOMAIN finished : TellsAttr(n, m) /\ finished[m].it = i
  <2>1. i = call.it => \E m \in DOMAIN finished :
                         TellsData(n, m) /\ TellsAttr(n, m) /\ finished[m].it = i
    BY <1>1 DEF TellsData, TellsAttr
  <2>2. p.data[i] # 0 => i = call.it
    BY <1>1
  <2>3. ASSUME p.attr[i] # 0
        PROVE  \E m \in DOMAIN finished : TellsAttr(n, m) /\ finished[m].it = i
    <3>1. i \in iterations
      BY <1>0, <1>2, <2>3 DEF PlaceOK
    <3>2. ~Open(i)
      BY <1>0, <3>1
    <3>3. CASE Cumulative
      <4>1. PICK m \in DOMAIN finished : finished[m].it = i
        BY <1>0, <3>1, <3>2 DEF SentInv
      <4>2. m = n \/ m < n
        BY <1>1
      <4> QED
        BY <3>3, <4>1, <4>2 DEF TellsAttr
    <3>4. CASE file.layout = "ByAdiosAttributes" /\ file.streaming
      <4>1. Sending(i)
        BY <1>0, <1>2, <2>3, <3>2, <3>4 DEF KeptOnly
      <4> QED
        BY <2>1, <4>1 DEF Sending
    <3>5. CASE file.layout # "ByAdiosAttributes"
      <4>1. Unpublished(i)
        BY <1>0, <1>2, <2>3, <3>5 DEF KeptOnly
      <4> QED
        BY <2>1, <3>2, <4>1 DEF Unpublished
    <3> QED
      BY <3>3, <3>4, <3>5 DEF Cumulative
  <2> QED
    BY <2>1, <2>2, <2>3
<1> QED
  BY <1>3, <1>4 DEF Faithful

\* The engine's step ends.
LEMMA EndArchives ==
  ASSUME Inv, DeliveryInv, ArchiveInv, Execute, NEW t, t = Head(m_work), t.op = "ADVANCE",
         call.op = "end", file.streamStatus = "DuringStep",
         file' = advance(file, "ENDSTEP")
  PROVE  ArchiveInv'
<1> DEFINE p == Published(file)
           n == Len(file.steps) + 1
<1>0. /\ SentInv /\ CountInv /\ FaithfulInv /\ KeptInv /\ phase = "last" /\ Good(file)
      /\ Ending /\ ~Ending' /\ Stepwise /\ ~file.finalized /\ file.m_buffer = NoChunks
      /\ UNCHANGED <<iterations, m_closed, phase, call, finished>>
  BY Taken DEF ArchiveInv, Ending, Stepwise
<1>1. /\ file'.attributes = file.attributes /\ file'.m_attributeWrites = NoAttributes
      /\ file'.streamStatus # "NoStream"
      /\ file'.steps = Append(file.steps, p)
  BY <1>0, Ended
<1>2. SameEngine(file, file')
  BY <1>0, AdvanceGood DEF Modes
<1>3. /\ file'.layout = file.layout /\ file'.streaming = file.streaming /\ ~file'.finalized
      /\ (Stepwise' <=> Stepwise) /\ Stepwise'
  BY <1>0, <1>1, <1>2 DEF SameEngine, Stepwise
<1>4. /\ p \in Step /\ file.steps \in Seq(Step)
  BY <1>0, PublishedType DEF Good, File
<1> HIDE DEF p
<1>5. /\ Len(file.steps) \in Nat /\ Len(file'.steps) = n
      /\ DOMAIN file'.steps = DOMAIN file.steps \cup {n}
      /\ \A k \in DOMAIN file.steps : file'.steps[k] = file.steps[k]
      /\ file'.steps[n] = p
  BY <1>1, <1>4, OneMoreStep
<1>6. /\ Len(finished) = n
      /\ p.data[finished[n].it] = finished[n].data /\ p.attr[finished[n].it] = finished[n].attr
      /\ \A j \in Iter \ {finished[n].it} : p.data[j] = 0
  <2>1. StepsInv'
    BY ExecuteDelivers DEF DeliveryInv
  <2>2. /\ Len(finished') = Len(file'.steps) + 0
        /\ n \in DOMAIN file'.steps
    BY <1>0, <1>3, <1>5, <2>1 DEF StepsInv
  <2>3. ASSUME NEW k, k = n, NEW c, c = finished[k]
        PROVE  /\ p.data[c.it] = c.data /\ p.attr[c.it] = c.attr
               /\ \A j \in Iter \ {c.it} : p.data[j] = 0
    <3>1. k \in DOMAIN file'.steps /\ c = finished'[k] /\ file'.steps[k] = p
      BY <1>0, <1>5, <2>2, <2>3
    <3>2. publishedAs(k, c)'
      BY <1>0, <1>3, <2>1, <3>1 DEF StepsInv, publishedAs
    <3> QED
      BY <3>1, <3>2 DEF publishedAs
  <2>4. Len(finished) = n
    BY <1>0, <1>5, <2>2
  <2> HIDE DEF n
  <2> QED
    BY <2>3, <2>4
<1> HIDE DEF n
<1>7. Faithful(p, n)
  BY <1>0, <1>6, EndFaithful DEF p
<1>8. ASSUME NEW k \in DOMAIN file'.steps, NEW s, s = file'.steps[k]
      PROVE  Faithful(s, k)'
  <2>1. Faithful(s, k)
    <3>1. CASE k \in DOMAIN file.steps
      BY <1>0, <1>5, <1>8, <3>1 DEF FaithfulInv
    <3>2. CASE k = n
      BY <1>5, <1>7, <1>8, <3>2
    <3> QED
      BY <1>5, <1>8, <3>1, <3>2
  <2>2. Cumulative' <=> Cumulative
    BY <1>3 DEF Cumulative
  <2> QED
    BY <1>0, <1>3, <2>1, <2>2 DEF Faithful, TellsData, TellsAttr
<1>9. SentInv'
  BY <1>0 DEF SentInv, Open
<1>10. CountInv'
  BY <1>0, <1>3, <1>5, <1>6 DEF CountInv, n
<1>11. FaithfulInv'
  BY <1>8 DEF FaithfulInv, Faithful
<1>12. ASSUME NEW m \in DOMAIN finished, NEW c, c = finished[m]
       PROVE  KeptClosed(c)'
  <2>1. KeptClosed(c)
    BY <1>0, <1>12 DEF KeptInv
  <2> QED
    BY <1>0, <1>1, <1>3, <2>1 DEF KeptClosed, Cumulative
<1>13. ASSUME NEW i \in Iter
       PROVE  KeptOnly(i)'
  <2>1. KeptOnly(i)
    BY <1>0 DEF KeptInv
  <2>2. Open(i)' <=> Open(i)
    BY <1>0 DEF Open
  <2>3. Sending(i) => Sending(i)'
    BY StillSending
  <2>4. file'.m_attributeWrites[i] = 0
    BY <1>1 DEF NoAttributes, Owner
  <2> QED
    BY <1>0, <1>1, <1>3, <2>1, <2>2, <2>3, <2>4 DEF KeptOnly
<1>14. KeptInv'
  BY <1>0, <1>12, <1>13 DEF KeptInv, KeptClosed
<1> QED
  BY <1>9, <1>10, <1>11, <1>14 DEF ArchiveInv

\* The first task of the queue is run.
LEMMA ExecuteArchives ==
  ASSUME Inv, DeliveryInv, ArchiveInv, Execute
  PROVE  ArchiveInv'
<1> PICK t : t = Head(m_work)
  OBVIOUS
<1>1. CASE t.op # "ADVANCE"
  BY <1>1, HandledArchives
<1>2. CASE t.op = "ADVANCE"
  <2>0. /\ AdvanceInv /\ StepInv /\ phase = "last" /\ file.m_buffer = NoChunks /\ Good(file)
        /\ Advancing /\ m_work \in Seq(IOTask) /\ m_work # <<>> /\ file' = effect(t)
        /\ t \in IOTask
    BY <1>2, Taken
  <2>1. file' = advance(file, t.mode) /\ t.mode \in Modes
    BY <1>2, <2>0 DEF effect, IOTask
  <2>2. 1 \in DOMAIN m_work /\ t = m_work[1]
    BY <2>0
  <2>3. t.mode = ModeOf(call.op) /\ call.op \in {"begin", "end"}
    BY <1>2, <2>0, <2>2 DEF AdvanceInv
  <2>4. CASE call.op = "begin"
    <3>1. t.mode = "BEGINSTEP"
      BY <2>3, <2>4 DEF ModeOf
    <3>2. SameContents(file, file') /\ SameBuffers(file, file') /\ file'.step = file.step
      BY <2>0, <2>1, <3>1, Begun
    <3>3. SameEngine(file, file')
      BY <2>0, <2>1, <3>1, AdvanceGood
    <3>4. ~Ending
      BY <2>4 DEF Ending
    <3> QED
      BY <1>2, <3>2, <3>3, <3>4, SilentArchives
  <2>5. CASE call.op = "end"
    <3>1. t.mode = "ENDSTEP"
      BY <2>3, <2>5 DEF ModeOf
    <3>2. file.streamStatus \in {"DuringStep", "NoStream"}
      BY <2>0, <2>5 DEF StepInv, Advanced, Good, File, WriterStatus
    <3>3. CASE file.streamStatus = "DuringStep"
      BY <1>2, <2>1, <2>5, <3>1, <3>3, EndArchives
    <3>4. CASE file.streamStatus = "NoStream"
      <4>1. /\ file \in File /\ file.fault = "none" /\ file.advanceStatus = "OK"
            /\ file.step = [attr |-> file.step.attr, data |-> file.step.data]
            /\ file.step.data \in [Iter -> Version]
        BY <2>0 DEF Good, File, Step
      <4>2. [file EXCEPT !.advanceStatus = "OK"] = file
        BY <4>1 DEF File
      <4>3. file' = flush(file, "putget", FALSE, FALSE)
        BY <2>1, <3>4, <4>1, <4>2 DEF advance, advanceEngine, faulty
      <4>4. /\ SameContents(file, file') /\ file'.m_buffer = NoChunks
            /\ file'.m_attributeWrites = file.m_attributeWrites
            /\ file'.step = [attr |-> file.step.attr, data |-> Merge(file.step.data, file.m_buffer)]
        BY <2>0, <4>3, Gathered
      <4>5. file'.step = file.step /\ SameBuffers(file, file')
        BY <2>0, <4>1, <4>4, MergeNothing DEF SameBuffers
      <4>6. SameEngine(file, file')
        BY <2>0, <2>1, <3>1, <3>2, AdvanceGood DEF Modes
      <4> QED
        BY <1>2, <3>4, <4>4, <4>5, <4>6, SilentArchives DEF Stepwise
    <3> QED
      BY <3>2, <3>3, <3>4
  <2> QED
    BY <2>3, <2>4, <2>5
<1> QED
  BY <1>1, <1>2

-----------------------------------------------------------------------------
(* The end of the file.                                                    *)

\* Closing the engine publishes what a step in progress holds, or all there is
\* if the file has no steps.
LEMMA ClosedSteps ==
  ASSUME NEW b, Good(b), b.opened, NEW c, c = engineClosed(stepClosed(b))
  PROVE  /\ c.streamStatus = b.streamStatus /\ c.declaresSteps = b.declaresSteps
         /\ \/ c.steps = Append(b.steps, contents(b))
            \/ c.steps = b.steps /\ b.streamStatus = "OutsideOfStep"
<1>0. b \in File /\ b.fault = "none" /\ b.mode = "Write"
  BY DEF Good, File
<1>1. CASE b.streamStatus = "DuringStep"
  <2> DEFINE s == EndStep(b)
  <2>1. b.inStep /\ b.declaresSteps /\ stepClosed(b) = s
    BY <1>0, <1>1 DEF Good, Agrees, stepClosed, faulty
  <2>2. /\ s \in File
        /\ s = [b EXCEPT !.inStep = FALSE, !.step = EmptyStep,
                         !.steps = Append(b.steps, contents(b))]
    BY <1>0, <2>1, EndStepInside
  <2>3. /\ s.streamStatus = b.streamStatus /\ s.declaresSteps /\ s.opened
        /\ s.steps = Append(b.steps, contents(b))
    BY <1>0, <2>1, <2>2 DEF File
  <2> HIDE DEF s
  <2>4. c = [s EXCEPT !.finalized = TRUE]
    BY <2>1, <2>3 DEF engineClosed, EngineClose
  <2>5. c.streamStatus = s.streamStatus /\ c.declaresSteps = s.declaresSteps /\ c.steps = s.steps
    BY <2>2, <2>4 DEF File
  <2> QED
    BY <2>1, <2>3, <2>5
<1>2. CASE b.streamStatus = "OutsideOfStep"
  <2>1. b.declaresSteps /\ stepClosed(b) = b
    BY <1>2 DEF Good, Agrees, stepClosed
  <2>2. c = [b EXCEPT !.finalized = TRUE]
    BY <2>1 DEF engineClosed, EngineClose
  <2> QED
    BY <1>0, <1>2, <2>2 DEF File
<1>3. CASE b.streamStatus = "NoStream"
  <2>1. ~b.declaresSteps /\ stepClosed(b) = b
    BY <1>3 DEF Good, Agrees, stepClosed
  <2> DEFINE u == Append(b.steps, contents(b))
  <2>2. EngineClose(b) = [b EXCEPT !.steps = u, !.step = EmptyStep]
    BY <1>0, <2>1 DEF EngineClose, File
  <2> DEFINE s == EngineClose(b)
  <2>3. /\ s.streamStatus = b.streamStatus /\ s.declaresSteps = b.declaresSteps
        /\ s.steps = u /\ DOMAIN s = DOMAIN b
    BY <1>0, <2>2 DEF File
  <2>4. c = [s EXCEPT !.finalized = TRUE]
    BY <2>1 DEF engineClosed
  <2> HIDE DEF s, u
  <2>5. {"streamStatus", "declaresSteps", "steps"} \subseteq DOMAIN s
    BY <1>0, <2>3 DEF File
  <2>6. c.streamStatus = s.streamStatus /\ c.declaresSteps = s.declaresSteps /\ c.steps = s.steps
    BY <2>4, <2>5
  <2> QED
    BY <2>3, <2>6 DEF u
<1> QED
  BY <1>0, <1>1, <1>2, <1>3 DEF File, WriterStatus

\* finalize makes of what is left one more step, unless steps are used and
\* nothing is left.
LEMMA FinalSteps ==
  ASSUME NEW b, Good(b), ~b.finalized, NEW c, c = finalize(b)
  PROVE  /\ c.finalized /\ c.layout = b.layout /\ c.streaming = b.streaming
         /\ c.streamStatus = "NoStream" <=> b.streamStatus = "NoStream"
         /\ c.declaresSteps <=> b.streamStatus # "NoStream"
         /\ \/ c.steps = Append(b.steps, Published(b))
            \/ c.steps = b.steps /\ b.streamStatus # "NoStream"
<1> DEFINE g == getEngine(b)
           o == stepOn(g)
           u == put(o, NoChunks, b.m_attributeWrites)
<1>0. /\ b \in File /\ b.mode = "Write" /\ b.m_attributeWrites \in [Owner -> Version]
      /\ b.step.attr \in [Owner -> Version] /\ b.step.data \in [Iter -> Version]
      /\ NoChunks \in [Iter -> Version]
  BY EmptyTypes DEF Good, File, Step
<1>1. /\ Good(g) /\ g.opened /\ SameEngine(b, g) /\ SameBuffers(b, g)
      /\ SameContents(b, g) /\ g.step = b.step
  BY GetEngine, OpenContents
<1>2. finalize(b) = IF b.m_attributeWrites = NoAttributes THEN engineClosed(stepClosed(g))
                    ELSE engineClosed(stepClosed(u))
  BY <1>0 DEF finalize, requireActiveStep
<1> HIDE DEF g
<1>3. /\ Good(o) /\ o.opened /\ o.streamStatus # "OutsideOfStep" /\ SameEngine(g, o)
      /\ SameBuffers(g, o) /\ SameContents(g, o) /\ o.step = g.step
  BY <1>1, StepOn, StepOnContents
<1> HIDE DEF o
<1>4. /\ Good(u) /\ u.opened /\ SameEngine(o, u) /\ SameContents(o, u)
      /\ u.step = [attr |-> Merge(o.step.attr, b.m_attributeWrites),
                   data |-> Merge(o.step.data, NoChunks)]
  <2>1. /\ Good(u) /\ u.opened /\ SameEngine(o, u)
    BY <1>0, <1>3, Put
  <2>2. /\ SameContents(o, u)
        /\ u.step = [attr |-> Merge(o.step.attr, b.m_attributeWrites),
                     data |-> Merge(o.step.data, NoChunks)]
    BY <1>0, <1>3, PutContents
  <2> QED
    BY <2>1, <2>2
<1> HIDE DEF u
<1>5. c.finalized /\ c.layout = b.layout /\ c.streaming = b.streaming
  BY FinalizeGood
<1>6. ASSUME NEW d, Good(d), d.opened, SameContents(b, d), contents(d) = Published(b),
             c = engineClosed(stepClosed(d))
      PROVE  /\ c.streamStatus = "NoStream" <=> b.streamStatus = "NoStream"
             /\ c.declaresSteps <=> b.streamStatus # "NoStream"
             /\ \/ c.steps = Append(b.steps, Published(b))
                \/ c.steps = b.steps /\ b.streamStatus # "NoStream"
  <2>1. /\ c.streamStatus = d.streamStatus /\ c.declaresSteps = d.declaresSteps
        /\ \/ c.steps = Append(d.steps, contents(d))
           \/ c.steps = d.steps /\ d.streamStatus = "OutsideOfStep"
    BY <1>6, ClosedSteps
  <2>2. d.declaresSteps <=> d.streamStatus # "NoStream"
    BY <1>6 DEF Good, Agrees
  <2> QED
    BY <1>6, <2>1, <2>2 DEF SameContents
<1>7. CASE b.m_attributeWrites = NoAttributes
  <2>1. Merge(b.step.attr, b.m_attributeWrites) = b.step.attr
    BY <1>0, <1>7, MergeNothing
  <2>2. contents(g) = Published(b)
    <3>1. g.layout = b.layout /\ g.attributes = b.attributes /\ g.step = b.step
      BY <1>1 DEF SameEngine, SameContents
    <3>2. b.step = [attr |-> b.step.attr, data |-> b.step.data]
      BY <1>0 DEF File, Step
    <3> QED
      BY <2>1, <3>1, <3>2 DEF contents, Published
  <2> QED
    BY <1>1, <1>2, <1>5, <1>6, <1>7, <2>2
<1>8. CASE b.m_attributeWrites # NoAttributes
  <2>1. Merge(b.step.data, NoChunks) = b.step.data
    BY <1>0, MergeNothing
  <2>2. SameContents(b, u)
    BY <1>1, <1>3, <1>4 DEF SameContents
  <2>3. contents(u) = Published(b)
    <3>1. u.layout = b.layout /\ u.attributes = b.attributes
      BY <1>1, <1>3, <1>4, <2>2 DEF SameEngine, SameContents
    <3>2. u.step = [attr |-> Merge(b.step.attr, b.m_attributeWrites), data |-> b.step.data]
      BY <1>1, <1>3, <1>4, <2>1
    <3> QED
      BY <3>1, <3>2 DEF contents, Published
  <2> QED
    BY <1>2, <1>4, <1>5, <1>6, <1>8, <2>2, <2>3
<1> QED
  BY <1>7, <1>8

\* Once all iterations are closed, what is left to publish tells of them as the
\* steps before did, and of no other.
LEMMA FinalFaithful ==
  ASSUME Inv, DeliveryInv, ArchiveInv, phase \notin {"last", "destroyed"},
         \A i \in iterations : ~Open(i),
         NEW n, n = Len(file.steps) + 1, NEW p, p = Published(file)
  PROVE  Faithful(p, n)
<1>0. /\ SentInv /\ KeptInv /\ file \in File /\ file.step.attr = NoAttributes
      /\ iterations \subseteq Iter /\ ~Ending
      /\ file.streaming => Stepwise
      /\ \A i \in Iter : PlaceOK(i) /\ KeptOnly(i) /\ ~Sending(i)
  BY DEF Inv, DeliveryInv, ArchiveInv, PlacesInv, KeptInv, FileInv, FrontendTypeOK, Ending, Sending
<1>1. \A i \in Iter : p.attr[i] = IF file.layout = "ByAdiosAttributes" THEN file.attributes[i]
                                  ELSE file.m_attributeWrites[i]
  BY <1>0, PublishedAttributes
<1>2. p.data = file.step.data /\ file.layout \in {"ByAdiosAttributes", "ByAdiosVariables"}
  BY <1>0 DEF Published, File
<1>3. Stepwise => \A m \in DOMAIN finished : m \in Nat /\ n \in Nat /\ m < n
  <2>1. Stepwise => Len(finished) = Len(file.steps) + 0
    BY <1>0 DEF DeliveryInv, StepsInv
  <2>2. file.steps \in Seq(Step)
    BY <1>0 DEF File
  <2>3. Len(file.steps) \in Nat
    BY <2>2
  <2>4. \A m \in DOMAIN finished : m \in 1 .. Len(finished)
    BY ClosedOnes
  <2> QED
    BY <2>1, <2>3, <2>4
<1>4. ASSUME NEW m \in DOMAIN finished
      PROVE  /\ TellsData(n, m) => p.data[finished[m].it] = finished[m].data
             /\ TellsAttr(n, m) => p.attr[finished[m].it] = finished[m].attr
  <2>1. KeptClosed(finished[m]) /\ finished[m].it \in Iter
    BY <1>0, ClosedOnes DEF KeptInv
  <2>2. TellsData(n, m) => ~Stepwise
    BY <1>3 DEF TellsData
  <2>3. TellsAttr(n, m) => ~Stepwise \/ Cumulative
    BY <1>3 DEF TellsAttr
  <2>4. TellsAttr(n, m) => p.attr[finished[m].it] = finished[m].attr
    BY <1>0, <1>1, <1>2, <2>1, <2>3 DEF KeptClosed, Cumulative
  <2> QED
    BY <1>2, <2>1, <2>2, <2>4 DEF KeptClosed
<1>5. ASSUME NEW i \in Iter
      PROVE  /\ p.data[i] # 0 => \E m \in DOMAIN finished : TellsData(n, m) /\ finished[m].it = i
             /\ p.attr[i] # 0 => \E m \in DOMAIN finished : TellsAttr(n, m) /\ finished[m].it = i
  <2>1. ASSUME i \in iterations
        PROVE  \E m \in DOMAIN finished : finished[m].it = i
    BY <1>0, <2>1 DEF SentInv
  <2>2. p.data[i] # 0 => ~Stepwise /\ i \in iterations
    BY <1>0, <1>2 DEF KeptOnly, PlaceOK, Unpublished
  <2>3. p.attr[i] # 0 => i \in iterations
    BY <1>0, <1>1 DEF PlaceOK
  <2>4. p.attr[i] # 0 => ~Stepwise \/ Cumulative
    <3>1. ~Unpublished(i) \/ i \notin iterations
      BY <1>0 DEF Unpublished
    <3> QED
      BY <1>0, <1>1, <1>2, <2>3, <3>1 DEF KeptOnly, Cumulative, Unpublished
  <2>5. p.data[i] # 0 => \E m \in DOMAIN finished : TellsData(n, m) /\ finished[m].it = i
    BY <2>1, <2>2 DEF TellsData
  <2>6. p.attr[i] # 0 => \E m \in DOMAIN finished : TellsAttr(n, m) /\ finished[m].it = i
    BY <1>3, <2>1, <2>3, <2>4 DEF TellsAttr
  <2> QED
    BY <2>5, <2>6
<1> QED
  BY <1>4, <1>5 DEF Faithful

\* A file that is finalized once all iterations are closed.
LEMMA FinalArchives ==
  ASSUME Inv, DeliveryInv, ArchiveInv, phase \notin {"last", "destroyed"},
         \A i \in iterations : ~Open(i),
         file' = finalize(file), phase' = "destroyed", call' = NoCall,
         UNCHANGED <<iterations, m_closed, finished>>
  PROVE  ArchiveInv'
<1> DEFINE p == Published(file)
           n == Len(file.steps) + 1
<1>0. /\ SentInv /\ CountInv /\ FaithfulInv /\ Good(file) /\ ~file.finalized /\ ~Ending
      /\ file.steps \in Seq(Step) /\ p \in Step
  <2>1. Good(file) /\ ~file.finalized
    BY DEF Inv, FileInv, Good
  <2> QED
    BY <2>1, PublishedType DEF ArchiveInv, Good, File, Ending
<1>1. /\ file'.finalized /\ file'.layout = file.layout /\ file'.streaming = file.streaming
      /\ file'.streamStatus = "NoStream" <=> file.streamStatus = "NoStream"
      /\ file'.declaresSteps <=> file.streamStatus # "NoStream"
      /\ \/ file'.steps = Append(file.steps, p)
         \/ file'.steps = file.steps /\ file.streamStatus # "NoStream"
  BY <1>0, FinalSteps
<1>2. (Stepwise' <=> Stepwise) /\ (Cumulative' <=> Cumulative)
  BY <1>1 DEF Stepwise, Cumulative
<1>3. Faithful(p, n)
  BY FinalFaithful
<1> HIDE DEF p
<1>4. /\ Len(file.steps) \in Nat
      /\ \A k \in DOMAIN file.steps : k \in DOMAIN file'.steps /\ file'.steps[k] = file.steps[k]
      /\ \A k \in DOMAIN file'.steps :
           k \in DOMAIN file.steps \/ (k = n /\ file'.steps[k] = p)
      /\ \/ Len(file'.steps) = n
         \/ Len(file'.steps) = Len(file.steps) /\ Stepwise
  <2>1. CASE file'.steps = Append(file.steps, p)
    BY <1>0, <2>1, OneMoreStep
  <2>2. CASE file'.steps = file.steps /\ file.streamStatus # "NoStream"
    BY <1>0, <2>2 DEF Stepwise
  <2> QED
    BY <1>1, <2>1, <2>2
<1>5. SentInv'
  BY <1>0 DEF SentInv, NoCall, Open
<1>6. CountInv'
  <2>1. Stepwise => Len(finished) = Len(file.steps) + 0
    BY <1>0 DEF DeliveryInv, StepsInv
  <2>2. ~Stepwise => Len(file.steps) = 0
    BY <1>0 DEF CountInv
  <2>3. Stepwise' => Len(file'.steps) \in {Len(finished), Len(finished) + 1}
    BY <1>2, <1>4, <2>1
  <2>4. ASSUME ~Stepwise' PROVE Len(file'.steps) = 1
    <3>1. Len(file.steps) = 0 /\ Len(file'.steps) = n
      BY <1>2, <1>4, <2>2, <2>4, Zenon
    <3>2. n = 1
      BY ONLY <3>1
    <3> QED
      BY <3>1, <3>2
  <2>5. file'.streaming => Stepwise'
    BY <1>0, <1>1, <1>2 DEF CountInv
  <2>6. file'.declaresSteps <=> Stepwise'
    BY <1>1, <1>2 DEF Stepwise
  <2> QED
    BY <1>1, <2>3, <2>4, <2>5, <2>6 DEF CountInv
<1> HIDE DEF n
<1>7. ASSUME NEW k \in DOMAIN file'.steps, NEW s, s = file'.steps[k]
      PROVE  Faithful(s, k)'
  <2>1. Faithful(s, k)
    <3>1. CASE k \in DOMAIN file.steps
      BY <1>0, <1>4, <1>7, <3>1 DEF FaithfulInv
    <3>2. CASE k = n /\ file'.steps[k] = p
      BY <1>3, <1>7, <3>2
    <3> QED
      BY <1>4, <1>7, <3>1, <3>2
  <2> QED
    BY <1>2, <2>1 DEF Faithful, TellsData, TellsAttr
<1>8. FaithfulInv'
  BY <1>7 DEF FaithfulInv, Faithful
<1> QED
  BY <1>5, <1>6, <1>8 DEF ArchiveInv, KeptInv

\* A call ends: an open iteration outlives no Series that finalizes its file.
LEMMA LeaveArchives ==
  ASSUME Inv, DeliveryInv, ArchiveInv, phase \in {"flush", "return"}, NEW r, leave(r),
         UNCHANGED <<iterations, m_closed, finished>>
  PROVE  ArchiveInv'
<1>1. CASE UNCHANGED file
  <2>1. call' = NoCall
    BY DEF leave
  <2> QED
    BY <1>1, <2>1, Undisturbed DEF NoCall, Open
<1>2. CASE ~UNCHANGED file
  <2>1. /\ call.op = "destroy" /\ file' = finalize(file) /\ phase' = "destroyed"
        /\ call' = NoCall
        /\ currentlyOpen = None \/ closed(currentlyOpen)
    BY <1>2 DEF leave
  <2>2. \A i \in iterations : ~Open(i)
    BY <2>1, NoneAssumption, IterAssumption
       DEF Inv, FrontendTypeOK, DeliveryInv, LoopInv, closed, Open
  <2> QED
    BY <2>1, <2>2, FinalArchives
<1> QED
  BY <1>1, <1>2

\* What the steps of the file tell of the iterations stays true.
LEMMA ArchiveNext ==
  ASSUME Extras = {}, Inv, DeliveryInv, ArchiveInv, [WriterNext]_writerVars
  PROVE  ArchiveInv'
<1>1. CASE Modify
  BY <1>1, ModifyArchives
<1>2. CASE CallAPI
  <2>1. CASE Flush \/ Destroy
    BY <2>1, FlushArchives
  <2>2. ASSUME NEW i \in Iter, SwitchTo(i) PROVE ArchiveInv'
    BY <2>2, SwitchToArchives
  <2>3. ASSUME NEW i \in Iter, NEW now \in BOOLEAN, Close(i, now) PROVE ArchiveInv'
    <3>1. /\ phase = "idle" /\ i \in iterations /\ now = TRUE
          /\ closeIteration(i, TRUE, None) /\ UNCHANGED <<iterations, currentlyOpen>>
      BY <2>3 DEF Close, Idle
    <3> QED
      BY <3>1, CloseArchives
  <2> QED
    BY <1>2, <2>1, <2>2, <2>3 DEF CallAPI
<1>3. CASE Internal
  <2>1. ASSUME NEW i \in Iter, Reject(i) PROVE ArchiveInv'
    <3>1. PICK r : leave(r)
      BY <2>1 DEF Reject
    <3>2. phase = "flush" /\ UNCHANGED <<iterations, m_closed, finished>>
      BY <2>1 DEF Reject, Reached, objects
    <3> QED
      BY <3>1, <3>2, LeaveArchives
  <2>2. ASSUME Return PROVE ArchiveInv'
    <3>1. phase = "return" /\ leave("ok") /\ UNCHANGED <<iterations, m_closed, finished>>
      BY <2>2 DEF Return, afterCall
    <3> QED
      BY <3>1, LeaveArchives
  <2> QED
    BY <1>3, <2>1, <2>2, LoopArchives, ExecuteArchives, SettleArchives, AdvanceArchives,
       ReturnToLoopArchives DEF Internal
<1>4. CASE UNCHANGED writerVars
  <2>1. UNCHANGED <<file, m_work, iterations, m_closed, phase, call, finished>>
    BY <1>4 DEF writerVars, backendVars, objects, user, control
  <2>2. SentInv' /\ CountInv'
    BY <2>1 DEF ArchiveInv, SentInv, CountInv, Open, Stepwise
  <2>3. FaithfulInv'
    BY <2>1 DEF ArchiveInv, FaithfulInv, Faithful, TellsData, TellsAttr, Cumulative, Stepwise
  <2>4. ASSUME phase # "destroyed", NEW i \in Iter PROVE KeptOnly(i)'
    <3>1. KeptOnly(i)
      BY <2>1, <2>4 DEF ArchiveInv, KeptInv
    <3> QED
      BY <2>1, <3>1 DEF KeptOnly, Stepwise, Unpublished, Ending, Advancing, Sending, Open
  <2>5. ASSUME phase # "destroyed", NEW m \in DOMAIN finished, NEW c, c = finished[m]
        PROVE  KeptClosed(c)'
    <3>1. KeptClosed(c)
      BY <2>1, <2>5 DEF ArchiveInv, KeptInv
    <3> QED
      BY <2>1, <3>1 DEF KeptClosed, Cumulative, Stepwise
  <2>6. KeptInv'
    BY <2>1, <2>4, <2>5 DEF KeptInv, KeptClosed
  <2> QED
    BY <2>2, <2>3, <2>6 DEF ArchiveInv
<1> QED
  BY <1>1, <1>2, <1>3, <1>4 DEF WriterNext

\* A stream's writer keeps all three.
LEMMA StreamArchives ==
  ASSUME Extras = {}
  PROVE  StreamSpec => [](Inv /\ DeliveryInv /\ ArchiveInv)
<1>1. StreamInit => Inv /\ DeliveryInv /\ ArchiveInv
  BY InvInit, DeliveryInit, ArchiveInit DEF StreamInit
<1>2. Inv /\ DeliveryInv /\ ArchiveInv /\ [StreamNext]_vars => (Inv /\ DeliveryInv /\ ArchiveInv)'
  <2>1. [StreamNext]_vars => [WriterNext]_writerVars
    BY DEF StreamNext, Writing, Reading, vars
  <2> QED
    BY <2>1, InvNext, DeliveryNext, ArchiveNext
<1> QED
  BY <1>1, <1>2, PTL DEF StreamSpec

-----------------------------------------------------------------------------
(* The engine of a reader.                                                 *)

ReaderFile ==
  [mode : {"Read"}, layout : {"ByAdiosAttributes", "ByAdiosVariables"},
   streaming : BOOLEAN, streamStatus : StreamStatus,
   opened : BOOLEAN, finalized : {FALSE},
   m_lastStepStatus : {"OK"}, status : {"OK", "EndOfStream"}, advanceStatus : {"OK", "OVER"},
   m_buffer : [Iter -> Version], m_attributeWrites : {NoAttributes},
   attributes : {NoAttributes}, uncommitted : {{}},
   declaresSteps : BOOLEAN, inStep : BOOLEAN, step : {EmptyStep}, steps : Seq(Step),
   position : Nat, loaded : [Iter -> Version], fault : {"none"}]

\* Nothing is asked for.
AtRest(b) == b \in ReaderFile /\ b.opened /\ b.status = "OK" /\ b.m_buffer = NoChunks

\* What beginning and ending a step leave alone.
SameView(b, c) ==
  /\ c \in ReaderFile /\ c.m_buffer = NoChunks
  /\ c.layout = b.layout /\ c.streaming = b.streaming
  /\ c.steps = b.steps /\ c.loaded = b.loaded

AtStep(b, k) == b.streamStatus = "DuringStep" /\ b.inStep /\ b.position = k

\* A get of nothing.
LEMMA GetNothing ==
  ASSUME NEW b \in ReaderFile, b.m_buffer = NoChunks
  PROVE  get(b) = b
<1>1. \A i \in Iter : b.m_buffer[i] = 0
  BY DEF NoChunks
<1>2. b.loaded = [i \in Iter |-> b.loaded[i]]
  BY DEF ReaderFile
<1>3. get(b) = [b EXCEPT !.loaded = [i \in Iter |-> b.loaded[i]]]
  BY <1>1 DEF get
<1> QED
  BY <1>2, <1>3 DEF ReaderFile

\* BeginStep of a reader: the next step it was given, or the end of the stream.
LEMMA BeginRead ==
  ASSUME NEW b \in ReaderFile, ~b.inStep
  PROVE  BeginStep(b) =
           IF b.position = Len(b.steps) THEN [b EXCEPT !.status = "EndOfStream"]
           ELSE [b EXCEPT !.inStep = TRUE, !.status = "OK", !.position = b.position + 1]
BY DEF BeginStep, ReaderFile

\* What it does to the rest of the record.
LEMMA BeginReadType ==
  ASSUME NEW d \in ReaderFile, ~d.inStep, NEW e, e = BeginStep(d)
  PROVE  /\ e \in ReaderFile /\ e.m_buffer = d.m_buffer /\ e.advanceStatus = d.advanceStatus
         /\ e.layout = d.layout /\ e.streaming = d.streaming /\ e.opened = d.opened
         /\ e.steps = d.steps /\ e.loaded = d.loaded /\ e.streamStatus = d.streamStatus
         /\ d.position = Len(d.steps) =>
              e.status = "EndOfStream" /\ ~e.inStep /\ e.position = d.position
         /\ d.position # Len(d.steps) =>
              e.status = "OK" /\ e.inStep /\ e.position = d.position + 1
<1>1. CASE d.position = Len(d.steps)
  <2>1. e = [d EXCEPT !.status = "EndOfStream"]
    BY <1>1, BeginRead
  <2> QED
    BY <1>1, <2>1 DEF ReaderFile
<1>2. CASE d.position # Len(d.steps)
  <2> DEFINE f == [d EXCEPT !.inStep = TRUE]
             g == [f EXCEPT !.status = "OK"]
             q == d.position + 1
  <2>1. e = [g EXCEPT !.position = q]
    BY <1>2, BeginRead
  <2>2. /\ f \in ReaderFile /\ f.m_buffer = d.m_buffer /\ f.advanceStatus = d.advanceStatus
        /\ f.layout = d.layout /\ f.streaming = d.streaming /\ f.opened = d.opened
        /\ f.steps = d.steps /\ f.loaded = d.loaded /\ f.streamStatus = d.streamStatus
        /\ f.inStep
    BY DEF ReaderFile
  <2> HIDE DEF f
  <2>3. /\ g \in ReaderFile /\ g.m_buffer = f.m_buffer /\ g.advanceStatus = f.advanceStatus
        /\ g.layout = f.layout /\ g.streaming = f.streaming /\ g.opened = f.opened
        /\ g.steps = f.steps /\ g.loaded = f.loaded /\ g.streamStatus = f.streamStatus
        /\ g.inStep /\ g.status = "OK"
    BY <2>2 DEF ReaderFile
  <2> HIDE DEF g
  <2>4. q \in Nat
    BY DEF ReaderFile
  <2> HIDE DEF q
  <2>5. /\ e \in ReaderFile /\ e.m_buffer = g.m_buffer /\ e.advanceStatus = g.advanceStatus
        /\ e.layout = g.layout /\ e.streaming = g.streaming /\ e.opened = g.opened
        /\ e.steps = g.steps /\ e.loaded = g.loaded /\ e.streamStatus = g.streamStatus
        /\ e.inStep /\ e.status = "OK" /\ e.position = q
    BY ONLY <2>1, <2>3, <2>4 DEF ReaderFile
  <2> QED
    BY <1>2, <2>2, <2>3, <2>5 DEF q
<1> QED
  BY <1>1, <1>2

\* Clearing what is empty changes nothing.
LEMMA ClearedRead ==
  ASSUME NEW b \in ReaderFile, b.m_buffer = NoChunks, NEW w \in BOOLEAN
  PROVE  cleared(b, w) = b
<1>1. cleared(b, w) = [b EXCEPT !.m_buffer = b.m_buffer, !.m_attributeWrites = b.m_attributeWrites]
  BY DEF cleared, faulty, ReaderFile
<1> QED
  BY <1>1 DEF ReaderFile

\* A flush with nothing to get comes to what it is told to do.
LEMMA FlushRead ==
  ASSUME NEW b, AtRest(b)
  PROVE  /\ b.streamStatus \in {"DuringStep", "NoStream", "OutsideOfStep"} =>
              flush(b, "putget", FALSE, FALSE) = b
         /\ b.streamStatus \in {"Parsing", "OutsideOfStep"} /\ ~b.inStep =>
              flush(b, "begin", FALSE, TRUE) = BeginStep(b)
         /\ b.streamStatus = "DuringStep" /\ b.inStep =>
              flush(b, "end", TRUE, TRUE) = [b EXCEPT !.inStep = FALSE]
<1>0. /\ b \in ReaderFile /\ b.opened /\ ~faulty(b) /\ b.mode = "Read"
      /\ b.m_buffer = NoChunks /\ b.m_attributeWrites = NoAttributes
      /\ cleared(b, FALSE) = b
  BY ClearedRead DEF AtRest, ReaderFile, faulty
<1>1. ASSUME b.streamStatus # "OutsideOfStep"
      PROVE  run(stepOn(b), TRUE) = b /\ run(stepOn(b), FALSE) = b
  BY <1>0, <1>1, GetNothing DEF stepOn, run
<1>2. ASSUME b.streamStatus \in {"DuringStep", "NoStream", "OutsideOfStep"}
      PROVE  flush(b, "putget", FALSE, FALSE) = b
  <2>1. flush(b, "putget", FALSE, FALSE) = flushEngine(b, "putget", FALSE, FALSE)
    BY <1>0, <1>2 DEF flush, getEngine
  <2>2. perform(b, "putget") = b
    BY DEF perform
  <2> QED
    BY <1>0, <1>1, <1>2, <2>1, <2>2 DEF flushEngine, nothingToDo, writesAttributes
<1>3. ASSUME b.streamStatus \in {"Parsing", "OutsideOfStep"}, ~b.inStep
      PROVE  flush(b, "begin", FALSE, TRUE) = BeginStep(b)
  <2>1. flush(b, "begin", FALSE, TRUE) = flushEngine(b, "begin", FALSE, TRUE)
    BY <1>0, <1>3 DEF flush, getEngine
  <2>2. perform(b, "begin") = BeginStep(b)
    BY <1>0 DEF perform
  <2>3. BeginStep(b) \in ReaderFile /\ BeginStep(b).m_buffer = NoChunks
    BY <1>0, <1>3, BeginReadType
  <2>4. cleared(BeginStep(b), FALSE) = BeginStep(b)
    BY <2>3, ClearedRead
  <2> QED
    BY <1>0, <1>1, <1>3, <2>1, <2>2, <2>4 DEF flushEngine, nothingToDo, writesAttributes
<1>4. ASSUME b.streamStatus = "DuringStep", b.inStep
      PROVE  flush(b, "end", TRUE, TRUE) = [b EXCEPT !.inStep = FALSE]
  <2> DEFINE e == [b EXCEPT !.inStep = FALSE]
  <2>1. flush(b, "end", TRUE, TRUE) = flushEngine(b, "end", TRUE, TRUE)
    BY <1>0, <1>4 DEF flush, getEngine
  <2>2. perform(b, "end") = e
    BY <1>0, <1>4 DEF perform, EndStep
  <2>3. e \in ReaderFile /\ e.m_buffer = NoChunks
    BY <1>0 DEF ReaderFile
  <2> HIDE DEF e
  <2>4. cleared(e, TRUE) = e
    BY <2>3, ClearedRead
  <2>5. flushEngine(b, "end", TRUE, TRUE) = cleared(perform(run(stepOn(b), TRUE), "end"), TRUE)
    BY <1>0, <1>4 DEF flushEngine, nothingToDo
  <2> QED
    BY <1>1, <1>4, <2>1, <2>2, <2>4, <2>5 DEF e
<1> QED
  BY <1>2, <1>3, <1>4

\* advance does nothing to a file without steps.
LEMMA AdvanceNoStream ==
  ASSUME NEW b, AtRest(b), b.streamStatus = "NoStream", NEW mode, NEW c, c = advance(b, mode)
  PROVE  /\ AtRest(c) /\ c.streamStatus = "NoStream" /\ SameView(b, c)
         /\ c.inStep = b.inStep /\ c.position = b.position /\ c.advanceStatus = "OK"
<1> DEFINE d == [b EXCEPT !.advanceStatus = "OK"]
<1>1. /\ AtRest(d) /\ d.streamStatus = "NoStream" /\ SameView(b, d)
      /\ d.inStep = b.inStep /\ d.position = b.position /\ d.advanceStatus = "OK"
  BY DEF AtRest, ReaderFile, SameView
<1>2. c = flush(d, "putget", FALSE, FALSE)
  BY DEF advance, advanceEngine, faulty, AtRest, ReaderFile
<1> HIDE DEF d
<1> QED
  BY <1>1, <1>2, FlushRead

\* BEGINSTEP in the step that was opened with the engine.
LEMMA AdvanceInStep ==
  ASSUME NEW b, AtRest(b), b.streamStatus = "DuringStep", NEW c, c = advance(b, "BEGINSTEP")
  PROVE  /\ AtRest(c) /\ c.streamStatus = "DuringStep" /\ SameView(b, c)
         /\ c.inStep = b.inStep /\ c.position = b.position /\ c.advanceStatus = "OK"
<1> DEFINE d == [b EXCEPT !.advanceStatus = "OK"]
<1>1. /\ AtRest(d) /\ d.streamStatus = "DuringStep" /\ SameView(b, d)
      /\ d.inStep = b.inStep /\ d.position = b.position /\ d.advanceStatus = "OK"
      /\ d.fault = "none" /\ d.m_lastStepStatus = "OK"
  BY DEF AtRest, ReaderFile, SameView
<1>2. c = beginStep(d)
  BY DEF advance, advanceEngine, faulty, AtRest, ReaderFile
<1> HIDE DEF d
<1>3. [d EXCEPT !.status = "OK"] = d /\ [d EXCEPT !.streamStatus = "DuringStep"] = d
  BY <1>1 DEF AtRest, ReaderFile
<1>4. c = d
  <2>1. beginStep(d) = begun([d EXCEPT !.status = d.m_lastStepStatus])
    BY <1>1 DEF beginStep
  <2>2. begun(d) = d
    BY <1>1, <1>3 DEF begun, faulty, AtRest
  <2> QED
    BY <1>1, <1>2, <1>3, <2>1, <2>2
<1> QED
  BY <1>1, <1>4

\* BEGINSTEP outside of a step.
LEMMA AdvanceBegins ==
  ASSUME NEW b, AtRest(b), b.streamStatus \in {"Parsing", "OutsideOfStep"}, ~b.inStep,
         NEW c, c = advance(b, "BEGINSTEP")
  PROVE  /\ SameView(b, c)
         /\ b.position = Len(b.steps) =>
              c.streamStatus = "StreamOver" /\ ~c.inStep /\ c.advanceStatus = "OVER"
         /\ b.position # Len(b.steps) =>
              AtRest(c) /\ AtStep(c, b.position + 1) /\ c.advanceStatus = "OK"
<1> DEFINE d == [b EXCEPT !.advanceStatus = "OK"]
           e == BeginStep(d)
<1>0. /\ AtRest(d) /\ d.streamStatus = b.streamStatus /\ SameView(b, d)
      /\ ~d.inStep /\ d.position = b.position /\ d.advanceStatus = "OK"
  BY DEF AtRest, ReaderFile, SameView
<1>1. c = begun(flush(d, "begin", FALSE, TRUE))
  BY DEF advance, advanceEngine, faulty, AtRest, ReaderFile, beginStep
<1> HIDE DEF d
<1>4. /\ e \in ReaderFile /\ e.m_buffer = NoChunks /\ SameView(d, e)
      /\ e.advanceStatus = "OK"
      /\ d.position = Len(d.steps) => e.status = "EndOfStream" /\ ~e.inStep
      /\ d.position # Len(d.steps) =>
           /\ e.status = "OK" /\ e.inStep /\ e.position = d.position + 1 /\ e.opened
  BY <1>0, BeginReadType DEF AtRest, SameView
<1>5. c = begun(e)
  BY <1>0, <1>1, FlushRead
<1> HIDE DEF e
<1>6. CASE d.position = Len(d.steps)
  <2> DEFINE f == [e EXCEPT !.streamStatus = "StreamOver"]
  <2>1. c = [f EXCEPT !.advanceStatus = "OVER"]
    BY <1>4, <1>5, <1>6 DEF begun, faulty, ReaderFile
  <2>3. /\ f \in ReaderFile /\ f.m_buffer = NoChunks /\ SameView(e, f)
        /\ f.streamStatus = "StreamOver" /\ ~f.inStep
    BY <1>4, <1>6 DEF ReaderFile, SameView, StreamStatus
  <2> HIDE DEF f
  <2>2. /\ c \in ReaderFile /\ c.m_buffer = NoChunks /\ SameView(e, c)
        /\ c.streamStatus = "StreamOver" /\ ~c.inStep /\ c.advanceStatus = "OVER"
    <3>1. /\ c \in ReaderFile /\ SameView(f, c)
          /\ c.streamStatus = "StreamOver" /\ ~c.inStep /\ c.advanceStatus = "OVER"
      BY <2>1, <2>3 DEF ReaderFile, SameView
    <3> QED
      BY <2>3, <3>1 DEF SameView
  <2> QED
    BY <1>0, <1>4, <1>6, <2>2 DEF SameView
<1>7. CASE d.position # Len(d.steps)
  <2>1. c = [e EXCEPT !.streamStatus = "DuringStep"]
    BY <1>4, <1>5, <1>7 DEF begun, faulty, ReaderFile
  <2>2. /\ AtRest(c) /\ SameView(e, c) /\ c.advanceStatus = "OK"
        /\ c.streamStatus = "DuringStep" /\ c.inStep /\ c.position = e.position
    <3>1. /\ e \in ReaderFile /\ e.m_buffer = NoChunks /\ e.advanceStatus = "OK"
          /\ e.status = "OK" /\ e.inStep /\ e.opened /\ "DuringStep" \in StreamStatus
      BY <1>4, <1>7 DEF StreamStatus
    <3> QED
      BY ONLY <2>1, <3>1 DEF ReaderFile, SameView, AtRest
  <2> QED
    BY <1>0, <1>4, <1>7, <2>2 DEF SameView, AtStep
<1> QED
  BY <1>0, <1>6, <1>7 DEF SameView

\* One dataset is loaded.
Gets(b, i, c) == \E k \in present(b, i) : c.loaded = [b.loaded EXCEPT ![i] = b.steps[k].data[i]]

\* A dataset is loaded from a step it is present in.
LEMMA Loads ==
  ASSUME NEW b, AtRest(b), b.streamStatus \in {"DuringStep", "NoStream"}, NEW i \in Iter,
         present(b, i) # {}, present(b, i) \subseteq DOMAIN b.steps,
         NEW c, c = flush(readDataset(b, i), "putget", FALSE, FALSE)
  PROVE  /\ AtRest(c) /\ c.layout = b.layout /\ c.streaming = b.streaming /\ c.steps = b.steps
         /\ c.streamStatus = b.streamStatus /\ c.inStep = b.inStep /\ c.position = b.position
         /\ Gets(b, i, c)
<1> DEFINE v == [NoChunks EXCEPT ![i] = 1]
           d == [b EXCEPT !.m_buffer = v]
           K == CHOOSE k \in present(b, i) : TRUE
           L == [b.loaded EXCEPT ![i] = b.steps[K].data[i]]
           e == [d EXCEPT !.loaded = L]
<1>0. /\ b \in ReaderFile /\ b.opened /\ b.status = "OK" /\ b.m_buffer = NoChunks
      /\ b.steps \in Seq(Step) /\ b.loaded \in [Iter -> Version]
      /\ NoChunks \in [Iter -> Version] /\ 1 \in Version
  <2>1. 1 \in Version
    BY VersionAssumption DEF Version
  <2> QED
    BY <2>1, EmptyTypes DEF AtRest, ReaderFile
<1>1. readDataset(b, i) = d /\ v \in [Iter -> Version] /\ v[i] # 0
      /\ \A j \in Iter \ {i} : v[j] = 0
  BY <1>0 DEF readDataset, NoChunks
<1> HIDE DEF v
<1>2. /\ d \in ReaderFile /\ d.opened /\ d.status = "OK" /\ d.m_buffer = v
      /\ d.layout = b.layout /\ d.streaming = b.streaming /\ d.steps = b.steps
      /\ d.streamStatus = b.streamStatus /\ d.inStep = b.inStep /\ d.position = b.position
      /\ d.loaded = b.loaded /\ d.mode = "Read" /\ ~faulty(d)
  BY <1>0, <1>1 DEF ReaderFile, faulty
<1> HIDE DEF d
<1>3. \A j \in Iter : present(d, j) = present(b, j)
  BY <1>2 DEF present, inSight
<1>4. K \in present(b, i) /\ L \in [Iter -> Version]
  <2>1. K \in present(b, i)
    OBVIOUS
  <2>2. b.steps[K] \in Step
    BY <1>0, <2>1
  <2>3. b.steps[K].data[i] \in Version
    BY <2>2 DEF Step
  <2> HIDE DEF K
  <2> QED
    BY <1>0, <2>1, <2>3
<1>5. get(d) = e
  <2>1. ~\E j \in Iter : d.m_buffer[j] # 0 /\ present(d, j) = {}
    BY <1>1, <1>2, <1>3
  <2>2. get(d) = [d EXCEPT !.loaded =
                    [j \in Iter |-> IF d.m_buffer[j] # 0
                                    THEN d.steps[CHOOSE k \in present(d, j) : TRUE].data[j]
                                    ELSE d.loaded[j]]]
    BY <2>1 DEF get
  <2>3. \A j \in Iter : (IF d.m_buffer[j] # 0
                         THEN d.steps[CHOOSE k \in present(d, j) : TRUE].data[j]
                         ELSE d.loaded[j]) = L[j]
    <3>1. present(d, i) = present(b, i)
      BY <1>3
    <3>2. L[i] = b.steps[K].data[i] /\ \A j \in Iter \ {i} : L[j] = b.loaded[j]
      BY <1>0
    <3>3. d.steps[CHOOSE k \in present(d, i) : TRUE].data[i] = b.steps[K].data[i]
      BY <1>2, <3>1
    <3> HIDE DEF L, K
    <3>4. d.m_buffer[i] # 0 /\ \A j \in Iter \ {i} : d.m_buffer[j] = 0
      BY <1>1, <1>2
    <3> QED
      BY <1>2, <3>2, <3>3, <3>4
  <2>4. L = [j \in Iter |-> L[j]]
    BY <1>4
  <2> QED
    BY <2>2, <2>3, <2>4
<1> HIDE DEF K, L
<1>6. /\ e \in ReaderFile /\ e.opened /\ e.status = "OK" /\ e.m_buffer = v
      /\ e.layout = d.layout /\ e.streaming = d.streaming /\ e.steps = d.steps
      /\ e.streamStatus = d.streamStatus /\ e.inStep = d.inStep /\ e.position = d.position
      /\ e.loaded = L /\ ~faulty(e)
  BY <1>2, <1>4 DEF ReaderFile, faulty
<1> HIDE DEF e
<1>7. c = [e EXCEPT !.m_buffer = NoChunks]
  <2>1. c = flushEngine(d, "putget", FALSE, FALSE)
    BY <1>1, <1>2 DEF flush, getEngine
  <2>2. stepOn(d) = d /\ run(d, FALSE) = e
    BY <1>2, <1>5 DEF stepOn, run
  <2>3. c = cleared(perform(e, "putget"), FALSE)
    BY <1>2, <2>1, <2>2 DEF flushEngine, nothingToDo
  <2>4. perform(e, "putget") = e
    BY DEF perform
  <2>5. cleared(e, FALSE) = [e EXCEPT !.m_buffer = NoChunks, !.m_attributeWrites = e.m_attributeWrites]
    BY <1>6 DEF cleared
  <2>6. [e EXCEPT !.m_buffer = NoChunks, !.m_attributeWrites = e.m_attributeWrites]
          = [e EXCEPT !.m_buffer = NoChunks]
    BY <1>6 DEF ReaderFile
  <2> QED
    BY <2>3, <2>4, <2>5, <2>6
<1>8. /\ AtRest(c) /\ c.layout = e.layout /\ c.streaming = e.streaming /\ c.steps = e.steps
      /\ c.streamStatus = e.streamStatus /\ c.inStep = e.inStep /\ c.position = e.position
      /\ c.loaded = e.loaded
  <2>1. NoChunks \in [Iter -> Version]
    BY <1>0
  <2> QED
    BY ONLY <1>6, <1>7, <2>1 DEF ReaderFile, AtRest
<1>9. \E k \in present(b, i) : c.loaded = [b.loaded EXCEPT ![i] = b.steps[k].data[i]]
  BY <1>4, <1>6, <1>8 DEF L
<1>10. Gets(b, i, c)
  BY <1>9 DEF Gets
<1> QED
  BY <1>2, <1>6, <1>8, <1>10

\* ENDSTEP in a step, and a flush behind it.
LEMMA EndReads ==
  ASSUME NEW b, AtRest(b), NEW k, AtStep(b, k),
         NEW c, c = flush(advance(b, "ENDSTEP"), "putget", FALSE, FALSE)
  PROVE  /\ AtRest(c) /\ SameView(b, c) /\ c.streamStatus = "OutsideOfStep"
         /\ ~c.inStep /\ c.position = b.position
<1> DEFINE d == [b EXCEPT !.advanceStatus = "OK"]
           e == [d EXCEPT !.inStep = FALSE]
           f == [e EXCEPT !.uncommitted = {}]
           g == [f EXCEPT !.streamStatus = "OutsideOfStep"]
<1>0. /\ AtRest(d) /\ d.streamStatus = "DuringStep" /\ d.inStep /\ SameView(b, d)
      /\ d.position = b.position
  BY DEF AtRest, ReaderFile, SameView, AtStep
<1>1. advance(b, "ENDSTEP") = ended(flush(d, "end", TRUE, TRUE))
  <2>1. advance(b, "ENDSTEP") = endStep(d)
    BY DEF advance, advanceEngine, faulty, AtRest, ReaderFile, AtStep
  <2> HIDE DEF d
  <2> QED
    BY <1>0, <2>1 DEF endStep
<1> HIDE DEF d
<1>2. flush(d, "end", TRUE, TRUE) = e
  BY <1>0, FlushRead
<1>3. AtRest(e) /\ SameView(d, e) /\ ~e.inStep /\ e.position = d.position
  BY <1>0 DEF AtRest, ReaderFile, SameView
<1> HIDE DEF e
<1>4. ended(e) = g
  BY <1>3 DEF ended, faulty, AtRest, ReaderFile
<1>5. AtRest(f) /\ SameView(e, f) /\ ~f.inStep /\ f.position = e.position
  BY <1>3 DEF AtRest, ReaderFile, SameView
<1> HIDE DEF f
<1>6. /\ AtRest(g) /\ SameView(f, g) /\ ~g.inStep /\ g.position = f.position
      /\ g.streamStatus = "OutsideOfStep"
  <2>1. "OutsideOfStep" \in StreamStatus
    BY DEF StreamStatus
  <2> QED
    BY <1>5, <2>1 DEF AtRest, ReaderFile, SameView
<1> HIDE DEF g
<1>7. c = g
  BY <1>1, <1>2, <1>4, <1>6, FlushRead
<1> QED
  BY <1>0, <1>3, <1>5, <1>6, <1>7 DEF SameView

\* A reader that was not opened.
Fresh(b) ==
  /\ b \in ReaderFile /\ ~b.opened /\ b.status = "OK" /\ b.m_buffer = NoChunks
  /\ b.position = 0 /\ b.loaded = NoChunks /\ ~b.inStep
  /\ b.streamStatus = IF b.streaming THEN "OutsideOfStep" ELSE "Undecided"

LEMMA NewReader ==
  ASSUME NEW e \in Engines, NEW b, b = newFile(e, "Read")
  PROVE  Fresh(b) /\ b.layout = e.layout /\ b.streaming = e.stream
BY EmptyTypes DEF Engines, newFile, Fresh, ReaderFile, StreamStatus

\* Opening it: in its first step, if there is one, or before it.
LEMMA OpenReads ==
  ASSUME NEW b, Fresh(b), NEW c, c = requireActiveStep(b)
  PROVE  /\ SameView(b, c)
         /\ b.streaming \/ (b.declaresSteps /\ b.layout = "ByAdiosVariables") =>
              IF Len(b.steps) = 0 THEN c.status = "EndOfStream"
              ELSE AtRest(c) /\ AtStep(c, 1)
         /\ ~b.streaming /\ ~(b.declaresSteps /\ b.layout = "ByAdiosVariables") =>
              /\ AtRest(c) /\ ~c.inStep /\ c.position = 0
              /\ c.streamStatus = IF b.declaresSteps THEN "Parsing" ELSE "NoStream"
<1> DEFINE d == [b EXCEPT !.opened = TRUE]
           e == [d EXCEPT !.streamStatus = decided(b)]
<1>0. /\ d \in ReaderFile /\ d.opened /\ d.status = "OK" /\ d.m_buffer = NoChunks
      /\ d.position = 0 /\ ~d.inStep /\ SameView(b, d)
  BY DEF Fresh, ReaderFile, SameView
<1>1. decided(b) = IF b.streaming \/ (b.declaresSteps /\ b.layout = "ByAdiosVariables")
                   THEN "DuringStep"
                   ELSE IF b.declaresSteps THEN "Parsing" ELSE "NoStream"
  BY DEF decided, Fresh, ReaderFile
<1>2. decided(b) \in {"DuringStep", "Parsing", "NoStream"} /\ decided(b) \in StreamStatus
  BY <1>1 DEF StreamStatus
<1>3. getEngine(b) = openReader(e)
  BY DEF getEngine, Fresh, ReaderFile
<1> HIDE DEF d
<1>4. /\ AtRest(e) /\ e.streamStatus = decided(b) /\ ~e.inStep /\ e.position = 0 /\ SameView(d, e)
  BY <1>0, <1>2 DEF ReaderFile, SameView, AtRest
<1> HIDE DEF e
<1>5. CASE decided(b) = "DuringStep"
  <2> DEFINE g == BeginStep(e)
  <2>1. getEngine(b) = g
    BY <1>3, <1>4, <1>5 DEF openReader
  <2>2. /\ g \in ReaderFile /\ g.m_buffer = NoChunks /\ SameView(e, g)
        /\ g.streamStatus = "DuringStep" /\ g.opened
        /\ Len(e.steps) = 0 => g.status = "EndOfStream"
        /\ Len(e.steps) # 0 => g.status = "OK" /\ g.inStep /\ g.position = 0 + 1
    BY <1>4, <1>5, BeginReadType DEF AtRest, SameView
  <2> HIDE DEF g
  <2>3. c = g
    BY <2>1, <2>2 DEF requireActiveStep, stepOn
  <2>4. b.steps = e.steps /\ (b.streaming \/ (b.declaresSteps /\ b.layout = "ByAdiosVariables"))
    BY <1>0, <1>1, <1>4, <1>5 DEF SameView
  <2>5. SameView(b, c)
    BY <1>0, <1>4, <2>2, <2>3 DEF SameView
  <2>6. Len(b.steps) # 0 => AtRest(c) /\ AtStep(c, 1)
    BY <2>2, <2>3, <2>4 DEF AtRest, AtStep
  <2> QED
    BY <2>2, <2>3, <2>4, <2>5, <2>6
<1>6. CASE decided(b) # "DuringStep"
  <2>1. getEngine(b) = e /\ c = e
    BY <1>2, <1>3, <1>4, <1>6 DEF openReader, requireActiveStep, stepOn
  <2>2. SameView(b, c)
    BY <1>0, <1>4, <2>1 DEF SameView
  <2> QED
    BY <1>1, <1>4, <1>6, <2>1, <2>2
<1> QED
  BY <1>5, <1>6

-----------------------------------------------------------------------------
(* What a reader can rely on while the writer goes on.                     *)

\* Nothing that was published is taken back.
Grows(b, c) ==
  /\ \A k \in DOMAIN b.steps : k \in DOMAIN c.steps /\ c.steps[k] = b.steps[k]
  /\ c.layout = b.layout /\ c.streaming = b.streaming
  /\ c.streamStatus = "NoStream" <=> b.streamStatus = "NoStream"

LEMMA Appended ==
  ASSUME NEW b, b.steps \in Seq(Step), NEW p \in Step, NEW c,
         c.steps = b.steps \/ c.steps = Append(b.steps, p)
  PROVE  \A k \in DOMAIN b.steps : k \in DOMAIN c.steps /\ c.steps[k] = b.steps[k]
OBVIOUS

\* Running a task.
LEMMA ExecuteGrows ==
  ASSUME Inv, DeliveryInv, Execute
  PROVE  Grows(file, file')
<1> PICK t : t = Head(m_work)
  OBVIOUS
<1>0. /\ AdvanceInv /\ StepInv /\ Good(file) /\ m_work \in Seq(IOTask) /\ m_work # <<>>
      /\ file' = effect(t) /\ t \in IOTask
      /\ t.op = "ADVANCE" => Advancing /\ phase = "last" /\ file.m_buffer = NoChunks
  BY Taken
<1>1. CASE t.op # "ADVANCE"
  BY <1>1, HandledFile DEF Grows
<1>2. CASE t.op = "ADVANCE"
  <2>1. /\ file' = advance(file, t.mode) /\ t.mode \in Modes
        /\ 1 \in DOMAIN m_work /\ t = m_work[1]
    <3>1. file' = advance(file, t.mode) /\ t.mode \in Modes
      BY <1>0, <1>2 DEF effect, IOTask
    <3>2. 1 \in DOMAIN m_work /\ t = m_work[1]
      BY <1>0
    <3> QED
      BY <3>1, <3>2
  <2>2. t.mode = ModeOf(call.op) /\ call.op \in {"begin", "end"}
    BY <1>0, <1>2, <2>1 DEF AdvanceInv
  <2>3. CASE t.mode = "BEGINSTEP"
    <3>1. SameContents(file, file')
      BY <1>0, <1>2, <2>1, <2>3, Begun
    <3>2. SameEngine(file, file')
      BY <1>0, <1>2, <2>1, <2>3, AdvanceGood
    <3> QED
      BY <3>1, <3>2 DEF Grows, SameContents, SameEngine
  <2>4. CASE t.mode = "ENDSTEP"
    <3>1. call.op = "end"
      BY <2>2, <2>4 DEF ModeOf
    <3>2. file.streamStatus \in {"DuringStep", "NoStream"}
      BY <1>0, <1>2, <3>1 DEF StepInv, Advanced, Good, File, WriterStatus
    <3>3. SameEngine(file, file')
      BY <1>0, <1>2, <2>1, <2>4, <3>2, AdvanceGood
    <3>4. CASE file.streamStatus = "DuringStep"
      <4>1. file'.streamStatus # "NoStream" /\ file'.steps = Append(file.steps, Published(file))
        BY <1>0, <1>2, <2>1, <2>4, <3>4, Ended
      <4>2. Published(file) \in Step /\ file.steps \in Seq(Step)
        BY <1>0, PublishedType DEF Good, File
      <4>3. \A k \in DOMAIN file.steps : k \in DOMAIN file'.steps /\ file'.steps[k] = file.steps[k]
        BY <4>1, <4>2, Appended
      <4> QED
        BY <3>3, <3>4, <4>1, <4>3 DEF Grows, SameEngine
    <3>5. CASE file.streamStatus = "NoStream"
      <4>1. file \in File /\ file.fault = "none" /\ file.advanceStatus = "OK"
        BY <1>0 DEF Good, File
      <4>2. [file EXCEPT !.advanceStatus = "OK"] = file
        BY <4>1 DEF File
      <4>3. file' = flush(file, "putget", FALSE, FALSE)
        BY <2>1, <3>5, <4>1, <4>2 DEF advance, advanceEngine, faulty
      <4>4. SameContents(file, file')
        BY <1>0, <4>3, Gathered
      <4> QED
        BY <3>3, <4>4 DEF Grows, SameContents, SameEngine
    <3> QED
      BY <3>2, <3>4, <3>5
  <2> QED
    BY <2>1, <2>3, <2>4 DEF Modes
<1> QED
  BY <1>1, <1>2

\* Leaving a call.
LEMMA LeaveGrows ==
  ASSUME Inv, phase # "destroyed", NEW r, leave(r)
  PROVE  Grows(file, file') /\ UNCHANGED engine
<1>1. CASE UNCHANGED file
  BY <1>1 DEF Grows, leave
<1>2. CASE ~UNCHANGED file
  <2>1. file' = finalize(file) /\ Good(file) /\ ~file.finalized /\ UNCHANGED engine
    BY <1>2 DEF leave, Inv, FileInv, Good
  <2>2. /\ file'.layout = file.layout /\ file'.streaming = file.streaming
        /\ file'.streamStatus = "NoStream" <=> file.streamStatus = "NoStream"
        /\ file'.steps = file.steps \/ file'.steps = Append(file.steps, Published(file))
    BY <2>1, FinalSteps
  <2>3. Published(file) \in Step /\ file.steps \in Seq(Step)
    BY <2>1, PublishedType DEF Good, File
  <2>4. \A k \in DOMAIN file.steps : k \in DOMAIN file'.steps /\ file'.steps[k] = file.steps[k]
    BY <2>2, <2>3, Appended
  <2> QED
    BY <2>1, <2>2, <2>4 DEF Grows
<1> QED
  BY <1>1, <1>2


\* Every step of the writer.
LEMMA WriterGrows ==
  ASSUME Inv, DeliveryInv, [WriterNext]_writerVars
  PROVE  /\ Grows(file, file') /\ UNCHANGED engine
         /\ finished' = finished \/ finished' = Append(finished, Closing)
         /\ finished' # finished => call.it \in Iter
         /\ phase = "destroyed" => UNCHANGED <<file, finished>>
<1>1. CASE Modify
  BY <1>1 DEF Modify, SetAttribute, StoreChunk, Insert, SetSeriesAttribute, change, Idle,
              backendVars, Grows
<1>2. CASE Flush \/ Destroy
  BY <1>2 DEF Flush, Destroy, Idle, startFlush, backendVars, Grows
<1>3. ASSUME NEW i \in Iter, SwitchTo(i) \/ \E now \in BOOLEAN : Close(i, now)
      PROVE  phase = "idle" /\ UNCHANGED <<file, engine, finished>>
  BY <1>3 DEF SwitchTo, Close, closeIteration, select, Idle, backendVars
<1>4. ASSUME NEW i \in Iter, SkipClosed(i) \/ WriteIteration(i)
      PROVE  phase = "flush" /\ UNCHANGED <<file, engine, finished>>
  BY <1>4 DEF SkipClosed, WriteIteration, Reached, backendVars
<1>5. ASSUME NEW i \in Iter, Reject(i)
      PROVE  Grows(file, file') /\ UNCHANGED <<engine, finished>> /\ phase = "flush"
  <2>1. phase = "flush" /\ UNCHANGED finished /\ \E r : leave(r)
    BY <1>5 DEF Reject, Reached
  <2> QED
    BY <2>1, LeaveGrows
<1>6. CASE Return
  <2>1. phase = "return" /\ UNCHANGED finished /\ leave("ok")
    BY <1>6 DEF Return, afterCall
  <2> QED
    BY <2>1, LeaveGrows
<1>7. CASE LoopDone \/ ReturnToLoop
  BY <1>7 DEF LoopDone, ReturnToLoop, afterCall, backendVars, Grows
<1>8. CASE Execute
  <2>1. phase \in {"drain", "last"} /\ UNCHANGED <<engine, finished>>
    BY <1>8 DEF Execute, Draining
  <2> QED
    BY <1>8, <2>1, ExecuteGrows
<1>9. CASE Settle
  <2>1. /\ phase \in {"drain", "last"} /\ UNCHANGED <<engine, finished>>
        /\ file' = flush(file, "putget", FALSE, FALSE) /\ Good(file)
    BY <1>9 DEF Settle, Draining, flushed, Inv, FileInv, Good
  <2>2. SameContents(file, file') /\ SameEngine(file, file')
    BY <2>1, Gathered, FlushPutGet
  <2> QED
    BY <2>1, <2>2 DEF Grows, SameContents, SameEngine
<1>10. CASE Advance
  <2>1. /\ phase = "advance" /\ UNCHANGED <<file, engine>>
        /\ finished' = finished \/ finished' = Append(finished, Closing)
    BY <1>10 DEF Advance, backendVars, Closing
  <2>2. call.it \in Iter
    BY <2>1 DEF Inv, AdvanceInv, FrontendTypeOK
  <2> QED
    BY <2>1, <2>2 DEF Grows
<1>11. CASE UNCHANGED writerVars
  BY <1>11 DEF writerVars, backendVars, Grows
<1>12. CASE CallAPI
  BY <1>2, <1>3, <1>12 DEF CallAPI, Grows
<1>13. CASE Internal
  BY <1>4, <1>5, <1>6, <1>7, <1>8, <1>9, <1>10, <1>13 DEF Internal, Grows
<1> QED
  BY <1>1, <1>11, <1>12, <1>13 DEF WriterNext

-----------------------------------------------------------------------------
(* The reader and its engine together.                                     *)

\* Everything is known from the start, or each iteration from its step on.
AllKnown == ~Stepwise \/ Cumulative

\* What was parsed, as of the p-th step.
KnownAs(q, p) ==
  /\ \A i \in DOMAIN q : \E m \in DOMAIN finished :
       /\ finished[m].it = i /\ (AllKnown \/ m <= p)
       /\ q[i].attr = finished[m].attr /\ q[i].data = (finished[m].data # 0)
  /\ \A m \in DOMAIN finished : AllKnown \/ m <= p => finished[m].it \in DOMAIN q

Going == readPhase \in {"parsed", "loop", "next"}

KnownInv == Going => KnownAs(parsed, reader.position)

\* What the loop has seen is what was closed, and was loaded then.
VisitedInv ==
  /\ visited \in Seq([it : Iter, attr : Version, data : Version])
  /\ Len(visited) <= Len(finished)
  /\ \A k \in DOMAIN visited : visited[k] = finished[k]
  /\ readClosed = {visited[k].it : k \in DOMAIN visited}
  /\ \A i \in Iter : reader.loaded[i] # 0 => i \in readClosed

\* The reader's engine has been given some of what was published; a file is
\* complete when it is read.
PrefixInv ==
  /\ reader \in ReaderFile /\ reader.m_buffer = NoChunks
  /\ reader.layout = file.layout /\ reader.streaming = file.streaming
  /\ \A k \in DOMAIN reader.steps : k \in DOMAIN file.steps /\ reader.steps[k] = file.steps[k]
  /\ readPhase # "start" /\ ~file.streaming => file.finalized /\ reader.steps = file.steps

InStepAt(k) ==
  IF Stepwise THEN AtStep(reader, k) /\ k \in DOMAIN reader.steps
  ELSE reader.streamStatus = "NoStream" /\ ~reader.inStep

StartInv == readPhase = "start" =>
  /\ reader = newFile(engine, "Read") /\ parsed = <<>> /\ visited = <<>> /\ reader.steps = <<>>
  /\ readStep = "NoStep" /\ m_currentIteration = None

ParsedInv == readPhase = "parsed" =>
  /\ AtRest(reader) /\ visited = <<>>
  /\ IF Stepwise /\ Cumulative
     THEN reader.streamStatus = "Parsing" /\ ~reader.inStep /\ reader.position = 0
     ELSE InStepAt(1)

LoopingInv == readPhase = "loop" =>
  /\ AtRest(reader) /\ readStep = "DuringStep" /\ InStepAt(Len(visited) + 1)
  /\ Len(visited) + 1 \in DOMAIN finished
  /\ m_currentIteration = finished[Len(visited) + 1].it

NextInv == readPhase = "next" =>
  /\ AtRest(reader) /\ readStep = "NoStep" /\ ~reader.inStep
  /\ Len(visited) \in DOMAIN finished
  /\ m_currentIteration = finished[Len(visited)].it
  /\ IF Stepwise
     THEN reader.streamStatus = "OutsideOfStep" /\ reader.position = Len(visited)
     ELSE reader.streamStatus = "NoStream"

DoneInv == readPhase = "done" =>
  /\ file.finalized /\ Len(visited) = Len(finished)
  /\ reader.inStep <=> reader.streamStatus = "DuringStep"

ReaderInv ==
  KnownInv /\ VisitedInv /\ PrefixInv /\ StartInv /\ ParsedInv /\ LoopingInv /\ NextInv /\ DoneInv

\* Where the types of what was closed are.
LEMMA ClosedOne ==
  ASSUME Inv, DeliveryInv, ArchiveInv, NEW m \in DOMAIN finished
  PROVE  /\ finished[m].it \in Iter /\ finished[m].attr # 0 /\ m \in Nat /\ 1 <= m
         /\ m <= Len(finished) /\ Len(finished) \in Nat
         /\ finished[m] = [it |-> finished[m].it, attr |-> finished[m].attr,
                           data |-> finished[m].data]
         /\ \A n \in DOMAIN finished : finished[n].it = finished[m].it => n = m
<1> DEFINE R == [it : Iter, attr : Version, data : Version]
<1>1. finished[m] \in R /\ m \in 1 .. Len(finished)
  BY ClosedOnes
<1>2. finished \in Seq(R)
  BY DEF Inv, FrontendTypeOK
<1>3. Len(finished) \in Nat
  <2> HIDE DEF R
  <2> QED
    BY <1>2
<1>4. finished[m].attr # 0
  BY DEF ArchiveInv, SentInv
<1>5. \A n \in DOMAIN finished : finished[n].it = finished[m].it => n = m
  BY DEF DeliveryInv, ClosedOnce
<1> QED
  BY <1>1, <1>3, <1>4, <1>5

\* The numbers of steps and of closed iterations.
LEMMA Counts ==
  ASSUME Inv, DeliveryInv, ArchiveInv
  PROVE  /\ Len(file.steps) \in Nat /\ Len(finished) \in Nat
         /\ DOMAIN file.steps = 1 .. Len(file.steps) /\ DOMAIN finished = 1 .. Len(finished)
         /\ Stepwise /\ ~file.finalized => Len(file.steps) <= Len(finished)
         /\ Stepwise /\ file.finalized =>
              Len(file.steps) = Len(finished) \/ Len(file.steps) = Len(finished) + 1
         /\ ~Stepwise /\ file.finalized => Len(file.steps) = 1
         /\ file.streaming => ~AllKnown /\ Stepwise
<1> DEFINE R == [it : Iter, attr : Version, data : Version]
<1>1. finished \in Seq(R) /\ file.steps \in Seq(Step)
  BY DEF Inv, FrontendTypeOK, FileInv, File
<1>2. /\ Len(file.steps) \in Nat /\ Len(finished) \in Nat
      /\ DOMAIN file.steps = 1 .. Len(file.steps) /\ DOMAIN finished = 1 .. Len(finished)
  <2> HIDE DEF R
  <2> QED
    BY <1>1
<1>3. CountInv
  BY DEF ArchiveInv
<1>4. file.streaming => ~AllKnown /\ Stepwise
  BY <1>3 DEF CountInv, AllKnown, Cumulative
<1> QED
  BY <1>2, <1>3, <1>4 DEF CountInv

\* An engine that has what was published.
Given(b) ==
  b.steps = file.steps /\ b.layout = file.layout /\ b.streaming = file.streaming

\* In a step, no more is seen than the iteration of that step.
LEMMA SeenInStep ==
  ASSUME Inv, DeliveryInv, ArchiveInv, NEW b, Given(b), NEW k \in DOMAIN file.steps,
         AtStep(b, k), ~AllKnown
  PROVE  /\ \A i \in inFile(b) : k \in DOMAIN finished /\ finished[k].it = i
         /\ \A m \in DOMAIN finished : m = k =>
              /\ finished[m].it \in inFile(b)
              /\ seen(b, finished[m].it).attr = finished[m].attr
              /\ seen(b, finished[m].it).data = (finished[m].data # 0)
<1>0. Stepwise /\ ~Cumulative
  BY DEF AllKnown
<1>1. inSight(b) = {k} /\ attributesInSight(b) = {k}
  BY <1>0 DEF AtStep, inSight, attributesInSight, Given, Cumulative
<1>2. \A i \in Iter :
        /\ present(b, i) # {} <=> file.steps[k].data[i] # 0
        /\ attributeSteps(b, i) = IF file.steps[k].attr[i] # 0 THEN {k} ELSE {}
  BY <1>1 DEF present, attributeSteps, Given
<1>3. Faithful(file.steps[k], k)
  BY DEF ArchiveInv, FaithfulInv
<1>4. \A m : (TellsData(k, m) <=> m = k) /\ (TellsAttr(k, m) <=> m = k)
  BY <1>0 DEF TellsData, TellsAttr
<1>5. ASSUME NEW i \in inFile(b)
      PROVE  k \in DOMAIN finished /\ finished[k].it = i
  <2>1. i \in Iter /\ (file.steps[k].data[i] # 0 \/ file.steps[k].attr[i] # 0)
    BY <1>2, <1>5 DEF inFile
  <2> QED
    BY <1>3, <1>4, <2>1 DEF Faithful
<1>6. ASSUME NEW m \in DOMAIN finished, m = k
      PROVE  /\ finished[m].it \in inFile(b)
             /\ seen(b, finished[m].it).attr = finished[m].attr
             /\ seen(b, finished[m].it).data = (finished[m].data # 0)
  <2> DEFINE i == finished[m].it
  <2>1. i \in Iter /\ finished[m].attr # 0
    BY ClosedOne
  <2>2. file.steps[k].data[i] = finished[m].data /\ file.steps[k].attr[i] = finished[m].attr
    BY <1>3, <1>4, <1>6 DEF Faithful
  <2>3. attributeSteps(b, i) = {k} /\ (present(b, i) # {} <=> finished[m].data # 0)
    BY <1>2, <2>1, <2>2
  <2>4. b.steps[k].attr[i] = finished[m].attr
    BY <2>2 DEF Given
  <2>5. i \in inFile(b)
    BY <2>1, <2>3 DEF inFile
  <2> HIDE DEF i
  <2>6. (CHOOSE l \in {k} : \A n \in {k} : n <= l) = k
    <3>1. k \in Nat
      BY Counts
    <3>2. k \in {k} /\ \A n \in {k} : n <= k
      BY <3>1
    <3> QED
      BY <3>2
  <2>7. seen(b, i).attr = finished[m].attr
    BY <2>3, <2>4, <2>6 DEF seen
  <2>8. seen(b, i).data = (finished[m].data # 0)
    BY <2>3 DEF seen
  <2> QED
    BY <2>5, <2>7, <2>8 DEF i
<1> QED
  BY <1>5, <1>6

\* Whatever is in sight, no iteration is seen that was not closed.
LEMMA SeenClosed ==
  ASSUME Inv, DeliveryInv, ArchiveInv, NEW b, Given(b), inSight(b) \subseteq DOMAIN file.steps,
         NEW i \in inFile(b)
  PROVE  \E m \in DOMAIN finished : finished[m].it = i
<1>1. /\ i \in Iter
      /\ \E k \in DOMAIN file.steps : file.steps[k].data[i] # 0 \/ file.steps[k].attr[i] # 0
  <2>1. attributesInSight(b) \subseteq DOMAIN file.steps
    BY DEF attributesInSight, Given
  <2> QED
    BY <2>1 DEF inFile, present, attributeSteps, Given
<1>2. PICK k \in DOMAIN file.steps : file.steps[k].data[i] # 0 \/ file.steps[k].attr[i] # 0
  BY <1>1
<1>3. Faithful(file.steps[k], k)
  BY DEF ArchiveInv, FaithfulInv
<1> QED
  BY <1>1, <1>2, <1>3 DEF Faithful

\* The steps of a file that is complete and tells of all iterations from the start.
LEMMA AllTold ==
  ASSUME Inv, DeliveryInv, ArchiveInv, AllKnown, file.finalized, NEW m \in DOMAIN finished,
         NEW i, i = finished[m].it
  PROVE  /\ \A k \in DOMAIN file.steps :
              /\ file.steps[k].attr[i] # 0 => file.steps[k].attr[i] = finished[m].attr
              /\ file.steps[k].data[i] # 0 => file.steps[k].data[i] = finished[m].data
         /\ Len(file.steps) \in DOMAIN file.steps
         /\ file.steps[Len(file.steps)].attr[i] = finished[m].attr
         /\ \E k \in DOMAIN file.steps : file.steps[k].data[i] = finished[m].data
<1>0. /\ Len(file.steps) \in Nat /\ DOMAIN file.steps = 1 .. Len(file.steps)
      /\ Len(finished) \in Nat /\ m \in 1 .. Len(finished)
      /\ Stepwise => Cumulative /\ Len(finished) <= Len(file.steps)
      /\ ~Stepwise => Len(file.steps) = 1
  BY Counts DEF AllKnown
<1>1. i \in Iter /\ \A n \in DOMAIN finished : finished[n].it = i => n = m
  BY ClosedOne
<1>2. \A k \in DOMAIN file.steps : Faithful(file.steps[k], k)
  BY DEF ArchiveInv, FaithfulInv
<1>3. ASSUME NEW k \in DOMAIN file.steps
      PROVE  /\ file.steps[k].attr[i] # 0 => file.steps[k].attr[i] = finished[m].attr
             /\ file.steps[k].data[i] # 0 => file.steps[k].data[i] = finished[m].data
  <2>1. Faithful(file.steps[k], k)
    BY <1>2
  <2>2. /\ file.steps[k].attr[i] # 0 => TellsAttr(k, m)
        /\ file.steps[k].data[i] # 0 => TellsData(k, m)
    BY <1>1, <2>1 DEF Faithful
  <2> QED
    BY <2>1, <2>2 DEF Faithful
<1>4. Len(file.steps) \in DOMAIN file.steps
  <2>1. CASE Stepwise
    BY <1>0, <2>1
  <2>2. CASE ~Stepwise
    <3>1. Len(file.steps) = 1
      BY <1>0, <2>2, Zenon
    <3>2. DOMAIN file.steps = 1 .. Len(file.steps)
      BY <1>0
    <3> QED
      BY ONLY <3>1, <3>2
  <2> QED
    BY <2>1, <2>2
<1>5. file.steps[Len(file.steps)].attr[i] = finished[m].attr
  <2>1. TellsAttr(Len(file.steps), m)
    <3>1. m = Len(file.steps) \/ m < Len(file.steps) \/ ~Stepwise
      BY <1>0
    <3> QED
      BY <1>0, <3>1 DEF TellsAttr
  <2>2. Faithful(file.steps[Len(file.steps)], Len(file.steps))
    BY <1>2, <1>4
  <2> QED
    BY <2>1, <2>2 DEF Faithful
<1>6. \E k \in DOMAIN file.steps : file.steps[k].data[i] = finished[m].data
  <2>1. CASE Stepwise
    <3>1. m \in DOMAIN file.steps
      BY <1>0, <2>1
    <3>2. Faithful(file.steps[m], m) /\ TellsData(m, m)
      BY <1>2, <3>1 DEF TellsData
    <3> QED
      BY <3>1, <3>2 DEF Faithful
  <2>2. CASE ~Stepwise
    <3>1. Faithful(file.steps[Len(file.steps)], Len(file.steps)) /\ TellsData(Len(file.steps), m)
      BY <1>2, <1>4, <2>2 DEF TellsData
    <3> QED
      BY <1>4, <3>1 DEF Faithful
  <2> QED
    BY <2>1, <2>2
<1> QED
  BY <1>3, <1>4, <1>5, <1>6

\* Such a file shows all iterations before a step of it is begun.
LEMMA SeenAll ==
  ASSUME Inv, DeliveryInv, ArchiveInv, NEW b, Given(b), ~b.inStep, AllKnown, file.finalized,
         NEW m \in DOMAIN finished, NEW i, i = finished[m].it
  PROVE  /\ i \in inFile(b)
         /\ seen(b, i).attr = finished[m].attr
         /\ seen(b, i).data = (finished[m].data # 0)
<1>0. i \in Iter /\ finished[m].attr # 0
  BY ClosedOne
<1>1. inSight(b) = DOMAIN file.steps /\ attributesInSight(b) = DOMAIN file.steps
  BY DEF inSight, attributesInSight, Given
<1>2. /\ \A k \in DOMAIN file.steps :
           /\ file.steps[k].attr[i] # 0 => file.steps[k].attr[i] = finished[m].attr
           /\ file.steps[k].data[i] # 0 => file.steps[k].data[i] = finished[m].data
      /\ Len(file.steps) \in DOMAIN file.steps
      /\ file.steps[Len(file.steps)].attr[i] = finished[m].attr
      /\ \E k \in DOMAIN file.steps : file.steps[k].data[i] = finished[m].data
  BY AllTold
<1> DEFINE A == attributeSteps(b, i)
           K == CHOOSE k \in A : \A l \in A : l <= k
<1>3. A = {k \in DOMAIN file.steps : file.steps[k].attr[i] # 0}
  BY <1>1 DEF attributeSteps, Given
<1>4. Len(file.steps) \in A /\ \A l \in A : l <= Len(file.steps)
  <2>1. Len(file.steps) \in Nat /\ DOMAIN file.steps = 1 .. Len(file.steps)
    BY Counts
  <2>2. \A l \in DOMAIN file.steps : l <= Len(file.steps)
    BY <2>1
  <2> QED
    BY <1>0, <1>2, <1>3, <2>2
<1>5. K \in A /\ A # {}
  <2> HIDE DEF A
  <2> QED
    BY <1>4
<1>6. file.steps[K].attr[i] = finished[m].attr
  <2> HIDE DEF K
  <2> QED
    BY <1>2, <1>3, <1>5
<1>7. seen(b, i).attr = finished[m].attr
  <2>1. seen(b, i).attr = b.steps[K].attr[i]
    BY <1>5 DEF seen
  <2> QED
    BY <1>6, <2>1 DEF Given
<1>8. present(b, i) # {} <=> finished[m].data # 0
  <2>1. present(b, i) = {k \in DOMAIN file.steps : file.steps[k].data[i] # 0}
    BY <1>1 DEF present, Given
  <2> QED
    BY <1>2, <2>1
<1>9. i \in inFile(b)
  BY <1>0, <1>5 DEF inFile
<1> QED
  BY <1>7, <1>8, <1>9 DEF seen

\* What the reader knows after it has come to the k-th step.
LEMMA Reparsed ==
  ASSUME Inv, DeliveryInv, ArchiveInv, NEW p \in Nat, KnownAs(parsed, p), NEW b, Given(b),
         NEW k \in Nat, NEW q, q = reparsed(b),
         \/ Stepwise /\ AtStep(b, k) /\ k \in DOMAIN file.steps /\ (p = k \/ p + 1 = k)
         \/ ~Stepwise /\ ~b.inStep
  PROVE  KnownAs(q, k)
<1> DEFINE Told(i, m) == /\ finished[m].it = i /\ (AllKnown \/ m <= k)
                         /\ q[i].attr = finished[m].attr /\ q[i].data = (finished[m].data # 0)
<1>0. /\ DOMAIN q = DOMAIN parsed \cup inFile(b)
      /\ \A i \in DOMAIN parsed : q[i] = parsed[i]
      /\ \A i \in inFile(b) : i \in DOMAIN parsed \/ q[i] = seen(b, i)
  BY DEF reparsed, known
<1>1. ASSUME NEW i \in DOMAIN parsed
      PROVE  \E m \in DOMAIN finished : Told(i, m)
  <2>1. PICK m \in DOMAIN finished :
          /\ finished[m].it = i /\ (AllKnown \/ m <= p)
          /\ parsed[i].attr = finished[m].attr /\ parsed[i].data = (finished[m].data # 0)
    BY DEF KnownAs
  <2>2. AllKnown \/ m <= k
    <3>1. m \in Nat
      BY ClosedOne
    <3>2. AllKnown \/ p <= k
      BY DEF AllKnown
    <3> QED
      BY <2>1, <3>1, <3>2
  <2>3. q[i] = parsed[i]
    BY <1>0
  <2>4. Told(i, m)
    BY <2>1, <2>2, <2>3
  <2> HIDE DEF Told
  <2> QED
    BY <2>4
<1>2. CASE AllKnown
  <2>1. inSight(b) \subseteq DOMAIN file.steps
    BY DEF inSight, AtStep, Given
  <2>2. ASSUME NEW i \in inFile(b) PROVE i \in DOMAIN parsed
    <3>1. PICK m \in DOMAIN finished : finished[m].it = i
      BY <2>1, <2>2, SeenClosed
    <3> QED
      BY <1>2, <3>1 DEF KnownAs
  <2>3. DOMAIN q = DOMAIN parsed
    BY <1>0, <2>2
  <2> QED
    BY <1>1, <1>2, <2>3 DEF KnownAs
<1>3. CASE ~AllKnown
  <2>0. AtStep(b, k) /\ k \in DOMAIN file.steps /\ (p = k \/ p + 1 = k)
    BY <1>3 DEF AllKnown
  <2>1. /\ \A i \in inFile(b) : k \in DOMAIN finished /\ finished[k].it = i
        /\ \A m \in DOMAIN finished : m = k =>
             /\ finished[m].it \in inFile(b)
             /\ seen(b, finished[m].it).attr = finished[m].attr
             /\ seen(b, finished[m].it).data = (finished[m].data # 0)
    BY <1>3, <2>0, SeenInStep
  <2>2. ASSUME NEW i \in DOMAIN q
        PROVE  \E m \in DOMAIN finished : Told(i, m)
    <3>1. CASE i \in DOMAIN parsed
      <4> HIDE DEF Told
      <4> QED
        BY <1>1, <3>1
    <3>2. CASE i \notin DOMAIN parsed
      <4>1. i \in inFile(b) /\ q[i] = seen(b, i)
        BY <1>0, <2>2, <3>2
      <4>2. k \in DOMAIN finished /\ finished[k].it = i
        BY <2>1, <4>1
      <4>3. Told(i, k)
        BY <2>1, <4>1, <4>2
      <4> HIDE DEF Told
      <4> QED
        BY <4>2, <4>3
    <3> QED
      BY <3>1, <3>2
  <2>3. ASSUME NEW m \in DOMAIN finished, m <= k
        PROVE  finished[m].it \in DOMAIN q
    <3>1. m \in Nat
      BY ClosedOne
    <3>2. m = k \/ m <= p
      BY <2>0, <2>3, <3>1
    <3> QED
      BY <1>0, <2>1, <3>2 DEF KnownAs
  <2> QED
    BY <1>3, <2>2, <2>3 DEF KnownAs
<1> QED
  BY <1>2, <1>3

\* The next iteration of the loop is the one that was closed next.
LEMMA NextClosed ==
  ASSUME Inv, DeliveryInv, ArchiveInv, NEW v \in Nat, v + 1 \in DOMAIN finished,
         NEW S, \A i \in S : \E m \in DOMAIN finished : finished[m].it = i /\ v < m,
         finished[v + 1].it \in S, NEW i \in S, Least(i, S)
  PROVE  i = finished[v + 1].it
<1>1. PICK m \in DOMAIN finished : finished[m].it = i /\ v < m
  OBVIOUS
<1>2. i <= finished[v + 1].it
  BY DEF Least
<1>3. m \in Nat /\ finished[m].it \in Nat /\ finished[v + 1].it \in Nat
  BY ClosedOne, IterAssumption
<1>4. CASE m = v + 1
  BY <1>1, <1>4
<1>5. CASE v + 1 < m
  <2>1. finished[v + 1].it < finished[m].it
    BY <1>5 DEF ArchiveInv, SentInv
  <2> QED
    BY <1>1, <1>2, <1>3, <2>1
<1> QED
  BY <1>1, <1>3, <1>4, <1>5

\* A reader that has not begun.
LEMMA ReaderBegins ==
  ASSUME Inv, ReaderInit
  PROVE  ReaderInv
<1>1. /\ reader = newFile(engine, "Read") /\ parsed = <<>> /\ visited = <<>> /\ readClosed = {}
      /\ readStep = "NoStep" /\ m_currentIteration = None /\ readPhase = "start"
  BY DEF ReaderInit
<1>2. engine \in Engines
  BY ConfigsAssumption DEF Inv, FileInv
<1>3. Fresh(reader) /\ reader.layout = engine.layout /\ reader.streaming = engine.stream
  BY <1>1, <1>2, NewReader
<1>4. reader.steps = <<>>
  BY <1>1 DEF newFile
<1>5. PrefixInv
  BY <1>1, <1>3, <1>4 DEF PrefixInv, Fresh, Inv, FileInv
<1>6. VisitedInv
  <2>1. \A i \in Iter : reader.loaded[i] = 0
    BY <1>3 DEF Fresh, NoChunks
  <2>2. Len(finished) \in Nat
    BY DEF Inv, FrontendTypeOK
  <2> QED
    BY <1>1, <2>1, <2>2 DEF VisitedInv
<1> QED
  BY <1>1, <1>4, <1>5, <1>6
     DEF ReaderInv, KnownInv, Going, StartInv, ParsedInv, LoopingInv, NextInv, DoneInv

\* What was closed stays at its place.
LEMMA ClosedStays ==
  ASSUME Inv, DeliveryInv, [WriterNext]_writerVars
  PROVE  /\ \A m \in DOMAIN finished : m \in DOMAIN finished' /\ finished'[m] = finished[m]
         /\ \A m \in DOMAIN finished' : m \in DOMAIN finished \/ m = Len(finished) + 1
         /\ Len(finished) <= Len(finished') /\ Len(finished) \in Nat
<1> DEFINE R == [it : Iter, attr : Version, data : Version]
<1>1. finished \in Seq(R)
  BY DEF Inv, FrontendTypeOK
<1>2. finished' = finished \/ finished' = Append(finished, Closing)
  BY WriterGrows
<1> DEFINE c == Closing
<1> HIDE DEF R, c
<1>3. finished' = finished \/ finished' = Append(finished, c)
  BY <1>2 DEF c
<1> QED
  BY <1>1, <1>3

\* While the writer goes on, what the reader knows and has seen stays true.
LEMMA WritingReads ==
  ASSUME Inv, DeliveryInv, ArchiveInv, ReaderInv, [WriterNext]_writerVars, UNCHANGED readerVars
  PROVE  ReaderInv'
<1>0. /\ UNCHANGED <<reader, parsed, readClosed, readStep, m_currentIteration, readPhase, visited>>
      /\ Going' <=> Going
  BY DEF readerVars, Going
<1>1. /\ Grows(file, file') /\ UNCHANGED engine
      /\ phase = "destroyed" => UNCHANGED <<file, finished>>
  BY WriterGrows
<1>2. file.finalized => UNCHANGED <<file, finished>>
  BY <1>1 DEF Inv, FileInv
<1>3. (Stepwise' <=> Stepwise) /\ (Cumulative' <=> Cumulative) /\ (AllKnown' <=> AllKnown)
  BY <1>1 DEF Grows, Stepwise, Cumulative, AllKnown
<1>4. /\ \A m \in DOMAIN finished : m \in DOMAIN finished' /\ finished'[m] = finished[m]
      /\ \A m \in DOMAIN finished' : m \in DOMAIN finished \/ m = Len(finished) + 1
      /\ Len(finished) <= Len(finished') /\ Len(finished) \in Nat
  BY ClosedStays
<1>5. PrefixInv'
  BY <1>0, <1>1, <1>2 DEF ReaderInv, PrefixInv, Grows
<1>6. VisitedInv'
  <2>1. VisitedInv
    BY DEF ReaderInv
  <2>2. Len(visited) \in Nat /\ DOMAIN visited = 1 .. Len(visited)
    <3> DEFINE R == [it : Iter, attr : Version, data : Version]
    <3>1. visited \in Seq(R)
      BY <2>1 DEF VisitedInv
    <3> HIDE DEF R
    <3> QED
      BY <3>1
  <2>3. Len(finished') \in Nat
    BY InvNext DEF Inv, FrontendTypeOK
  <2>4. Len(visited) <= Len(finished')
    BY <1>4, <2>1, <2>2, <2>3 DEF VisitedInv
  <2>5. \A k \in DOMAIN visited : visited[k] = finished'[k]
    <3>1. \A k \in DOMAIN visited : k \in DOMAIN finished
      BY <2>1, <2>2, Counts DEF VisitedInv
    <3> QED
      BY <1>4, <2>1, <3>1 DEF VisitedInv
  <2> QED
    BY <1>0, <2>1, <2>4, <2>5 DEF VisitedInv
<1>7. KnownInv'
  <2>1. ASSUME Going, ~AllKnown
        PROVE  reader.position <= Len(finished) \/ file.finalized
    <3>1. Stepwise /\ ~Cumulative
      BY <2>1 DEF AllKnown
    <3>2. CASE readPhase = "next"
      BY <3>1, <3>2, Counts DEF ReaderInv, NextInv
    <3>3. CASE readPhase \in {"parsed", "loop"}
      <4>1. PICK k : AtStep(reader, k) /\ k \in DOMAIN reader.steps
        BY <3>1, <3>3 DEF ReaderInv, ParsedInv, LoopingInv, InStepAt
      <4>2. reader.position \in DOMAIN file.steps
        BY <4>1 DEF ReaderInv, PrefixInv, AtStep
      <4> QED
        BY <3>1, <4>2, Counts
    <3> QED
      BY <2>1, <3>2, <3>3 DEF Going
  <2>2. ASSUME Going, AllKnown
        PROVE  file.finalized
    BY <2>2, Counts DEF ReaderInv, PrefixInv, Going
  <2>3. ASSUME Going
        PROVE  KnownAs(parsed, reader.position)'
    <3>1. KnownAs(parsed, reader.position)
      BY <2>3 DEF ReaderInv, KnownInv
    <3>2. CASE file.finalized
      BY <1>0, <1>2, <1>3, <3>1, <3>2 DEF KnownAs
    <3>3. CASE ~file.finalized
      <4>1. ~AllKnown /\ reader.position <= Len(finished) /\ reader.position \in Nat
        BY <2>1, <2>2, <2>3, <3>3 DEF ReaderInv, PrefixInv, ReaderFile
      <4>2. \A m \in DOMAIN finished' : m <= reader.position => m \in DOMAIN finished
        BY <1>4, <4>1
      <4>3. \A i \in DOMAIN parsed : \E m \in DOMAIN finished :
              /\ finished[m].it = i /\ m <= reader.position
              /\ parsed[i].attr = finished[m].attr /\ parsed[i].data = (finished[m].data # 0)
        BY <3>1, <4>1 DEF KnownAs
      <4>4. \A i \in DOMAIN parsed : \E m \in DOMAIN finished' :
              /\ finished'[m].it = i /\ m <= reader.position
              /\ parsed[i].attr = finished'[m].attr /\ parsed[i].data = (finished'[m].data # 0)
        BY <1>4, <4>3
      <4>5. \A m \in DOMAIN finished' : m <= reader.position => finished'[m].it \in DOMAIN parsed
        BY <1>4, <3>1, <4>2 DEF KnownAs
      <4> QED
        BY <1>0, <1>3, <4>1, <4>4, <4>5 DEF KnownAs
    <3> QED
      BY <3>2, <3>3
  <2> QED
    BY <1>0, <2>3 DEF KnownInv
<1>8. StartInv' /\ ParsedInv'
  BY <1>0, <1>1, <1>3 DEF ReaderInv, StartInv, ParsedInv, InStepAt
<1>9. LoopingInv' /\ NextInv'
  BY <1>0, <1>3, <1>4 DEF ReaderInv, LoopingInv, NextInv, InStepAt
<1>10. DoneInv'
  BY <1>0, <1>2 DEF ReaderInv, DoneInv
<1> QED
  BY <1>5, <1>6, <1>7, <1>8, <1>9, <1>10 DEF ReaderInv

\* The engine is given what was published.
LEMMA Updated ==
  ASSUME Inv, ReaderInv, NEW b, b = upToDate(reader)
  PROVE  /\ SameView(b, b) /\ Given(b) /\ b.loaded = reader.loaded
         /\ b.streamStatus = reader.streamStatus /\ b.inStep = reader.inStep
         /\ b.position = reader.position /\ (AtRest(reader) => AtRest(b))
         /\ (Fresh(reader) => Fresh(b)) /\ b.declaresSteps = file.declaresSteps
<1> DEFINE d == [reader EXCEPT !.steps = file.steps]
           x == file.declaresSteps
<1>0. /\ reader \in ReaderFile /\ reader.m_buffer = NoChunks
      /\ reader.layout = file.layout /\ reader.streaming = file.streaming
      /\ file.steps \in Seq(Step) /\ x \in BOOLEAN
  BY DEF ReaderInv, PrefixInv, Inv, FileInv, File
<1>1. /\ d \in ReaderFile /\ d.m_buffer = NoChunks /\ d.steps = file.steps
      /\ d.layout = reader.layout /\ d.streaming = reader.streaming
      /\ d.loaded = reader.loaded /\ d.streamStatus = reader.streamStatus
      /\ d.inStep = reader.inStep /\ d.position = reader.position
      /\ d.opened = reader.opened /\ d.status = reader.status
  BY <1>0 DEF ReaderFile
<1>2. b = [d EXCEPT !.declaresSteps = x]
  BY DEF upToDate
<1> HIDE DEF d, x
<1>3. /\ b \in ReaderFile /\ b.m_buffer = NoChunks /\ b.steps = file.steps
      /\ b.layout = d.layout /\ b.streaming = d.streaming
      /\ b.loaded = d.loaded /\ b.streamStatus = d.streamStatus
      /\ b.inStep = d.inStep /\ b.position = d.position
      /\ b.opened = d.opened /\ b.status = d.status
      /\ b.declaresSteps = x
  BY ONLY <1>0, <1>1, <1>2 DEF ReaderFile
<1>4. AtRest(reader) => AtRest(b)
  BY <1>1, <1>3 DEF AtRest
<1>5. Fresh(reader) => Fresh(b)
  BY <1>1, <1>3 DEF Fresh
<1> QED
  BY <1>0, <1>1, <1>3, <1>4, <1>5 DEF SameView, Given, x

\* Opening the Series.
LEMMA ConstructReads ==
  ASSUME Inv, DeliveryInv, ArchiveInv, ReaderInv, Construct, UNCHANGED writerVars
  PROVE  ReaderInv'
<1> DEFINE b == upToDate(reader)
           c == requireActiveStep(b)
<1>0. /\ readPhase = "start" /\ mayBegin(reader) /\ (engine.stream \/ file.finalized)
      /\ reader' = c /\ parsed' = reparsed(c)
      /\ readPhase' = IF c.status = "EndOfStream" THEN "failed" ELSE "parsed"
      /\ UNCHANGED <<readClosed, readStep, m_currentIteration, visited, file, finished, engine>>
  BY DEF Construct, writerVars, backendVars
<1>1. /\ reader = newFile(engine, "Read") /\ parsed = <<>> /\ visited = <<>>
      /\ readStep = "NoStep" /\ m_currentIteration = None
  BY <1>0 DEF ReaderInv, StartInv
<1>2. Fresh(reader)
  BY <1>1, NewReader, ConfigsAssumption DEF Inv, FileInv
<1>3. Fresh(b) /\ Given(b) /\ b.declaresSteps = file.declaresSteps /\ b.loaded = reader.loaded
  BY <1>2, Updated
<1> HIDE DEF b
<1>4. /\ SameView(b, c)
      /\ b.streaming \/ (b.declaresSteps /\ b.layout = "ByAdiosVariables") =>
           IF Len(b.steps) = 0 THEN c.status = "EndOfStream"
           ELSE AtRest(c) /\ AtStep(c, 1)
      /\ ~b.streaming /\ ~(b.declaresSteps /\ b.layout = "ByAdiosVariables") =>
           /\ AtRest(c) /\ ~c.inStep /\ c.position = 0
           /\ c.streamStatus = IF b.declaresSteps THEN "Parsing" ELSE "NoStream"
  BY <1>3, OpenReads
<1> HIDE DEF c
<1>5. Given(c) /\ c \in ReaderFile /\ c.m_buffer = NoChunks /\ c.loaded = reader.loaded
  BY <1>3, <1>4 DEF SameView, Given
<1>6. /\ (Stepwise' <=> Stepwise) /\ (Cumulative' <=> Cumulative) /\ (AllKnown' <=> AllKnown)
  BY <1>0 DEF Stepwise, Cumulative, AllKnown
<1>7. /\ file.layout \in {"ByAdiosAttributes", "ByAdiosVariables"}
      /\ ~file.streaming => file.finalized
      /\ file.finalized => (file.declaresSteps <=> Stepwise)
      /\ file.streaming => Stepwise /\ ~AllKnown
  BY <1>0, Counts DEF Inv, FileInv, File, ArchiveInv, CountInv
<1>8. PrefixInv'
  BY <1>0, <1>5, <1>7 DEF PrefixInv, Given
<1>9. VisitedInv'
  BY <1>0, <1>5 DEF ReaderInv, VisitedInv
<1>10. readPhase' = "parsed" =>
         /\ AtRest(c) /\ KnownAs(reparsed(c), c.position)
         /\ IF Stepwise /\ Cumulative
            THEN c.streamStatus = "Parsing" /\ ~c.inStep /\ c.position = 0
            ELSE IF Stepwise THEN AtStep(c, 1) /\ 1 \in DOMAIN file.steps
                 ELSE c.streamStatus = "NoStream" /\ ~c.inStep
  <2>1. CASE AllKnown
    <3>1. file.finalized /\ ~file.streaming
      BY <1>7, <2>1
    <3>2. ~(b.declaresSteps /\ b.layout = "ByAdiosVariables")
      BY <1>3, <1>7, <2>1, <3>1 DEF Given, AllKnown, Cumulative
    <3>3. /\ AtRest(c) /\ ~c.inStep /\ c.position = 0
          /\ c.streamStatus = IF Stepwise THEN "Parsing" ELSE "NoStream"
      BY <1>3, <1>4, <1>7, <3>1, <3>2 DEF Given
    <3>4. \A m \in DOMAIN finished :
            /\ finished[m].it \in inFile(c)
            /\ seen(c, finished[m].it).attr = finished[m].attr
            /\ seen(c, finished[m].it).data = (finished[m].data # 0)
      BY <1>5, <2>1, <3>1, <3>3, SeenAll
    <3>5. \A i \in inFile(c) : \E m \in DOMAIN finished : finished[m].it = i
      <4>1. inSight(c) \subseteq DOMAIN file.steps
        BY <1>5, <3>3 DEF inSight, Given
      <4> QED
        BY <1>5, <4>1, SeenClosed
    <3>6. /\ DOMAIN reparsed(c) = inFile(c)
          /\ \A i \in inFile(c) : reparsed(c)[i] = seen(c, i)
      BY <1>1 DEF reparsed, known
    <3>7. KnownAs(reparsed(c), c.position)
      <4>1. \A i \in DOMAIN reparsed(c) : \E m \in DOMAIN finished :
              /\ finished[m].it = i
              /\ reparsed(c)[i].attr = finished[m].attr
              /\ reparsed(c)[i].data = (finished[m].data # 0)
        BY <3>4, <3>5, <3>6
      <4> QED
        BY <2>1, <3>4, <3>6, <4>1 DEF KnownAs
    <3> QED
      BY <2>1, <3>3, <3>7 DEF AllKnown
  <2>2. CASE ~AllKnown
    <3>1. Stepwise /\ ~Cumulative
      BY <2>2 DEF AllKnown
    <3>2. b.streaming \/ (b.declaresSteps /\ b.layout = "ByAdiosVariables")
      BY <1>3, <1>7, <3>1 DEF Given, Cumulative
    <3>3. ASSUME readPhase' = "parsed"
          PROVE  AtRest(c) /\ AtStep(c, 1) /\ 1 \in DOMAIN file.steps
      <4>1. Len(b.steps) # 0 /\ AtRest(c) /\ AtStep(c, 1)
        BY <1>0, <1>4, <3>2, <3>3
      <4> QED
        BY <1>3, <4>1, Counts DEF Given
    <3>4. KnownAs(parsed, 0)
      BY <1>1, <2>2, ClosedOne DEF KnownAs
    <3>5. readPhase' = "parsed" => KnownAs(reparsed(c), 1)
      BY <1>5, <3>1, <3>3, <3>4, Reparsed
    <3> QED
      BY <3>1, <3>3, <3>5 DEF AtStep
  <2> QED
    BY <2>1, <2>2
<1>11. KnownInv'
  BY <1>0, <1>6, <1>10 DEF KnownInv, KnownAs, Going
<1>12. ParsedInv'
  BY <1>0, <1>1, <1>5, <1>6, <1>10 DEF ParsedInv, InStepAt, Given
<1> QED
  BY <1>0, <1>8, <1>9, <1>11, <1>12 DEF ReaderInv, StartInv, LoopingInv, NextInv, DoneInv

LEMMA VisitedNumber ==
  ASSUME Inv, ReaderInv
  PROVE  Len(visited) \in Nat /\ DOMAIN visited = 1 .. Len(visited)
<1> DEFINE R == [it : Iter, attr : Version, data : Version]
<1>1. visited \in Seq(R)
  BY DEF ReaderInv, VisitedInv
<1> HIDE DEF R
<1> QED
  BY <1>1

\* Going on to the next step: the end comes when everything closed was visited.
LEMMA Begins ==
  ASSUME Inv, DeliveryInv, ArchiveInv, ReaderInv, readPhase \in {"parsed", "next"},
         mayBegin(reader), NEW v, v = Len(visited),
         NEW b, b = advance(upToDate(reader), "BEGINSTEP")
  PROVE  /\ b \in ReaderFile /\ b.m_buffer = NoChunks /\ Given(b) /\ b.loaded = reader.loaded
         /\ b.advanceStatus = "OVER" =>
              /\ file.finalized /\ v = Len(finished)
              /\ b.streamStatus = "StreamOver" /\ ~b.inStep
         /\ b.advanceStatus # "OVER" =>
              /\ AtRest(b)
              /\ IF Stepwise
                 THEN /\ AtStep(b, v + 1) /\ v + 1 \in DOMAIN file.steps
                      /\ reader.position = v \/ reader.position = v + 1
                 ELSE b.streamStatus = "NoStream" /\ ~b.inStep
<1> DEFINE u == upToDate(reader)
<1>0. /\ SameView(u, u) /\ Given(u) /\ u.loaded = reader.loaded
      /\ u.streamStatus = reader.streamStatus /\ u.inStep = reader.inStep
      /\ u.position = reader.position /\ AtRest(u) /\ b = advance(u, "BEGINSTEP")
  BY Updated DEF ReaderInv, ParsedInv, NextInv
<1> HIDE DEF u
<1>1. /\ Len(file.steps) \in Nat /\ Len(finished) \in Nat /\ v \in Nat
      /\ DOMAIN file.steps = 1 .. Len(file.steps) /\ DOMAIN finished = 1 .. Len(finished)
      /\ Stepwise /\ file.finalized =>
           Len(file.steps) = Len(finished) \/ Len(file.steps) = Len(finished) + 1
      /\ file.finalized \/ file.streaming
  BY Counts, VisitedNumber DEF ReaderInv, PrefixInv
<1>2. CASE ~Stepwise
  <2>1. u.streamStatus = "NoStream" /\ ~u.inStep
    BY <1>0, <1>2 DEF ReaderInv, ParsedInv, NextInv, InStepAt
  <2>2. /\ AtRest(b) /\ b.streamStatus = "NoStream" /\ SameView(u, b)
        /\ b.inStep = u.inStep /\ b.advanceStatus = "OK"
    BY <1>0, <2>1, AdvanceNoStream
  <2> QED
    BY <1>0, <1>2, <2>1, <2>2 DEF SameView, Given
<1>3. CASE Stepwise /\ readPhase = "parsed" /\ ~Cumulative
  <2>1. /\ v = 0 /\ u.streamStatus = "DuringStep" /\ u.inStep /\ u.position = 1
        /\ 1 \in DOMAIN file.steps
    <3>1. visited = <<>> /\ AtStep(reader, 1) /\ 1 \in DOMAIN reader.steps
      BY <1>3 DEF ReaderInv, ParsedInv, InStepAt
    <3>2. 1 \in DOMAIN file.steps
      BY <3>1 DEF ReaderInv, PrefixInv
    <3> QED
      BY <1>0, <3>1, <3>2 DEF AtStep
  <2>2. /\ AtRest(b) /\ b.streamStatus = "DuringStep" /\ SameView(u, b)
        /\ b.inStep = u.inStep /\ b.position = u.position /\ b.advanceStatus = "OK"
    BY <1>0, <2>1, AdvanceInStep
  <2>3. AtStep(b, v + 1) /\ v + 1 \in DOMAIN file.steps /\ reader.position = v + 1
    <3>1. v + 1 = 1
      BY <2>1
    <3> QED
      BY <1>0, <2>1, <2>2, <3>1, Zenon DEF AtStep
  <2> QED
    BY <1>0, <1>3, <2>2, <2>3 DEF SameView, Given
<1>4. CASE Stepwise /\ ~(readPhase = "parsed" /\ ~Cumulative)
  <2>1. u.streamStatus \in {"Parsing", "OutsideOfStep"} /\ ~u.inStep /\ u.position = v
    BY <1>0, <1>4 DEF ReaderInv, ParsedInv, NextInv
  <2>2. v <= Len(finished)
    BY DEF ReaderInv, VisitedInv
  <2>3. file.finalized \/ v < Len(file.steps)
    <3>1. CASE file.streaming
      <4>1. readPhase = "next"
        BY <1>4, <3>1 DEF Cumulative
      <4>2. reader.streaming /\ reader.streamStatus = "OutsideOfStep" /\ reader.position = v
        BY <1>4, <3>1, <4>1 DEF ReaderInv, NextInv, PrefixInv
      <4> QED
        BY <4>2 DEF mayBegin
    <3> QED
      BY <1>1, <3>1
  <2>4. /\ SameView(u, b)
        /\ v = Len(file.steps) =>
             b.streamStatus = "StreamOver" /\ ~b.inStep /\ b.advanceStatus = "OVER"
        /\ v # Len(file.steps) =>
             AtRest(b) /\ AtStep(b, v + 1) /\ b.advanceStatus = "OK"
    BY <1>0, <2>1, AdvanceBegins DEF Given
  <2>5. b \in ReaderFile /\ b.m_buffer = NoChunks /\ Given(b) /\ b.loaded = reader.loaded
    BY <1>0, <2>4 DEF SameView, Given
  <2>6. CASE v = Len(file.steps)
    <3>1. Len(file.steps) = Len(finished) \/ Len(file.steps) = Len(finished) + 1
      BY <1>1, <1>4, <2>3, <2>6
    <3>2. file.finalized /\ v = Len(finished)
      BY ONLY <1>1, <2>2, <2>3, <2>6, <3>1
    <3> QED
      BY <2>4, <2>5, <2>6, <3>2
  <2>7. CASE v # Len(file.steps)
    <3>1. ~file.finalized \/ Len(file.steps) = Len(finished) \/ Len(file.steps) = Len(finished) + 1
      BY <1>1, <1>4
    <3>2. v + 1 \in 1 .. Len(file.steps)
      BY ONLY <1>1, <2>2, <2>3, <2>7, <3>1
    <3>3. v + 1 \in DOMAIN file.steps
      BY <1>1, <3>2
    <3>4. reader.position = v
      BY <1>0, <2>1
    <3> QED
      BY <1>4, <2>4, <2>5, <2>7, <3>3, <3>4
  <2> QED
    BY <2>6, <2>7
<1> QED
  BY <1>2, <1>3, <1>4

\* What it knows then.
LEMMA BeginKnows ==
  ASSUME Inv, DeliveryInv, ArchiveInv, ReaderInv, readPhase \in {"parsed", "next"},
         mayBegin(reader), NEW b, b = advance(upToDate(reader), "BEGINSTEP"),
         b.advanceStatus # "OVER"
  PROVE  KnownAs(reparsed(b), b.position)
<1> DEFINE v == Len(visited)
           p == reader.position
           k == b.position
           q == reparsed(b)
<1>0. /\ b \in ReaderFile /\ Given(b) /\ k = b.position
      /\ IF Stepwise
         THEN AtStep(b, v + 1) /\ v + 1 \in DOMAIN file.steps /\ (p = v \/ p = v + 1)
         ELSE b.streamStatus = "NoStream" /\ ~b.inStep
  BY Begins
<1>1. k \in Nat /\ p \in Nat /\ v \in Nat
  BY <1>0, VisitedNumber DEF ReaderFile, ReaderInv, PrefixInv
<1>2. KnownAs(parsed, p)
  BY DEF ReaderInv, KnownInv, Going
<1>3. CASE Stepwise
  <2>1. k = v + 1 /\ AtStep(b, k) /\ k \in DOMAIN file.steps
    BY <1>0, <1>3, Zenon DEF AtStep
  <2>2. p = v \/ p = v + 1
    BY <1>0, <1>3
  <2> HIDE DEF v, p, k
  <2>3. p = k \/ p + 1 = k
    BY ONLY <1>1, <2>1, <2>2
  <2>4. KnownAs(q, k)
    BY <1>0, <1>1, <1>2, <1>3, <2>1, <2>3, Reparsed
  <2> QED
    BY <2>4 DEF k
<1>4. CASE ~Stepwise
  <2>1. ~b.inStep
    BY <1>0, <1>4
  <2> HIDE DEF v, p, k
  <2>2. KnownAs(q, k)
    BY <1>0, <1>1, <1>2, <1>4, <2>1, Reparsed
  <2> QED
    BY <2>2 DEF k
<1> QED
  BY <1>3, <1>4

\* Where operator++ looks for its next iteration.
Coming(after, b) == IF after = None THEN known ELSE {i \in DOMAIN reparsed(b) : i > after}

\* The loop goes to the iteration that was closed next, if it looks for it
\* among those that it has not visited.
LEMMA GoesOn ==
  ASSUME Inv, DeliveryInv, ArchiveInv, ReaderInv, UNCHANGED writerVars,
         readPhase \in {"parsed", "next"}, NEW after, beginReading(after),
         NEW b, b = advance(upToDate(reader), "BEGINSTEP"), NEW v, v = Len(visited),
         NEW S, S = Coming(after, b),
         b.advanceStatus # "OVER" =>
           /\ \A i \in S : \E m \in DOMAIN finished : finished[m].it = i /\ v < m
           /\ v + 1 \in DOMAIN finished => finished[v + 1].it \in S
  PROVE  ReaderInv'
<1>0. /\ mayBegin(reader) /\ reader' = b
      /\ UNCHANGED <<readClosed, visited, file, finished, engine>>
      /\ b.advanceStatus = "OVER" => readPhase' = "done"
      /\ b.advanceStatus # "OVER" =>
           /\ parsed' = reparsed(b) /\ readStep' = "DuringStep"
           /\ S = {} => readPhase' = "done"
           /\ S # {} => /\ readPhase' = "loop"
                        /\ \E i \in S : Least(i, S) /\ m_currentIteration' = i
  BY DEF beginReading, writerVars, backendVars, Coming
<1>1. /\ b \in ReaderFile /\ b.m_buffer = NoChunks /\ Given(b) /\ b.loaded = reader.loaded
      /\ b.advanceStatus = "OVER" =>
           /\ file.finalized /\ v = Len(finished)
           /\ b.streamStatus = "StreamOver" /\ ~b.inStep
      /\ b.advanceStatus # "OVER" =>
           /\ AtRest(b)
           /\ IF Stepwise THEN AtStep(b, v + 1) /\ v + 1 \in DOMAIN file.steps
              ELSE b.streamStatus = "NoStream" /\ ~b.inStep
  BY <1>0, Begins
<1>2. (Stepwise' <=> Stepwise) /\ (Cumulative' <=> Cumulative) /\ (AllKnown' <=> AllKnown)
  BY <1>0 DEF Stepwise, Cumulative, AllKnown
<1>3. PrefixInv'
  BY <1>0, <1>1 DEF PrefixInv, Given, ReaderInv
<1>4. VisitedInv'
  BY <1>0, <1>1 DEF ReaderInv, VisitedInv
<1>5. /\ v \in Nat /\ v <= Len(finished) /\ Len(finished) \in Nat
      /\ DOMAIN finished = 1 .. Len(finished) /\ Len(file.steps) \in Nat
      /\ DOMAIN file.steps = 1 .. Len(file.steps)
  BY VisitedNumber, Counts DEF ReaderInv, VisitedInv
<1>6. CASE b.advanceStatus = "OVER"
  BY <1>0, <1>1, <1>3, <1>4, <1>6
     DEF ReaderInv, KnownInv, Going, StartInv, ParsedInv, LoopingInv, NextInv, DoneInv
<1>7. CASE b.advanceStatus # "OVER" /\ S = {}
  <2>1. readPhase' = "done"
    BY <1>0, <1>7
  <2>2. v + 1 \notin DOMAIN finished
    BY <1>7
  <2>3. v = Len(finished)
    <3>1. ~(v + 1 <= Len(finished))
      <4>1. v + 1 \notin 1 .. Len(finished)
        BY <1>5, <2>2
      <4> QED
        BY ONLY <1>5, <4>1
    <3>2. v \in Nat /\ Len(finished) \in Nat /\ v <= Len(finished)
      BY <1>5
    <3> DEFINE n == Len(finished)
    <3> HIDE DEF n
    <3>3. v = n
      BY ONLY <3>1, <3>2 DEF n
    <3> QED
      BY <3>3 DEF n
  <2>4. file.finalized
    <3>1. ASSUME ~file.finalized
          PROVE  FALSE
      <4>1. file.streaming
        BY <3>1 DEF ReaderInv, PrefixInv
      <4>2. Stepwise
        BY <4>1, Counts
      <4>3. Len(file.steps) <= Len(finished)
        BY <3>1, <4>2, Counts
      <4>4. v + 1 \in DOMAIN file.steps
        BY <1>1, <1>7, <4>2
      <4> QED
        BY ONLY <1>5, <2>3, <4>3, <4>4
    <3> QED
      BY <3>1
  <2>5. b.inStep <=> b.streamStatus = "DuringStep"
    BY <1>1, <1>7, Zenon DEF AtStep
  <2> QED
    BY <1>0, <1>3, <1>4, <2>1, <2>3, <2>4, <2>5
       DEF ReaderInv, KnownInv, Going, StartInv, ParsedInv, LoopingInv, NextInv, DoneInv
<1>8. CASE b.advanceStatus # "OVER" /\ S # {}
  <2>1. PICK i \in S : Least(i, S) /\ m_currentIteration' = i
    BY <1>0, <1>8
  <2>2. v + 1 \in DOMAIN finished
    <3>1. PICK m \in DOMAIN finished : v < m
      BY <1>8, <2>1
    <3>2. m \in 1 .. Len(finished)
      BY <1>5, <3>1
    <3>3. v + 1 \in 1 .. Len(finished)
      BY ONLY <1>5, <3>1, <3>2
    <3> QED
      BY <1>5, <3>3
  <2>3. i = finished[v + 1].it
    BY <1>5, <1>8, <2>1, <2>2, NextClosed
  <2>4. KnownAs(reparsed(b), b.position)
    BY <1>0, <1>8, BeginKnows
  <2>5. readPhase' = "loop" /\ readStep' = "DuringStep" /\ parsed' = reparsed(b)
    BY <1>0, <1>8
  <2>6. KnownInv'
    BY <1>0, <1>2, <2>4, <2>5 DEF KnownInv, KnownAs
  <2>7. InStepAt(v + 1)'
    <3>1. CASE Stepwise
      BY <1>0, <1>1, <1>2, <1>8, <3>1, Zenon DEF InStepAt, AtStep, Given
    <3>2. CASE ~Stepwise
      BY <1>0, <1>1, <1>2, <1>8, <3>2, Zenon DEF InStepAt
    <3> QED
      BY <3>1, <3>2
  <2>8. LoopingInv'
    BY <1>0, <1>1, <1>8, <2>1, <2>2, <2>3, <2>5, <2>7, Zenon DEF LoopingInv, AtRest
  <2> QED
    BY <1>3, <1>4, <2>5, <2>6, <2>8
       DEF ReaderInv, StartInv, ParsedInv, NextInv, DoneInv
<1> QED
  BY <1>6, <1>7, <1>8

LEMMA BeginReads ==
  ASSUME Inv, DeliveryInv, ArchiveInv, ReaderInv, Begin, UNCHANGED writerVars
  PROVE  ReaderInv'
<1> DEFINE b == advance(upToDate(reader), "BEGINSTEP")
           v == Len(visited)
<1>0. /\ readPhase = "parsed" /\ beginReading(None) /\ visited = <<>> /\ v = 0
      /\ KnownAs(parsed, reader.position)
  BY DEF Begin, ReaderInv, ParsedInv, KnownInv, Going
<1>1. DOMAIN finished \subseteq Nat \ {0}
  BY Counts
<1>2. \A i \in known : \E m \in DOMAIN finished : finished[m].it = i /\ v < m
  <2>1. \A i \in known : \E m \in DOMAIN finished : finished[m].it = i
    BY <1>0 DEF known, KnownAs
  <2>2. \A m \in DOMAIN finished : v < m
    BY <1>0, <1>1
  <2> QED
    BY <2>1, <2>2
<1>3. v + 1 \in DOMAIN finished => finished[v + 1].it \in known
  <2>1. AllKnown \/ reader.position = 1
    BY <1>0 DEF AllKnown, ReaderInv, ParsedInv, InStepAt, AtStep
  <2>2. v + 1 = 1
    BY <1>0
  <2>3. \A m \in DOMAIN finished : m = 1 => finished[m].it \in known
    <3>1. \A m \in DOMAIN finished : AllKnown \/ m <= reader.position => finished[m].it \in known
      BY <1>0 DEF known, KnownAs
    <3> QED
      BY <2>1, <3>1
  <2> QED
    BY <2>2, <2>3
<1> HIDE DEF b, v
<1> DEFINE S == known
<1>4. S = Coming(None, b)
  BY DEF Coming
<1> QED
  <2>1. v = Len(visited) /\ b = advance(upToDate(reader), "BEGINSTEP")
    BY DEF v, b
  <2> HIDE DEF S
  <2> QED
    BY <1>0, <1>2, <1>3, <1>4, <2>1, GoesOn DEF S

LEMMA BeginEmptyReads ==
  ASSUME Inv, DeliveryInv, ArchiveInv, ReaderInv, BeginEmpty, UNCHANGED writerVars
  PROVE  ReaderInv'
<1>0. /\ readPhase = "parsed" /\ known = {} /\ readPhase' = "done"
      /\ UNCHANGED <<reader, parsed, readClosed, readStep, m_currentIteration, visited>>
      /\ UNCHANGED <<file, finished, engine>>
  BY DEF BeginEmpty, writerVars, backendVars
<1>1. /\ AtRest(reader) /\ visited = <<>>
      /\ AllKnown \/ InStepAt(1)
      /\ (reader.inStep <=> reader.streamStatus = "DuringStep")
  BY <1>0, Zenon DEF ReaderInv, ParsedInv, AllKnown, InStepAt, AtStep
<1>2. /\ Len(file.steps) \in Nat /\ Len(finished) \in Nat
      /\ DOMAIN file.steps = 1 .. Len(file.steps) /\ DOMAIN finished = 1 .. Len(finished)
  BY Counts
<1>3. AllKnown \/ (reader.position = 1 /\ 1 \in DOMAIN file.steps)
  <2>1. InStepAt(1) /\ ~AllKnown => reader.position = 1 /\ 1 \in DOMAIN reader.steps
    BY DEF InStepAt, AtStep, AllKnown
  <2> QED
    BY <1>1, <2>1 DEF ReaderInv, PrefixInv
<1>4. \A m \in DOMAIN finished : ~(AllKnown \/ m <= reader.position)
  BY <1>0 DEF ReaderInv, KnownInv, KnownAs, Going, known
<1>5. Len(finished) = 0
  <2>1. 1 \notin DOMAIN finished
    BY <1>3, <1>4
  <2> QED
    BY <1>2, <2>1
<1>6. file.finalized
  <2>1. CASE AllKnown
    BY <1>0, <2>1, Counts DEF ReaderInv, PrefixInv
  <2>2. CASE ~AllKnown
    <3>1. Stepwise
      BY <2>2 DEF AllKnown
    <3>2. ~file.finalized => Len(file.steps) <= Len(finished)
      BY <3>1, Counts
    <3>3. 1 <= Len(file.steps)
      BY <1>2, <1>3, <2>2
    <3> QED
      BY <1>2, <1>5, <3>2, <3>3
  <2> QED
    BY <2>1, <2>2
<1>7. Len(visited) = Len(finished)
  BY <1>1, <1>5
<1>8. PrefixInv' /\ VisitedInv'
  BY <1>0 DEF ReaderInv, PrefixInv, VisitedInv
<1> QED
  BY <1>0, <1>1, <1>6, <1>7, <1>8
     DEF ReaderInv, KnownInv, Going, StartInv, ParsedInv, LoopingInv, NextInv, DoneInv

LEMMA IncrementReads ==
  ASSUME Inv, DeliveryInv, ArchiveInv, ReaderInv, Increment, UNCHANGED writerVars
  PROVE  ReaderInv'
<1> SUFFICES ASSUME NEW a, a = m_currentIteration
             PROVE  ReaderInv'
  OBVIOUS
<1> DEFINE b == advance(upToDate(reader), "BEGINSTEP")
           v == Len(visited)
           q == reparsed(b)
           S == {i \in DOMAIN q : i > a}
<1>0. /\ readPhase = "next" /\ beginReading(a) /\ mayBegin(reader)
      /\ v \in DOMAIN finished /\ a = finished[v].it
  BY DEF Increment, beginReading, ReaderInv, NextInv
<1>1. /\ a \in Iter /\ a # None /\ v \in Nat
      /\ \A m \in DOMAIN finished : m \in Nat /\ finished[m].it \in Nat
  <2>1. \A m \in DOMAIN finished : m \in Nat /\ finished[m].it \in Iter
    BY ClosedOne
  <2> QED
    BY <1>0, <2>1, IterAssumption, NoneAssumption
<1>2. \A m, n \in DOMAIN finished : m < n => finished[m].it < finished[n].it
  BY DEF ArchiveInv, SentInv
<1>3. b.advanceStatus # "OVER" =>
        KnownAs(q, b.position) /\ (AllKnown \/ b.position = v + 1)
  <2>1. b.advanceStatus # "OVER" => KnownAs(q, b.position)
    BY <1>0, BeginKnows
  <2>2. b.advanceStatus # "OVER" => ~Stepwise \/ b.position = v + 1
    BY <1>0, Begins DEF AtStep
  <2> QED
    BY <2>1, <2>2 DEF AllKnown
<1>4. v = Len(visited) /\ b = advance(upToDate(reader), "BEGINSTEP")
      /\ S = Coming(a, b)
  BY <1>1 DEF Coming
<1>5. S = {i \in DOMAIN q : i > a}
  OBVIOUS
<1> HIDE DEF b, v, q, S
<1>6. ASSUME b.advanceStatus # "OVER"
      PROVE  /\ \A i \in S : \E m \in DOMAIN finished : finished[m].it = i /\ v < m
             /\ v + 1 \in DOMAIN finished => finished[v + 1].it \in S
  <2>1. ASSUME NEW i \in S
        PROVE  \E m \in DOMAIN finished : finished[m].it = i /\ v < m
    <3>1. i \in DOMAIN q /\ i > a
      BY <1>5
    <3>2. PICK m \in DOMAIN finished : finished[m].it = i
      BY <1>3, <1>6, <3>1 DEF KnownAs
    <3>3. m \in Nat /\ finished[m].it > finished[v].it
      BY <1>0, <1>1, <3>1, <3>2
    <3>4. m < v => finished[m].it < finished[v].it
      BY <1>0, <1>2
    <3>5. m # v /\ ~(m < v)
      BY <1>0, <1>1, <3>3, <3>4
    <3>6. v < m
      BY <1>1, <3>3, <3>5
    <3> QED
      BY <3>2, <3>6
  <2>2. ASSUME v + 1 \in DOMAIN finished
        PROVE  finished[v + 1].it \in S
    <3>1. v < v + 1 /\ v + 1 <= v + 1 /\ v + 1 \in Nat
      BY <1>1
    <3>2. finished[v].it < finished[v + 1].it
      BY <1>0, <1>2, <2>2, <3>1
    <3>3. finished[v + 1].it > a
      BY <1>0, <1>1, <2>2, <3>2
    <3>4. AllKnown \/ v + 1 <= b.position
      BY <1>3, <1>6, <3>1
    <3>5. finished[v + 1].it \in DOMAIN q
      BY <1>3, <1>6, <2>2, <3>4, Zenon DEF KnownAs
    <3> QED
      BY <1>5, <3>3, <3>5
  <2> QED
    BY <2>1, <2>2
<1>7. b.advanceStatus # "OVER" =>
        /\ \A i \in S : \E m \in DOMAIN finished : finished[m].it = i /\ v < m
        /\ v + 1 \in DOMAIN finished => finished[v + 1].it \in S
  BY <1>6
<1>8. readPhase \in {"parsed", "next"} /\ beginReading(a)
  BY <1>0
<1> QED
  BY <1>4, <1>7, <1>8, GoesOn

\* A dataset that was parsed is found, as it was closed.
LEMMA FoundInStep ==
  ASSUME Inv, DeliveryInv, ArchiveInv, ReaderInv, readPhase = "loop", NEW n,
         n = Len(visited) + 1, NEW i, i = m_currentIteration
  PROVE  /\ i \in Iter /\ n \in DOMAIN finished /\ finished[n].it = i
         /\ present(reader, i) \subseteq DOMAIN reader.steps
         /\ finished[n].data # 0 => present(reader, i) # {}
         /\ \A k \in present(reader, i) : reader.steps[k].data[i] = finished[n].data
<1>0. /\ n \in DOMAIN finished /\ finished[n].it = i /\ InStepAt(n)
      /\ \A k \in DOMAIN reader.steps : k \in DOMAIN file.steps /\ reader.steps[k] = file.steps[k]
  BY DEF ReaderInv, LoopingInv, PrefixInv
<1>1. i \in Iter
  BY <1>0, ClosedOne
<1>2. \A k \in DOMAIN file.steps : TellsData(k, n) => file.steps[k].data[i] = finished[n].data
  BY <1>0 DEF ArchiveInv, FaithfulInv, Faithful
<1>3. CASE Stepwise
  <2>1. n \in DOMAIN reader.steps /\ inSight(reader) = {n}
    BY <1>0, <1>3 DEF InStepAt, AtStep, inSight
  <2>2. TellsData(n, n)
    BY DEF TellsData
  <2>3. reader.steps[n].data[i] = finished[n].data
    BY <1>0, <1>2, <2>1, <2>2
  <2> QED
    BY <1>0, <1>1, <2>1, <2>3 DEF present
<1>4. CASE ~Stepwise
  <2>1. inSight(reader) = DOMAIN reader.steps
    BY <1>0, <1>4 DEF InStepAt, inSight
  <2>2. \A k \in DOMAIN reader.steps : reader.steps[k].data[i] = finished[n].data
    BY <1>0, <1>2, <1>4 DEF TellsData
  <2>3. 1 \in DOMAIN reader.steps
    <3>1. ~file.streaming
      BY <1>4, Counts
    <3>2. file.finalized /\ reader.steps = file.steps
      BY <3>1 DEF ReaderInv, PrefixInv
    <3>3. Len(file.steps) = 1 /\ DOMAIN file.steps = 1 .. Len(file.steps)
      BY <1>4, <3>2, Counts
    <3>4. 1 \in 1 .. 1
      OBVIOUS
    <3> QED
      BY <3>2, <3>3, <3>4
  <2> QED
    BY <1>0, <1>1, <2>1, <2>2, <2>3 DEF present
<1> QED
  BY <1>3, <1>4

\* What the user gets in the body of the loop.
LEMMA GotAsClosed ==
  ASSUME Inv, DeliveryInv, ArchiveInv, ReaderInv, readPhase = "loop",
         NEW n, n = Len(visited) + 1, NEW i, i = m_currentIteration, i \notin readClosed,
         NEW b, b = gotten(i)
  PROVE  /\ i \in DOMAIN parsed /\ parsed[i].attr = finished[n].attr
         /\ b.loaded[i] = finished[n].data /\ b.loaded \in [Iter -> Version]
         /\ \A j \in Iter : j # i => b.loaded[j] = reader.loaded[j]
         /\ AtRest(b) /\ Len(visited) \in Nat
         /\ b.layout = reader.layout /\ b.streaming = reader.streaming /\ b.steps = reader.steps
         /\ b.streamStatus = reader.streamStatus /\ b.inStep = reader.inStep
         /\ b.position = reader.position
<1>0. /\ AtRest(reader) /\ InStepAt(n) /\ reader \in ReaderFile
      /\ reader.streamStatus \in {"DuringStep", "NoStream"}
  BY DEF ReaderInv, LoopingInv, InStepAt, AtStep, AtRest
<1>1. /\ i \in Iter /\ n \in DOMAIN finished /\ finished[n].it = i
      /\ present(reader, i) \subseteq DOMAIN reader.steps
      /\ finished[n].data # 0 => present(reader, i) # {}
      /\ \A k \in present(reader, i) : reader.steps[k].data[i] = finished[n].data
  BY FoundInStep
<1>2. KnownAs(parsed, reader.position)
  BY DEF ReaderInv, KnownInv, Going
<1>3. AllKnown \/ n <= reader.position
  <2>1. AllKnown \/ reader.position = n
    BY <1>0 DEF AllKnown, InStepAt, AtStep
  <2>2. n \in Nat
    BY <1>1, ClosedOne
  <2> QED
    BY <2>1, <2>2
<1>4. i \in DOMAIN parsed
  BY <1>1, <1>2, <1>3 DEF KnownAs
<1>5. parsed[i].attr = finished[n].attr /\ parsed[i].data = (finished[n].data # 0)
  <2>1. PICK m \in DOMAIN finished :
          /\ finished[m].it = i /\ parsed[i].attr = finished[m].attr
          /\ parsed[i].data = (finished[m].data # 0)
    BY <1>2, <1>4 DEF KnownAs
  <2>2. m = n
    BY <1>1, <2>1, ClosedOne
  <2> QED
    BY <2>1, <2>2
<1>6. reader.loaded[i] = 0 /\ reader.loaded \in [Iter -> Version]
  BY <1>0, <1>1 DEF ReaderInv, VisitedInv, ReaderFile
<1>7. CASE finished[n].data = 0
  <2>1. requested(i) = reader
    BY <1>5, <1>7 DEF requested
  <2>2. b = reader
    BY <1>0, <2>1, FlushRead DEF gotten
  <2> QED
    BY <1>0, <1>4, <1>5, <1>6, <1>7, <2>2, VisitedNumber
<1>8. CASE finished[n].data # 0
  <2>1. b = flush(readDataset(reader, i), "putget", FALSE, FALSE)
    BY <1>5, <1>8 DEF gotten, requested
  <2>2. /\ AtRest(b) /\ b.layout = reader.layout /\ b.streaming = reader.streaming
        /\ b.steps = reader.steps /\ b.streamStatus = reader.streamStatus
        /\ b.inStep = reader.inStep /\ b.position = reader.position
        /\ Gets(reader, i, b)
    <3>1. present(reader, i) # {}
      BY <1>1, <1>8
    <3>2. i \in Iter /\ present(reader, i) \subseteq DOMAIN reader.steps
      BY <1>1
    <3> QED
      BY ONLY <1>0, <2>1, <3>1, <3>2, Loads
  <2>3. PICK k \in present(reader, i) :
          b.loaded = [reader.loaded EXCEPT ![i] = reader.steps[k].data[i]]
    BY <2>2 DEF Gets
  <2>4. reader.steps[k].data[i] = finished[n].data
    BY <1>1
  <2> DEFINE w == finished[n].data
  <2>5. b.loaded = [reader.loaded EXCEPT ![i] = w]
    BY <2>3, <2>4
  <2>6. b.loaded \in [Iter -> Version]
    BY <2>2 DEF AtRest, ReaderFile
  <2> HIDE DEF w
  <2>7. b.loaded[i] = w /\ \A j \in Iter : j # i => b.loaded[j] = reader.loaded[j]
    BY ONLY <1>1, <1>6, <2>5
  <2> QED
    BY <1>4, <1>5, <2>2, <2>6, <2>7, VisitedNumber DEF w
<1> QED
  BY <1>7, <1>8

LEMMA ReadIterationReads ==
  ASSUME Inv, DeliveryInv, ArchiveInv, ReaderInv, ReadIteration, UNCHANGED writerVars
  PROVE  /\ ReaderInv' /\ Len(visited) + 1 \in DOMAIN finished
         /\ visited' = Append(visited, finished[Len(visited) + 1])
<1> DEFINE i == m_currentIteration
           b == gotten(i)
           v == Len(visited)
           n == v + 1
           r == [it |-> i, attr |-> parsed[i].attr, data |-> b.loaded[i]]
           c == reader'
           R == [it : Iter, attr : Version, data : Version]
<1>0. /\ readPhase = "loop" /\ i \notin readClosed /\ readStep = "DuringStep"
      /\ i = m_currentIteration /\ n = Len(visited) + 1 /\ b = gotten(i)
      /\ readClosed' = readClosed \cup {i} /\ readStep' = "NoStep" /\ readPhase' = "next"
      /\ visited' = Append(visited, r)
      /\ UNCHANGED <<parsed, m_currentIteration, file, finished, engine>>
  BY DEF ReadIteration, writerVars, backendVars, ReaderInv, LoopingInv
<1>1. /\ i \in DOMAIN parsed /\ parsed[i].attr = finished[n].attr
      /\ b.loaded[i] = finished[n].data /\ b.loaded \in [Iter -> Version]
      /\ \A j \in Iter : j # i => b.loaded[j] = reader.loaded[j]
      /\ AtRest(b) /\ v \in Nat
      /\ b.layout = reader.layout /\ b.streaming = reader.streaming /\ b.steps = reader.steps
      /\ b.streamStatus = reader.streamStatus /\ b.inStep = reader.inStep
      /\ b.position = reader.position
  BY <1>0, GotAsClosed
<1>2. /\ i \in Iter /\ n \in DOMAIN finished /\ finished[n].it = i
  BY <1>0, FoundInStep
<1>3. InStepAt(n)
  BY <1>0 DEF ReaderInv, LoopingInv
<1>4. c = flush(advance(b, "ENDSTEP"), "putget", FALSE, FALSE)
  BY <1>0, <1>1 DEF ReadIteration, AtRest, ReaderFile
<1>5. finished[n] = r /\ finished[n] \in R
  BY <1>1, <1>2, ClosedOne, ClosedOnes
<1>6. (Stepwise' <=> Stepwise) /\ (AllKnown' <=> AllKnown)
  BY <1>0 DEF Stepwise, Cumulative, AllKnown
<1> HIDE DEF i, b, v, n, r, c, R
<1>7. /\ AtRest(c) /\ SameView(b, c) /\ ~c.inStep /\ c.position = b.position
      /\ c.streamStatus = IF Stepwise THEN "OutsideOfStep" ELSE "NoStream"
      /\ Stepwise => c.position = n
  <2>1. CASE Stepwise
    <3>1. AtStep(b, n)
      BY <1>1, <1>3, <2>1, Zenon DEF InStepAt, AtStep
    <3>2. /\ AtRest(c) /\ SameView(b, c) /\ c.streamStatus = "OutsideOfStep"
          /\ ~c.inStep /\ c.position = b.position
      BY <1>1, <1>4, <3>1, EndReads
    <3> QED
      BY <2>1, <3>1, <3>2 DEF AtStep
  <2>2. CASE ~Stepwise
    <3>1. b.streamStatus = "NoStream" /\ ~b.inStep
      BY <1>1, <1>3, <2>2, Zenon DEF InStepAt
    <3> DEFINE e == advance(b, "ENDSTEP")
    <3>2. /\ AtRest(e) /\ e.streamStatus = "NoStream" /\ SameView(b, e)
          /\ e.inStep = b.inStep /\ e.position = b.position
      BY <1>1, <3>1, AdvanceNoStream
    <3> HIDE DEF e
    <3>3. c = e
      <4>1. flush(e, "putget", FALSE, FALSE) = e
        BY <3>2, FlushRead
      <4> QED
        BY <1>4, <4>1 DEF e
    <3> QED
      BY <2>2, <3>1, <3>2, <3>3
  <2> QED
    BY <2>1, <2>2
<1>8. /\ c \in ReaderFile /\ c.m_buffer = NoChunks /\ c.layout = reader.layout
      /\ c.streaming = reader.streaming /\ c.steps = reader.steps /\ c.loaded = b.loaded
      /\ c.position = reader.position
  BY <1>1, <1>7 DEF SameView
<1>9. PrefixInv'
  BY <1>0, <1>8 DEF ReaderInv, PrefixInv, c
<1>10. /\ visited \in Seq(R) /\ Len(finished) \in Nat /\ DOMAIN finished = 1 .. Len(finished)
       /\ \A k \in DOMAIN visited : visited[k] = finished[k]
       /\ readClosed = {visited[k].it : k \in DOMAIN visited}
       /\ \A j \in Iter : reader.loaded[j] # 0 => j \in readClosed
  BY Counts DEF ReaderInv, VisitedInv, R
<1>11. /\ visited' \in Seq(R) /\ Len(visited') = n /\ DOMAIN visited' = 1 .. n
       /\ visited'[n] = r /\ n \in DOMAIN visited' /\ DOMAIN visited = 1 .. v
       /\ \A k \in DOMAIN visited : k \in DOMAIN visited' /\ visited'[k] = visited[k]
       /\ \A k \in DOMAIN visited' : k \in DOMAIN visited \/ k = n
  BY <1>0, <1>1, <1>5, <1>10 DEF v, n
<1>12. VisitedInv'
  <2>1. \A k \in DOMAIN visited' : visited'[k] = finished[k]
    BY <1>5, <1>10, <1>11
  <2>2. readClosed' = {visited'[k].it : k \in DOMAIN visited'}
    <3>1. r.it = i
      BY DEF r
    <3>2. ASSUME NEW x \in readClosed'
          PROVE  \E k \in DOMAIN visited' : x = visited'[k].it
      <4>1. x = i \/ \E k \in DOMAIN visited : x = visited[k].it
        BY <1>0, <1>10, <3>2
      <4> QED
        BY <1>11, <3>1, <4>1
    <3>3. ASSUME NEW k \in DOMAIN visited'
          PROVE  visited'[k].it \in readClosed'
      <4>1. CASE k \in DOMAIN visited
        BY <1>0, <1>10, <1>11, <4>1
      <4>2. CASE k = n
        BY <1>0, <1>11, <3>1, <4>2
      <4> QED
        BY <1>11, <4>1, <4>2
    <3> QED
      BY <3>2, <3>3
  <2>3. \A j \in Iter : c.loaded[j] # 0 => j \in readClosed'
    BY <1>0, <1>1, <1>8, <1>10
  <2>4. Len(visited') <= Len(finished)
    <3>1. n \in 1 .. Len(finished)
      BY <1>2, <1>10
    <3>2. n <= Len(finished)
      BY ONLY <1>10, <3>1
    <3> QED
      BY <1>11, <3>2
  <2> QED
    BY <1>0, <1>11, <2>1, <2>2, <2>3, <2>4 DEF VisitedInv, R, c
<1>13. KnownInv'
  <2>1. KnownAs(parsed, reader.position)
    BY <1>0 DEF ReaderInv, KnownInv, Going
  <2> QED
    BY <1>0, <1>6, <1>8, <2>1 DEF KnownInv, KnownAs, c
<1>14. NextInv'
  <2>1. m_currentIteration' = finished'[n].it /\ n \in DOMAIN finished'
    BY <1>0, <1>2
  <2> QED
    BY <1>0, <1>6, <1>7, <1>11, <2>1, Zenon DEF NextInv, c
<1>15. StartInv' /\ ParsedInv' /\ LoopingInv' /\ DoneInv'
  BY <1>0 DEF StartInv, ParsedInv, LoopingInv, DoneInv
<1>16. visited' = Append(visited, finished[Len(visited) + 1]) /\ Len(visited) + 1 \in DOMAIN finished
  BY <1>0, <1>2, <1>5
<1> QED
  BY <1>9, <1>12, <1>13, <1>14, <1>15, <1>16 DEF ReaderInv

\* Where the reading program can be.
ReadPhaseOK == readPhase \in {"start", "parsed", "loop", "next", "done", "failed"}

LEMMA ReaderNext ==
  ASSUME Inv, DeliveryInv, ArchiveInv, ReaderInv, ReadPhaseOK, [StreamNext]_vars
  PROVE  ReaderInv' /\ ReadPhaseOK'
<1>1. CASE Writing
  <2>1. [WriterNext]_writerVars /\ UNCHANGED readerVars
    BY <1>1 DEF Writing
  <2> QED
    BY <2>1, WritingReads DEF ReadPhaseOK, readerVars
<1>2. CASE UNCHANGED vars
  <2>1. [WriterNext]_writerVars /\ UNCHANGED readerVars
    BY <1>2 DEF vars
  <2> QED
    BY <2>1, WritingReads DEF ReadPhaseOK, readerVars
<1>3. CASE Reading
  <2>0. UNCHANGED writerVars
    BY <1>3 DEF Reading
  <2>1. CASE Construct
    BY <2>0, <2>1, ConstructReads DEF ReadPhaseOK, Construct
  <2>2. CASE Begin
    BY <2>0, <2>2, BeginReads DEF ReadPhaseOK, Begin, beginReading
  <2>3. CASE BeginEmpty
    BY <2>0, <2>3, BeginEmptyReads DEF ReadPhaseOK, BeginEmpty
  <2>4. CASE ReadIteration
    BY <2>0, <2>4, ReadIterationReads DEF ReadPhaseOK, ReadIteration
  <2>5. CASE Increment
    BY <2>0, <2>5, IncrementReads DEF ReadPhaseOK, Increment, beginReading
  <2> QED
    BY <1>3, <2>1, <2>2, <2>3, <2>4, <2>5 DEF Reading, Reader
<1> QED
  BY <1>1, <1>2, <1>3 DEF StreamNext

LEMMA StreamReads ==
  ASSUME Extras = {}
  PROVE  StreamSpec => [](Inv /\ DeliveryInv /\ ArchiveInv /\ ReaderInv /\ ReadPhaseOK)
<1>1. StreamInit => ReaderInv /\ ReadPhaseOK
  <2> SUFFICES ASSUME StreamInit PROVE ReaderInv /\ ReadPhaseOK
    OBVIOUS
  <2>1. Inv /\ ReaderInit
    BY InvInit DEF StreamInit
  <2> QED
    BY <2>1, ReaderBegins DEF ReadPhaseOK, ReaderInit
<1>2. Inv /\ DeliveryInv /\ ArchiveInv /\ ReaderInv /\ ReadPhaseOK /\ [StreamNext]_vars
        => (ReaderInv /\ ReadPhaseOK)'
  BY ReaderNext
<1> QED
  BY <1>1, <1>2, StreamArchives, PTL DEF StreamSpec

\* A reader of what such a writer publishes, be it while it is written or when it
\* is complete, follows the engine's step protocol, whatever the layout of the
\* attributes: it never begins a step in a step, and never asks the engine for a
\* dataset that the step it is in does not have.
THEOREM ReaderFollows ==
  ASSUME Extras = {}
  PROVE  StreamSpec => []ReaderProtocol
<1>1. Inv /\ ReaderInv /\ ReadPhaseOK => ReaderProtocol
  <2> SUFFICES ASSUME Inv, ReaderInv, ReadPhaseOK PROVE ReaderProtocol
    OBVIOUS
  <2>1. reader.fault = "none"
    BY DEF ReaderInv, PrefixInv, ReaderFile
  <2>2. CASE readPhase = "start"
    <3>1. engine \in Engines /\ reader = newFile(engine, "Read")
      BY <2>2, ConfigsAssumption DEF Inv, FileInv, ReaderInv, StartInv
    <3>2. Fresh(reader)
      BY <3>1, NewReader
    <3> QED
      BY <2>1, <3>2 DEF Fresh, ReaderProtocol
  <2>3. CASE readPhase = "parsed"
    BY <2>1, <2>3, Zenon DEF ReaderInv, ParsedInv, InStepAt, AtStep, ReaderProtocol
  <2>4. CASE readPhase = "loop"
    BY <2>1, <2>4, Zenon DEF ReaderInv, LoopingInv, InStepAt, AtStep, ReaderProtocol
  <2>5. CASE readPhase \in {"next", "done", "failed"}
    BY <2>1, <2>5 DEF ReaderInv, NextInv, DoneInv, ReaderProtocol
  <2> QED
    BY <2>2, <2>3, <2>4, <2>5 DEF ReadPhaseOK
<1> QED
  BY <1>1, StreamReads, PTL

\* The loop over readIterations ends no sooner than every iteration that was
\* closed has been visited and the writer has closed the Series.
THEOREM ReaderSeesAll ==
  ASSUME Extras = {}
  PROVE  StreamSpec => []SeesAll
<1>1. ReaderInv => SeesAll
  BY DEF ReaderInv, DoneInv, SeesAll
<1> QED
  BY <1>1, StreamReads, PTL

\* The writing process and the reading process together are a stream of
\* iterations: those that were closed are visited with the contents that they
\* were closed with, each of them once and in the order of closing.
THEOREM IterationsAreStreamed ==
  ASSUME Extras = {}
  PROVE  StreamSpec => InOrderDelivery
<1> DEFINE R == [it : Iter, attr : Version, data : Version]
           IInv == Inv /\ DeliveryInv /\ ArchiveInv /\ ReaderInv
<1>1. StreamInit => Delivery!Silent
  BY DEF StreamInit, Init, ReaderInit, Delivery!Silent
<1>2. ASSUME IInv, IInv', [StreamNext]_vars
      PROVE  [Delivery!Send \/ Delivery!Receive]_(Delivery!streamVars)
  <2>1. ASSUME Writing \/ UNCHANGED vars
        PROVE  [Delivery!Send \/ Delivery!Receive]_(Delivery!streamVars)
    <3>1. UNCHANGED visited /\ [WriterNext]_writerVars
      BY <2>1 DEF Writing, readerVars, vars
    <3>2. CASE finished' = finished
      BY <3>1, <3>2 DEF Delivery!streamVars
    <3>3. CASE finished' # finished
      <4> DEFINE x == Closing
                 n == Len(finished) + 1
      <4>1. finished' = Append(finished, x)
        BY <1>2, <3>1, <3>3, WriterGrows
      <4>2. finished \in Seq(R) /\ finished' \in Seq(R)
        BY <1>2 DEF Inv, FrontendTypeOK
      <4> HIDE DEF x, R
      <4>3. /\ n \in DOMAIN finished' /\ finished'[n] = x /\ x \in R
            /\ \A k \in DOMAIN finished :
                 k # n /\ k \in DOMAIN finished' /\ finished'[k] = finished[k]
        BY <4>1, <4>2
      <4> HIDE DEF n
      <4>4. \A k \in DOMAIN finished' : k # n => finished'[k].it # finished'[n].it
        BY <1>2, <4>3 DEF DeliveryInv, ClosedOnce
      <4>5. x.it \notin {finished[k].it : k \in DOMAIN finished}
        BY <4>3, <4>4
      <4>6. Delivery!Send
        BY <3>1, <4>1, <4>3, <4>5 DEF Delivery!Send, R
      <4> QED
        BY <4>6
    <3> QED
      BY <3>2, <3>3
  <2>2. CASE Reading
    <3>1. UNCHANGED <<finished, writerVars>>
      BY <2>2 DEF Reading, writerVars
    <3>2. CASE ReadIteration
      <4>1. /\ Len(visited) + 1 \in DOMAIN finished
            /\ visited' = Append(visited, finished[Len(visited) + 1])
        BY <1>2, <3>1, <3>2, ReadIterationReads
      <4>2. /\ Len(visited) \in Nat /\ Len(finished) \in Nat
            /\ DOMAIN finished = 1 .. Len(finished)
        BY <1>2, Counts, VisitedNumber
      <4>3. Len(visited) < Len(finished)
        BY <4>1, <4>2
      <4> QED
        BY <3>1, <4>1, <4>3 DEF Delivery!Receive
    <3>3. CASE ~ReadIteration
      <4>1. UNCHANGED visited
        BY <2>2, <3>3
           DEF Reading, Reader, Construct, Begin, BeginEmpty, Increment, beginReading
      <4> QED
        BY <3>1, <4>1 DEF Delivery!streamVars
    <3> QED
      BY <3>2, <3>3
  <2> QED
    BY <1>2, <2>1, <2>2 DEF StreamNext
<1> QED
  BY <1>1, <1>2, StreamReads, PTL DEF StreamSpec, InOrderDelivery, Delivery!Stream
=============================================================================
