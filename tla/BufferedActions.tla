--------------------------- MODULE BufferedActions ---------------------------
(***************************************************************************)
(* One file of the ADIOS2 backend, as detail::BufferedActions keeps it: an *)
(* engine that is opened lazily, steps that are opened implicitly, puts    *)
(* and gets that are collected and run by a flush, and attributes written  *)
(* in one of two layouts.                                                  *)
(*                                                                         *)
(* The state of a file is a record and every method a function on it, so   *)
(* that a writer and a reader each have one.  A method that throws leaves  *)
(* the reason in the field `fault'.                                        *)
(***************************************************************************)
EXTENDS Integers, Sequences

CONSTANTS
  Iter,       \* iteration indices
  Root,       \* the Series, as an owner of attributes
  None,       \* absence of an iteration
  MaxVersion  \* bound: versions of a value, the first one being 1

ASSUME IterAssumption == Iter \subseteq Nat
ASSUME RootAssumption == Root \notin Nat
ASSUME NoneAssumption == None \notin Nat /\ None # Root
ASSUME VersionAssumption == MaxVersion \in Nat \ {0}

Version == 0 .. MaxVersion   \* 0: nothing
Owner   == Iter \cup {Root}

StreamStatus == {"DuringStep", "OutsideOfStep", "StreamOver", "NoStream",
                 "Parsing", "Undecided"}

NoChunks     == [i \in Iter |-> 0]
NoAttributes == [o \in Owner |-> 0]
Step         == [attr : [Owner -> Version], data : [Iter -> Version]]
EmptyStep    == [attr |-> NoAttributes, data |-> NoChunks]

Engines == [stream : BOOLEAN,           \* a streaming engine such as SST
            steps  : BOOLEAN,           \* the option `usesteps'
            layout : {"ByAdiosAttributes", "ByAdiosVariables"}]

\* BufferedActions::configure_IO.
newFile(engine, mode) ==
  [mode |-> mode, layout |-> engine.layout, streaming |-> engine.stream,
   streamStatus |-> CASE engine.stream -> "OutsideOfStep"
                      [] ~engine.stream /\ mode = "Read" -> "Undecided"
                      [] ~engine.stream /\ mode = "Write" /\ engine.steps -> "OutsideOfStep"
                      [] OTHER -> "NoStream",
   opened |-> FALSE, finalized |-> FALSE,
   m_lastStepStatus |-> "OK", status |-> "OK", advanceStatus |-> "OK",
   m_buffer |-> NoChunks, m_attributeWrites |-> NoAttributes,
   attributes |-> NoAttributes, uncommitted |-> {},
   \* the engine: whether a step is open, what it holds, the steps before it
   declaresSteps |-> FALSE, inStep |-> FALSE, step |-> EmptyStep, steps |-> <<>>,
   \* a reader's engine: steps it has come to, values it has got
   position |-> 0, loaded |-> NoChunks, fault |-> "none"]

Merge(old, new) == [x \in DOMAIN old |-> IF new[x] # 0 THEN new[x] ELSE old[x]]

-----------------------------------------------------------------------------
(* The ADIOS2 engine.                                                      *)

\* A reader's engine knows the steps it was given; there may come no more.
BeginStep(b) ==
  CASE b.inStep -> [b EXCEPT !.fault = "begin"]
    [] ~b.inStep /\ b.mode = "Read" /\ b.position = Len(b.steps) ->
         [b EXCEPT !.status = "EndOfStream"]
    [] OTHER -> [b EXCEPT !.inStep = TRUE, !.status = "OK",
                          !.position = IF b.mode = "Read" THEN @ + 1 ELSE @]

\* What the current step holds when it is published.
contents(b) == [b.step EXCEPT !.attr =
                  IF b.layout = "ByAdiosAttributes" THEN b.attributes ELSE @]

EndStep(b) ==
  CASE ~b.inStep -> [b EXCEPT !.fault = "end"]
    [] b.inStep /\ b.mode = "Read" -> [b EXCEPT !.inStep = FALSE]
    [] OTHER -> [b EXCEPT !.inStep = FALSE, !.step = EmptyStep,
                          !.steps = Append(@, contents(b))]

\* A file without steps reads as one.
EngineClose(b) ==
  IF b.mode = "Write" /\ ~b.declaresSteps
  THEN [b EXCEPT !.steps = Append(@, contents(b)), !.step = EmptyStep]
  ELSE b

\* Steps a reader sees: all of a file that is not read step by step.
inSight(b) ==
  IF b.inStep THEN {b.position} ELSE DOMAIN b.steps

present(b, i) == {k \in inSight(b) : b.steps[k].data[i] # 0}

get(b) ==
  IF \E i \in Iter : b.m_buffer[i] # 0 /\ present(b, i) = {}
  THEN [b EXCEPT !.fault = "get"]
  ELSE [b EXCEPT !.loaded =
          [i \in Iter |-> IF b.m_buffer[i] # 0
                          THEN b.steps[CHOOSE k \in present(b, i) : TRUE].data[i]
                          ELSE @[i]]]

put(b, chunks, attributes) ==
  IF b.declaresSteps /\ ~b.inStep
  THEN [b EXCEPT !.fault = "put"]
  ELSE [b EXCEPT !.step = [attr |-> Merge(@.attr, attributes),
                           data |-> Merge(@.data, chunks)]]

-----------------------------------------------------------------------------
(* Methods of BufferedActions.  Nothing is done behind a fault.            *)

faulty(b) == b.fault # "none"

\* The stream status of a reader once its engine is open.  A file in the
\* attribute layout is parsed before its first step is opened.
decided(b) ==
  CASE b.streamStatus = "OutsideOfStep" -> "DuringStep"
    [] b.streamStatus = "Undecided" ->
         IF ~b.declaresSteps THEN "NoStream"
         ELSE IF b.layout = "ByAdiosAttributes" THEN "Parsing" ELSE "DuringStep"
    [] OTHER -> "error"

openReader(b) ==
  CASE b.streamStatus = "DuringStep" -> BeginStep(b)
    [] b.streamStatus = "error" -> [b EXCEPT !.fault = "control_flow"]
    [] OTHER -> b

getEngine(b) ==
  CASE b.opened -> b
    [] ~b.opened /\ b.mode = "Write" ->
         [b EXCEPT !.opened = TRUE, !.declaresSteps = (b.streamStatus # "NoStream")]
    [] OTHER ->
         openReader([b EXCEPT !.opened = TRUE, !.streamStatus = decided(b)])

stepOpened(b) ==
  IF faulty(b) THEN b
  ELSE [b EXCEPT !.m_lastStepStatus = b.status, !.streamStatus = "DuringStep"]

stepOn(b) ==
  IF ~faulty(b) /\ b.streamStatus = "OutsideOfStep" THEN stepOpened(BeginStep(b)) ELSE b

requireActiveStep(b) == stepOn(getEngine(b))

writesAttributes(b, writeAttributes) ==
  writeAttributes /\ b.m_attributeWrites # NoAttributes

\* The buffered actions; the attribute writes stay until they are cleared.
run(b, writeAttributes) ==
  CASE faulty(b) -> b
    [] ~faulty(b) /\ b.mode = "Read" -> get(b)
    [] OTHER -> IF b.m_buffer = NoChunks /\ ~writesAttributes(b, writeAttributes) THEN b
                ELSE put(b, b.m_buffer, IF writeAttributes THEN b.m_attributeWrites ELSE NoAttributes)

\* What flush is told to do at its end.
perform(b, what) ==
  CASE ~faulty(b) /\ what = "begin" -> BeginStep(b)
    [] ~faulty(b) /\ what = "end" -> EndStep(b)
    [] OTHER -> b

\* Mutant: the buffer is kept.
keptBuffer(b, writeAttributes) ==
  IF faulty(b) \/ ~writeAttributes THEN b ELSE [b EXCEPT !.m_attributeWrites = NoAttributes]

cleared(b, writeAttributes) ==
  IF faulty(b) THEN b
  ELSE [b EXCEPT !.m_buffer = NoChunks,
                 !.m_attributeWrites = IF writeAttributes THEN NoAttributes ELSE @]

\* A step is opened only if there is something to put into it.
nothingToDo(b, writeAttributes) ==
  /\ b.streamStatus = "OutsideOfStep" /\ b.m_buffer = NoChunks
  /\ ~writesAttributes(b, writeAttributes)

flushEngine(b, what, writeAttributes, flushUnconditionally) ==
  IF ~faulty(b) /\ nothingToDo(b, writeAttributes)
  THEN IF flushUnconditionally THEN perform(b, what) ELSE b
  ELSE cleared(perform(run(stepOn(b), writeAttributes), what), writeAttributes)

flush(b, what, writeAttributes, flushUnconditionally) ==
  CASE faulty(b) -> b
    [] ~faulty(b) /\ b.streamStatus = "StreamOver" ->
         IF flushUnconditionally THEN [b EXCEPT !.fault = "stream_over"] ELSE b
    [] OTHER -> flushEngine(getEngine(b), what, writeAttributes, flushUnconditionally)

ended(b) ==
  IF faulty(b) THEN b
  ELSE [b EXCEPT !.uncommitted = {}, !.streamStatus = "OutsideOfStep"]

\* Mutant: attribute writes wait for the next step.
endStepWithoutAttributes(b) ==
  ended(flush(IF b.streamStatus = "OutsideOfStep" THEN BeginStep(getEngine(b)) ELSE b,
              "end", FALSE, TRUE))

\* AdvanceMode::ENDSTEP.
endStep(b) ==
  ended(flush(IF b.streamStatus = "OutsideOfStep" THEN BeginStep(getEngine(b)) ELSE b,
              "end", TRUE, TRUE))

begun(b) ==
  CASE faulty(b) -> b
    [] ~faulty(b) /\ b.status = "EndOfStream" ->
         [b EXCEPT !.streamStatus = "StreamOver", !.advanceStatus = "OVER"]
    [] OTHER -> [b EXCEPT !.streamStatus = "DuringStep"]

\* Mutant: a step that was opened implicitly is opened again.
beginAgain(b) == begun(flush(b, "begin", FALSE, TRUE))

\* AdvanceMode::BEGINSTEP.
beginStep(b) ==
  begun(IF b.streamStatus = "DuringStep" THEN [b EXCEPT !.status = b.m_lastStepStatus]
        ELSE flush(b, "begin", FALSE, TRUE))

advanceEngine(b, mode) ==
  CASE faulty(b) -> b
    [] ~faulty(b) /\ b.streamStatus = "NoStream" -> flush(b, "putget", FALSE, FALSE)
    [] OTHER -> IF mode = "ENDSTEP" THEN endStep(b) ELSE beginStep(b)

advance(b, mode) ==
  advanceEngine([(IF b.streamStatus = "Undecided" THEN getEngine(b) ELSE b)
                   EXCEPT !.advanceStatus = "OK"], mode)

engineClosed(b) ==
  [(IF b.opened THEN EngineClose(b) ELSE b) EXCEPT !.finalized = TRUE]

stepClosed(b) ==
  IF ~faulty(b) /\ b.opened /\ b.streamStatus = "DuringStep" THEN EndStep(b) ELSE b

\* Every attribute write asks for an active step.
finalize(b) ==
  CASE b.finalized -> b
    [] ~b.finalized /\ b.mode = "Read" -> engineClosed(stepClosed(b))
    [] OTHER -> engineClosed(stepClosed(
                  IF b.m_attributeWrites = NoAttributes THEN getEngine(b)
                  ELSE put(requireActiveStep(b), NoChunks, b.m_attributeWrites)))

-----------------------------------------------------------------------------
(* Handlers of ADIOS2IOHandlerImpl for one file.                           *)

writeDataset(b, i, v) == [b EXCEPT !.m_buffer[i] = v]

readDataset(b, i) == [b EXCEPT !.m_buffer[i] = 1]

\* Mutant: the buffered writes are replaced.
writeOnlyAttribute(b, o, v) == [b EXCEPT !.m_attributeWrites = [x \in {o} |-> v]]

\* In the attribute layout the attributes of earlier steps cannot be changed;
\* the new value is dropped with a warning.
writeAttribute(b, o, v) ==
  CASE b.layout = "ByAdiosVariables" -> [b EXCEPT !.m_attributeWrites[o] = v]
    [] b.layout = "ByAdiosAttributes"
         /\ (b.attributes[o] = 0 \/ o \in b.uncommitted) ->
         [b EXCEPT !.attributes[o] = v, !.uncommitted = @ \cup {o}]
    [] OTHER -> b

\* A streaming engine need not send the attributes of a closed iteration again.
closePath(b, i) ==
  IF b.streaming /\ b.layout = "ByAdiosAttributes"
  THEN [b EXCEPT !.attributes[i] = 0] ELSE b

=============================================================================
