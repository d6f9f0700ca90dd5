---------------------------- MODULE SeriesIterator ----------------------------
(***************************************************************************)
(* Reading a group-based Series with ADIOS2 in a loop over readIterations, *)
(* while another process writes it: SeriesIterator begins a step, parses   *)
(* what is new in it, lets the user read, closes the iteration and goes    *)
(* on.  A streaming engine gives the reader each step as soon as it is     *)
(* published, and waits for it; a file is read once it is complete.        *)
(*                                                                         *)
(* Nothing of the reader is visible to anyone else, so each of its calls   *)
(* is one action.                                                          *)
(***************************************************************************)
EXTENDS SeriesGroupBased

VARIABLES
  reader,        \* the BufferedActions of the reading process
  parsed,        \* its Series::iterations, with their contents when parsed
  readClosed,    \* iterations it has closed
  readStep,      \* its SeriesData::m_stepStatus
  m_currentIteration,
  readPhase,     \* where the reading program is
  visited        \* history: iterations as the loop has seen them

readerVars == <<reader, parsed, readClosed, readStep, m_currentIteration, readPhase, visited>>
vars == <<writerVars, readerVars>>

known == DOMAIN parsed

ReaderInit ==
  /\ reader = newFile(engine, "Read")
  /\ parsed = <<>>
  /\ readClosed = {}
  /\ readStep = "NoStep" /\ m_currentIteration = None
  /\ readPhase = "start" /\ visited = <<>>

\* Attributes of a file in the attribute layout belong to no step.
attributesInSight(b) ==
  IF b.layout = "ByAdiosAttributes" /\ ~b.streaming THEN DOMAIN b.steps ELSE inSight(b)

\* listPaths, then Iteration::read of what was not there before: its
\* attributes, and whether there is a dataset.
attributeSteps(b, i) == {k \in attributesInSight(b) : b.steps[k].attr[i] # 0}

\* Mutant: only iterations with a dataset are listed.
withDataset(b) == {i \in Iter : present(b, i) # {}}

inFile(b) == {i \in Iter : present(b, i) # {} \/ attributeSteps(b, i) # {}}

seen(b, i) ==
  [attr |-> IF attributeSteps(b, i) = {} THEN 0
            ELSE b.steps[CHOOSE k \in attributeSteps(b, i) :
                           \A l \in attributeSteps(b, i) : l <= k].attr[i],
   data |-> present(b, i) # {}]

\* SeriesImpl::read passes over an iteration that it knows as closed by its
\* writer, and all that were parsed before are.
reparsed(b) ==
  [i \in known \cup inFile(b) |-> IF i \in known THEN parsed[i] ELSE seen(b, i)]

\* The engine of the reader has been given what the writer has published.
upToDate(b) == [b EXCEPT !.steps = file.steps, !.declaresSteps = file.declaresSteps]

\* A streaming engine waits in BeginStep for a step or for the end.
mayBegin(b) ==
  b.streaming /\ b.streamStatus = "OutsideOfStep" =>
    file.finalized \/ b.position < Len(file.steps)

\* The Series' constructor, SeriesImpl::readGroupBased: reading the first
\* attribute opens the engine, which may begin a step.
Construct ==
  LET b == requireActiveStep(upToDate(reader))
  IN /\ readPhase = "start" /\ mayBegin(reader)
     /\ engine.stream \/ file.finalized
     /\ reader' = b
     /\ parsed' = reparsed(b)
     /\ readPhase' = IF b.status = "EndOfStream" THEN "failed" ELSE "parsed"
     /\ UNCHANGED <<readClosed, readStep, m_currentIteration, visited>>

\* Iteration::beginStep: the step, then what is new in it is parsed.  The first
\* iteration is looked up before, the next one behind it.
beginReading(after) ==
  LET b == advance(upToDate(reader), "BEGINSTEP")
      next == IF after = None THEN known ELSE {i \in DOMAIN reparsed(b) : i > after}
  IN /\ mayBegin(reader)
     /\ reader' = b
     /\ IF b.advanceStatus = "OVER"
        THEN readPhase' = "done" /\ UNCHANGED <<parsed, readStep, m_currentIteration>>
        ELSE /\ parsed' = reparsed(b)
             /\ readStep' = "DuringStep"
             /\ IF next = {}
                THEN readPhase' = "done" /\ UNCHANGED m_currentIteration
                ELSE /\ readPhase' = "loop"
                     /\ \E i \in next : Least(i, next) /\ m_currentIteration' = i
     /\ UNCHANGED <<readClosed, visited>>

\* SeriesIterator's constructor.
Begin ==
  /\ readPhase = "parsed" /\ known # {}
  /\ beginReading(None)

BeginEmpty ==
  /\ readPhase = "parsed" /\ known = {}
  /\ readPhase' = "done"
  /\ UNCHANGED <<reader, parsed, readClosed, readStep, m_currentIteration, visited>>

\* The body of the loop loads the dataset, if there is one, and closes the
\* iteration: its flush gets the data, and then the step ends.
requested(i) == IF parsed[i].data THEN readDataset(reader, i) ELSE reader

\* Mutant: Iteration::close does not flush before the step ends.
gottenLater(i) == requested(i)

gotten(i) == flush(requested(i), "putget", FALSE, FALSE)

ReadIteration ==
  LET i == m_currentIteration
      b == gotten(i)
      e == IF readStep = "DuringStep" /\ b.fault = "none" THEN advance(b, "ENDSTEP") ELSE b
  IN /\ readPhase = "loop" /\ i \notin readClosed
     /\ reader' = flush(e, "putget", FALSE, FALSE)
     /\ readClosed' = readClosed \cup {i}
     /\ readStep' = "NoStep"
     /\ visited' = Append(visited, [it |-> i, attr |-> parsed[i].attr,
                                    data |-> b.loaded[i]])
     /\ readPhase' = "next"
     /\ UNCHANGED <<parsed, m_currentIteration>>

\* Mutant: the loop looks for its next iteration from the start.
IncrementFromStart ==
  /\ readPhase = "next"
  /\ beginReading(None)

\* SeriesIterator::operator++ behind a closed iteration.
Increment ==
  /\ readPhase = "next"
  /\ beginReading(m_currentIteration)

-----------------------------------------------------------------------------
Reader == Construct \/ Begin \/ BeginEmpty \/ ReadIteration \/ Increment

Writing == WriterNext /\ UNCHANGED readerVars
Reading == Reader /\ reader.fault = "none" /\ UNCHANGED writerVars

StreamInit == Init /\ ReaderInit
StreamNext == Writing \/ Reading

StreamSpec == StreamInit /\ [][StreamNext]_vars

\* The reading program goes on whenever it does not wait for the engine; what
\* the writing user does is open.  This is WF_vars(Reading) with its ENABLED
\* spelled out.
mayRead ==
  /\ reader.fault = "none"
  /\ \/ readPhase = "start" /\ mayBegin(reader) /\ (engine.stream \/ file.finalized)
     \/ readPhase = "parsed" /\ (known = {} \/ mayBegin(reader))
     \/ readPhase = "loop" /\ m_currentIteration \notin readClosed
     \/ readPhase = "next" /\ mayBegin(reader)

FairStreamSpec == StreamSpec /\ ([]<>~mayRead \/ []<><<Reading>>_vars)

-----------------------------------------------------------------------------
(* Properties.                                                             *)

\* The reader follows the step protocol, and finds each dataset it has parsed
\* in the step it is in.
ReaderProtocol ==
  /\ reader.fault = "none"
  /\ readPhase # "failed" => (reader.inStep <=> reader.streamStatus = "DuringStep")

\* Written in order of their indices, the iterations that were closed are
\* received as they were closed, once each and in that order.
Delivery == INSTANCE IterationStream
  WITH Item <- [it : Iter, attr : Version, data : Version],
       sent <- finished, received <- visited

InOrderDelivery == Delivery!Stream

\* The loop does not end before every closed iteration was visited.
SeesAll == readPhase = "done" => file.finalized /\ Len(visited) = Len(finished)

\* Once the writer has closed its file, the loop comes to its end.
LoopEnds == file.finalized ~> readPhase \in {"done", "failed"}

=============================================================================
