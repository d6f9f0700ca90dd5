------------------------------- MODULE FileNames -------------------------------
(***************************************************************************)
(* The names of the files of a file-based Series.  A pattern "%T" or       *)
(* "%0<N>T" decides which files of the directory belong to the Series that *)
(* is opened, and how many digits the name of each of its iterations gets; *)
(* the names are computed again whenever an iteration is opened.  Several  *)
(* sessions, one behind the other, work on one directory.                  *)
(***************************************************************************)
EXTENDS Integers, FiniteSets

CONSTANTS
  Indices,      \* indices of iterations
  MaxDigits,    \* no index has more digits
  Paddings,     \* N of the patterns; 0 is "%T"
  MaxSessions   \* bound on the sessions

ASSUME IndicesAssumption == Indices \subseteq Nat /\ MaxDigits \in Nat \ {0}
ASSUME SessionsAssumption == Paddings \subseteq Nat /\ MaxSessions \in Nat \ {0}

VARIABLES
  directory,         \* its files, with the session that wrote each last
  session,           \* number of the session
  access,            \* m_backendAccess, or "none" between sessions
  pattern,           \* N of the session's pattern
  m_filenamePadding,
  iterations,        \* indices in Series::iterations
  onDisk,            \* those whose Writable is `written`
  dirtyIterations,
  fault,             \* the task that the backend refuses
  patterns           \* history: patterns the directory was written with

vars == <<directory, session, access, pattern, m_filenamePadding, iterations, onDisk,
          dirtyIterations, fault, patterns>>

Modes == {"CREATE", "READ_ONLY", "READ_WRITE"}

\* An index and the number of digits it is written with make a name.
File == [index : Indices, length : Nat]
files == DOMAIN directory

digits(i) == IF i = 0 THEN 1 ELSE Cardinality({k \in 0 .. MaxDigits - 1 : 10 ^ k <= i})

-----------------------------------------------------------------------------
Init ==
  /\ directory = <<>> /\ session = 0 /\ access = "none" /\ pattern = 0
  /\ m_filenamePadding = 0 /\ iterations = {} /\ onDisk = {} /\ dirtyIterations = {}
  /\ fault = "none" /\ patterns = {}

\* Mutant: "%T" matches indices without leading zeros only.
matcherUnpadded(padding) ==
  {f \in files : f.length = IF padding = 0 THEN digits(f.index) ELSE padding}

\* The file names that match "[[:digit:]]{N}", or "[[:digit:]]+".
matcher(padding) == {f \in files : padding = 0 \/ f.length = padding}

\* Mutants: leading zeros are dropped; an index is cut to the padding.
filenameWithoutPadding(i) == [index |-> i, length |-> digits(i)]
filenameCut(i) ==
  [index |-> i, length |-> IF m_filenamePadding = 0 THEN digits(i) ELSE m_filenamePadding]

\* std::setw with std::setfill('0').
iterationFilename(i) ==
  [index |-> i,
   length |-> IF digits(i) < m_filenamePadding THEN m_filenamePadding ELSE digits(i)]

\* Series(filepath, CREATE): the directory is not looked at.
Create(padding) ==
  /\ access = "none" /\ session < MaxSessions
  /\ session' = session + 1
  /\ access' = "CREATE" /\ pattern' = padding /\ m_filenamePadding' = padding
  /\ iterations' = {} /\ onDisk' = {} /\ dirtyIterations' = {} /\ fault' = "none"
  /\ UNCHANGED <<directory, patterns>>

consistent(paddings) == \A m, n \in paddings : m = n

\* The constructor throws without files to read, or before writing files with
\* names of several lengths.
admitted(mode, paddings) ==
  IF mode = "READ_ONLY" THEN paddings # {} ELSE consistent(paddings)

\* Mutant: the padding stays as the pattern has it.
detectedNever(padding, paddings) == padding

\* One length becomes the padding, whatever the pattern.
detected(padding, paddings) ==
  IF paddings # {} /\ consistent(paddings) THEN CHOOSE n \in paddings : TRUE ELSE padding

\* readFileBased.  Its files are opened by their own names, parsed and closed.
Open(mode, padding) ==
  LET matching == matcher(padding)
      paddings == {f.length : f \in matching}
  IN /\ access = "none" /\ session < MaxSessions
     /\ session' = session + 1
     /\ IF admitted(mode, paddings)
        THEN /\ access' = mode /\ pattern' = padding
             /\ m_filenamePadding' = detected(padding, paddings)
             /\ iterations' = {f.index : f \in matching}
             /\ onDisk' = iterations'
        ELSE UNCHANGED <<access, pattern, m_filenamePadding, iterations, onDisk>>
     /\ dirtyIterations' = {} /\ fault' = "none"
     /\ UNCHANGED <<directory, patterns>>

\* iterations[i], which need not be there before, and a change to it.
Change(i) ==
  /\ access \in {"CREATE", "READ_WRITE"} /\ fault = "none"
  /\ iterations' = iterations \cup {i}
  /\ dirtyIterations' = dirtyIterations \cup {i}
  /\ UNCHANGED <<directory, session, access, pattern, m_filenamePadding, onDisk, fault,
                 patterns>>

save(f) ==
  /\ directory' = [g \in files \cup {f} |-> IF g = f THEN session ELSE directory[g]]
  /\ patterns' = patterns \cup {pattern}
  /\ fault' = "none"
  /\ dirtyIterations' = dirtyIterations \ {f.index}

refuse(task) == fault' = task /\ UNCHANGED <<directory, patterns, dirtyIterations>>

\* The tasks of SeriesImpl::openIteration that notice a missing file: HDF5 opens
\* it at once, JSON reads it when the base path is opened.
missing == {"OPEN_FILE", "OPEN_PATH"}

\* CREATE_FILE replaces a file in CREATE mode only.
created(f) ==
  IF access = "READ_WRITE" /\ f \in files THEN refuse("CREATE_FILE") ELSE save(f)

\* Iteration::flushFileBased of a dirty iteration; a task that is refused stays
\* at the head of the queue.
Flush(i) ==
  LET f == iterationFilename(i)
  IN /\ i \in dirtyIterations /\ fault = "none"
     /\ \/ i \notin onDisk /\ created(f)
        \/ i \in onDisk /\ f \in files /\ save(f)
        \/ i \in onDisk /\ f \notin files /\ (\E task \in missing : refuse(task))
     /\ onDisk' = IF fault' = "none" THEN onDisk \cup {i} ELSE onDisk
     /\ UNCHANGED <<session, access, pattern, m_filenamePadding, iterations>>

\* Iteration::open, with SeriesImpl::openIteration, of an unchanged iteration;
\* it may then be read.
OpenIteration(i) ==
  /\ i \in onDisk \ dirtyIterations /\ fault = "none"
  /\ fault' \in IF iterationFilename(i) \in files THEN {"none"} ELSE missing
  /\ UNCHANGED <<directory, session, access, pattern, m_filenamePadding, iterations,
                 onDisk, dirtyIterations, patterns>>

\* The Series is destroyed; its last flush has been made, or fails.
Leave ==
  /\ access # "none" /\ (dirtyIterations = {} \/ fault # "none")
  /\ access' = "none"
  /\ UNCHANGED <<directory, session, pattern, m_filenamePadding, iterations, onDisk,
                 dirtyIterations, fault, patterns>>

Next ==
  \/ \E padding \in Paddings : Create(padding)
  \/ \E mode \in {"READ_ONLY", "READ_WRITE"}, padding \in Paddings : Open(mode, padding)
  \/ \E i \in Indices : Change(i)
  \/ \E i \in Indices : Flush(i)
  \/ \E i \in Indices : OpenIteration(i)
  \/ Leave

Spec == Init /\ [][Next]_vars

-----------------------------------------------------------------------------
(* Properties.                                                             *)

\* Only names that can be made of an index and a pattern are in the directory.
TypeOK ==
  /\ \A f \in files : f \in File /\ f.length >= digits(f.index) /\ directory[f] \in 1 .. session
  /\ session \in 0 .. MaxSessions /\ access \in Modes \cup {"none"}
  /\ pattern \in Paddings \cup {0} /\ patterns \subseteq Paddings
  /\ m_filenamePadding \in Nat
  /\ onDisk \subseteq iterations /\ dirtyIterations \subseteq Indices
  /\ iterations \subseteq Indices
  /\ fault \in {"none", "CREATE_FILE"} \cup missing

\* In every session that writes, and in one that reads files with names of one
\* length, the name computed for an iteration is that of a file
\* (SeriesImpl::iterationFilename, with the padding readFileBased has detected).
oneLength == consistent({f.length : f \in matcher(pattern)})
KnownFilesExist ==
  access \in {"CREATE", "READ_WRITE"} \/ (access = "READ_ONLY" /\ oneLength) =>
    \A i \in onDisk : iterationFilename(i) \in files

\* A program that uses one pattern, with digits enough for its indices, finds
\* every iteration again that one of its sessions has written (readFileBased).
fits == pattern = 0 \/ \A i \in Indices : digits(i) <= pattern
NothingMissed ==
  access \in {"READ_ONLY", "READ_WRITE"} /\ patterns \subseteq {pattern} /\ fits =>
    {f.index : f \in files} \subseteq iterations

\* A READ_WRITE session changes no file that it has not found, whatever the
\* pattern, and with "%T" it gives no iteration a second file (CREATE_FILE,
\* buildMatcher).
SafeExtension ==
  [][access = "READ_WRITE" =>
       /\ \A f \in files : directory'[f] # directory[f] => f.index \in onDisk
       /\ pattern = 0 =>
            \A f \in files' \ files, g \in files : f.index # g.index]_vars
=============================================================================
