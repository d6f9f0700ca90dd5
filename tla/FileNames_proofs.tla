---------------------------- MODULE FileNames_proofs ----------------------------
(***************************************************************************)
(* Proofs about file names, for all indices, patterns and sessions: the    *)
(* file of an iteration is found again under the name computed for it, and *)
(* a program that keeps to one pattern misses none of its iterations.      *)
(***************************************************************************)
EXTENDS FileNames, FiniteSetTheorems, TLAPS

LEMMA DigitsType == \A i : digits(i) \in Nat
<1> TAKE i
<1> DEFINE D == 0 .. MaxDigits - 1
           K == {k \in D : 10 ^ k <= i}
<1>1. IsFiniteSet(D)
  BY IndicesAssumption, FS_Interval
<1>2. IsFiniteSet(K)
  <2>1. K \in SUBSET D
    OBVIOUS
  <2> QED
    BY <1>1, <2>1, FS_Subset
<1>3. Cardinality(K) \in Nat
  BY <1>2, FS_CardinalityType
<1> QED
  BY <1>3 DEF digits

\* The number of digits that an index gets in a name of padding p.
width(p, i) == IF digits(i) < p THEN p ELSE digits(i)

\* Every file was named with the padding of a pattern, or with one detected.
Names ==
  \A f \in files : \E p \in patterns : p > 0 => f.length = width(p, f.index)

\* What a session knows of its files.
Session ==
  /\ access = "none" => dirtyIterations = {} \/ fault # "none"
  /\ access # "none" =>
    /\ session > 0 /\ pattern \in Paddings
    /\ pattern > 0 => m_filenamePadding = pattern
    /\ dirtyIterations \subseteq iterations
    /\ access = "READ_ONLY" => dirtyIterations = {}
    /\ access = "READ_WRITE" /\ pattern = 0 => \A f \in files : f.index \in onDisk

Inv == TypeOK /\ Names /\ Session /\ KnownFilesExist /\ NothingMissed

LEMMA NameType ==
  ASSUME TypeOK, NEW i \in Indices
  PROVE  /\ iterationFilename(i) \in File
         /\ iterationFilename(i).index = i
         /\ iterationFilename(i).length = width(m_filenamePadding, i)
         /\ iterationFilename(i).length >= digits(i)
BY DigitsType DEF TypeOK, iterationFilename, File, width

\* The padding found in files of one length is theirs.
LEMMA Detected ==
  ASSUME TypeOK, NEW padding \in Paddings,
         consistent({f.length : f \in matcher(padding)})
  PROVE  LET n == detected(padding, {f.length : f \in matcher(padding)})
         IN /\ n \in Nat
            /\ padding > 0 => n = padding
            /\ \A f \in matcher(padding) : f.length = n /\ width(n, f.index) = n
<1> DEFINE P == {f.length : f \in matcher(padding)}
           n == detected(padding, P)
<1>1. \A f \in matcher(padding) : /\ f \in files /\ f.length \in P /\ f.length \in Nat
                                  /\ f.length >= digits(f.index)
                                  /\ padding > 0 => f.length = padding
  BY SessionsAssumption DEF TypeOK, matcher, File
<1>2. \A m \in P : m \in Nat /\ (padding > 0 => m = padding)
  BY <1>1
<1>3. CASE P = {}
  <2>1. n = padding /\ matcher(padding) = {}
    BY <1>1, <1>3 DEF detected
  <2> QED
    BY <2>1, SessionsAssumption
<1>4. CASE P # {}
  <2>1. n \in P
    BY <1>4 DEF detected
  <2>2. \A f \in matcher(padding) : f.length = n
    BY <1>1, <2>1 DEF consistent
  <2>3. \A f \in matcher(padding) : width(n, f.index) = n
    BY <1>1, <2>2, DigitsType DEF width
  <2> QED
    BY <1>2, <2>1, <2>2, <2>3
<1> QED
  BY <1>3, <1>4

LEMMA InitInv == Init => Inv
BY SessionsAssumption
   DEF Init, Inv, TypeOK, Names, Session, KnownFilesExist, NothingMissed, files, Modes

LEMMA CreateInv ==
  ASSUME Inv, NEW padding \in Paddings, Create(padding)
  PROVE  Inv'
<1>1. TypeOK'
  BY SessionsAssumption DEF Inv, TypeOK, Create, files, Modes
<1>2. Names' /\ KnownFilesExist' /\ NothingMissed'
  BY DEF Inv, Names, KnownFilesExist, NothingMissed, Create, files
<1>3. session + 1 > 0
  BY DEF Inv, TypeOK
<1>4. Session'
  BY <1>3 DEF Session, Create, files
<1> QED
  BY <1>1, <1>2, <1>4 DEF Inv

LEMMA OpenInv ==
  ASSUME Inv, NEW mode \in {"READ_ONLY", "READ_WRITE"}, NEW padding \in Paddings,
         Open(mode, padding)
  PROVE  Inv'
<1> DEFINE M == matcher(padding)
           P == {f.length : f \in M}
           n == detected(padding, P)
<1>1. /\ UNCHANGED <<directory, patterns>> /\ files' = files
      /\ session' = session + 1 /\ session < MaxSessions
      /\ access = "none" /\ dirtyIterations' = {} /\ fault' = "none"
  BY DEF Open, files
<1>2. M \subseteq files /\ \A f \in M : f \in File /\ f.index \in Indices
  BY DEF Inv, TypeOK, matcher, File
<1>3. Names'
  BY <1>1 DEF Inv, Names, width, digits
<1>4. CASE ~admitted(mode, P)
  <2>1. UNCHANGED <<access, pattern, m_filenamePadding, iterations, onDisk>>
    BY <1>4 DEF Open
  <2>2. TypeOK'
    BY <1>1, <2>1, SessionsAssumption DEF Inv, TypeOK, Modes, digits, missing
  <2>3. Session' /\ KnownFilesExist' /\ NothingMissed'
    BY <1>1, <2>1 DEF Session, files, KnownFilesExist, NothingMissed
  <2> QED
    BY <1>3, <2>2, <2>3 DEF Inv
<1>5. CASE admitted(mode, P)
  <2>1. /\ access' = mode /\ pattern' = padding /\ m_filenamePadding' = n
        /\ iterations' = {f.index : f \in M} /\ onDisk' = iterations'
    BY <1>5 DEF Open
  <2>2. n \in Nat /\ (padding > 0 => n = padding)
    <3>1. CASE consistent(P)
      BY <3>1, Detected DEF Inv
    <3>2. CASE ~consistent(P)
      <4>1. \A f \in M : f.length \in Nat /\ (padding > 0 => f.length = padding)
        BY <1>2, SessionsAssumption DEF matcher, File
      <4>2. ~(padding > 0)
        BY <3>2, <4>1 DEF consistent
      <4>3. n = padding
        BY <3>2 DEF detected
      <4> QED
        BY <4>2, <4>3, SessionsAssumption
    <3> QED
      BY <3>1, <3>2
  <2> HIDE DEF n
  <2>3. TypeOK'
    BY <1>1, <1>2, <2>1, <2>2, SessionsAssumption DEF Inv, TypeOK, Modes, digits
  <2>4. Session'
    <3>1. session + 1 > 0
      BY DEF Inv, TypeOK
    <3>2. padding = 0 => M = files
      BY DEF matcher
    <3> QED
      BY <1>1, <2>1, <2>2, <3>1, <3>2 DEF Session
  <2>5. KnownFilesExist'
    <3>1. SUFFICES ASSUME consistent(P), NEW f \in M
                   PROVE  iterationFilename(f.index)' \in files
      BY <1>1, <1>5, <2>1
      DEF KnownFilesExist, oneLength, matcher, files, admitted
    <3>2. f.length = n /\ width(n, f.index) = n
      BY <3>1, Detected DEF Inv, n
    <3>3. iterationFilename(f.index)' = [index |-> f.index, length |-> n]
      BY <2>1, <3>2 DEF iterationFilename, width, digits
    <3>4. f = [index |-> f.index, length |-> n]
      BY <1>2, <3>1, <3>2 DEF File
    <3> QED
      BY <1>2, <3>1, <3>3, <3>4
  <2>6. NothingMissed'
    <3>1. SUFFICES ASSUME patterns \subseteq {padding}, NEW f \in files,
                          padding = 0 \/ \A i \in Indices : digits(i) <= padding
                   PROVE  f \in M
      BY <1>1, <2>1 DEF NothingMissed, fits, digits
    <3>2. CASE padding = 0
      BY <3>1, <3>2 DEF matcher
    <3>3. CASE padding # 0
      <4>1. padding > 0
        BY <3>3, SessionsAssumption
      <4>2. f.length = width(padding, f.index)
        BY <3>1, <4>1 DEF Inv, Names
      <4>3. digits(f.index) <= padding
        BY <3>1, <3>3 DEF Inv, TypeOK, File
      <4>4. f.length = padding
        BY <4>2, <4>3, DigitsType, SessionsAssumption DEF width
      <4> QED
        BY <3>1, <4>4 DEF matcher
    <3> QED
      BY <3>2, <3>3
  <2> QED
    BY <1>3, <2>3, <2>4, <2>5, <2>6 DEF Inv
<1> QED
  BY <1>4, <1>5

\* Steps that leave the directory, the session and its padding alone.
LEMMA SameDirectory ==
  ASSUME Inv, UNCHANGED <<directory, session, access, pattern, m_filenamePadding, onDisk, patterns>>,
         iterations \subseteq iterations'
  PROVE  Names' /\ KnownFilesExist' /\ NothingMissed'
<1>1. files' = files
  BY DEF files
<1>2. Names'
  BY <1>1 DEF Inv, Names, width, digits
<1>3. KnownFilesExist'
  BY <1>1 DEF Inv, KnownFilesExist, oneLength, matcher, iterationFilename, digits
<1>4. NothingMissed'
  BY <1>1 DEF Inv, NothingMissed, fits, digits
<1> QED
  BY <1>2, <1>3, <1>4

LEMMA ChangeInv ==
  ASSUME Inv, NEW i \in Indices, Change(i)
  PROVE  Inv'
<1>1. TypeOK'
  BY DEF Inv, TypeOK, Change, files, digits
<1>2. Session'
  BY DEF Inv, Session, Change, files
<1>3. Names' /\ KnownFilesExist' /\ NothingMissed'
  BY SameDirectory DEF Change
<1> QED
  BY <1>1, <1>2, <1>3 DEF Inv

LEMMA OpenIterationInv ==
  ASSUME Inv, NEW i \in Indices, OpenIteration(i)
  PROVE  Inv'
<1>1. TypeOK'
  BY DEF Inv, TypeOK, OpenIteration, files, digits, missing
<1>2. Session'
  BY DEF Inv, Session, OpenIteration, files
<1>3. Names' /\ KnownFilesExist' /\ NothingMissed'
  BY SameDirectory DEF OpenIteration
<1> QED
  BY <1>1, <1>2, <1>3 DEF Inv

LEMMA LeaveInv ==
  ASSUME Inv, Leave
  PROVE  Inv'
<1>1. TypeOK' /\ Names'
  BY DEF Inv, TypeOK, Names, Leave, files, digits, width
<1>2. Session' /\ KnownFilesExist' /\ NothingMissed'
  BY DEF Inv, Session, KnownFilesExist, NothingMissed, Leave, files
<1> QED
  BY <1>1, <1>2 DEF Inv

LEMMA FlushInv ==
  ASSUME Inv, NEW i \in Indices, Flush(i)
  PROVE  Inv'
<1> DEFINE f == iterationFilename(i)
<1>1. /\ UNCHANGED <<session, access, pattern, m_filenamePadding, iterations>>
      /\ i \in dirtyIterations
  BY DEF Flush
<1>2. /\ f \in File /\ f.index = i /\ f.length = width(m_filenamePadding, i)
      /\ f.length >= digits(i)
  BY NameType DEF Inv
<1>3. CASE \E task \in {"CREATE_FILE"} \cup missing : refuse(task)
  <2>1. /\ UNCHANGED <<directory, patterns, dirtyIterations, onDisk>>
        /\ fault' \in {"CREATE_FILE"} \cup missing
    BY <1>3 DEF refuse, Flush, missing
  <2>2. TypeOK'
    BY <1>1, <2>1 DEF Inv, TypeOK, files, digits
  <2>3. Session'
    BY <1>1, <2>1 DEF Inv, Session, files, missing
  <2>4. Names' /\ KnownFilesExist' /\ NothingMissed'
    BY <1>1, <2>1, SameDirectory
  <2> QED
    BY <2>2, <2>3, <2>4 DEF Inv
<1>4. CASE save(f)
  <2>1. /\ files' = files \cup {f} /\ patterns' = patterns \cup {pattern}
        /\ \A g \in files' : directory'[g] = IF g = f THEN session ELSE directory[g]
        /\ fault' = "none" /\ dirtyIterations' = dirtyIterations \ {i}
        /\ onDisk' = onDisk \cup {i}
    BY <1>2, <1>4 DEF save, Flush, files
  <2>2. /\ access # "none" /\ access # "READ_ONLY" /\ i \in iterations
        /\ session > 0 /\ pattern \in Paddings /\ pattern \in Nat
        /\ pattern > 0 => m_filenamePadding = pattern
    BY <1>1, SessionsAssumption DEF Inv, Session, Flush
  <2>3. TypeOK'
    <3>1. session \in 1 .. session
      BY <2>2 DEF Inv, TypeOK
    <3> QED
      BY <1>1, <1>2, <2>1, <2>2, <3>1 DEF Inv, TypeOK, digits
  <2>4. Names'
    <3>1. SUFFICES ASSUME NEW g \in files'
                   PROVE  \E p \in patterns' : p > 0 => g.length = width(p, g.index)
      BY DEF Names, width, digits
    <3>2. CASE g = f
      BY <1>2, <2>1, <2>2, <3>2
    <3>3. CASE g # f
      BY <2>1, <3>1, <3>3 DEF Inv, Names
    <3> QED
      BY <3>2, <3>3
  <2>5. Session'
    BY <1>1, <1>2, <2>1, <2>2 DEF Inv, Session
  <2>6. KnownFilesExist'
    <3>1. \A j : iterationFilename(j)' = iterationFilename(j)
      BY <1>1 DEF iterationFilename, digits
    <3>2. \A j \in onDisk : iterationFilename(j) \in files
      BY <2>2 DEF Inv, TypeOK, Modes, KnownFilesExist
    <3> QED
      BY <2>1, <3>1, <3>2 DEF KnownFilesExist
  <2>7. NothingMissed'
    BY <1>1, <1>2, <2>1, <2>2 DEF Inv, NothingMissed, fits, digits
  <2> QED
    BY <2>3, <2>4, <2>5, <2>6, <2>7 DEF Inv
<1> QED
  BY <1>3, <1>4 DEF Flush, created, missing

LEMMA StutterInv ==
  ASSUME Inv, UNCHANGED vars
  PROVE  Inv'
<1>1. TypeOK'
  BY DEF Inv, TypeOK, vars, files, digits
<1>2. Session'
  BY DEF Inv, Session, vars, files
<1>3. Names' /\ KnownFilesExist' /\ NothingMissed'
  BY SameDirectory DEF vars
<1> QED
  BY <1>1, <1>2, <1>3 DEF Inv

LEMMA NextInv == Inv /\ [Next]_vars => Inv'
BY CreateInv, OpenInv, ChangeInv, FlushInv, OpenIterationInv, LeaveInv, StutterInv DEF Next

LEMMA Invariance == Spec => []Inv
BY InitInv, NextInv, PTL DEF Spec

\* Variables keep their types; no name has fewer digits than its index.
THEOREM TypeCorrect == Spec => []TypeOK
<1>1. Inv => TypeOK
  BY DEF Inv
<1> QED
  BY <1>1, Invariance, PTL

\* The name computed for an iteration is that of its file, in every session but
\* one that reads names of several lengths.
THEOREM NamesAreFound == Spec => []KnownFilesExist
<1>1. Inv => KnownFilesExist
  BY DEF Inv
<1> QED
  BY <1>1, Invariance, PTL

\* Keeping to one pattern with digits enough misses no iteration.
THEOREM OnePatternMissesNothing == Spec => []NothingMissed
<1>1. Inv => NothingMissed
  BY DEF Inv
<1> QED
  BY <1>1, Invariance, PTL

LEMMA SafeFlush ==
  ASSUME Inv, NEW i \in Indices, Flush(i), access = "READ_WRITE"
  PROVE  /\ \A f \in files : directory'[f] # directory[f] => f.index \in onDisk
         /\ pattern = 0 =>
              \A f \in files' \ files, g \in files : f.index # g.index
<1> DEFINE n == iterationFilename(i)
<1>1. n.index = i
  BY NameType DEF Inv
<1>2. CASE UNCHANGED directory
  BY <1>2 DEF files
<1>3. CASE save(n) /\ (i \notin onDisk => n \notin files) /\ (i \in onDisk => n \in files)
  <2>1. /\ files' = files \cup {n}
        /\ \A f \in files : f # n => directory'[f] = directory[f]
    BY <1>3 DEF save, files
  <2>2. \A f \in files : directory'[f] # directory[f] => f.index \in onDisk
    BY <1>1, <1>3, <2>1
  <2>3. ASSUME pattern = 0, NEW f \in files' \ files, NEW g \in files
        PROVE  f.index # g.index
    BY <1>1, <1>3, <2>1, <2>3 DEF Inv, Session
  <2> QED
    BY <2>2, <2>3
<1> QED
  BY <1>2, <1>3 DEF Flush, created, refuse

\* Extending a Series touches no file it has not found, and with "%T" gives no
\* iteration a second file.
THEOREM ExtendingIsSafe == Spec => SafeExtension
<1> DEFINE A == access = "READ_WRITE" =>
                  /\ \A f \in files : directory'[f] # directory[f] => f.index \in onDisk
                  /\ pattern = 0 =>
                       \A f \in files' \ files, g \in files : f.index # g.index
<1>1. ASSUME Inv, Next PROVE A
  <2>1. CASE UNCHANGED directory
    BY <2>1 DEF files
  <2>2. CASE \E i \in Indices : Flush(i)
    BY <1>1, <2>2, SafeFlush
  <2> QED
    BY <1>1, <2>1, <2>2 DEF Next, Create, Open, Change, OpenIteration, Leave
<1>2. Inv /\ [Next]_vars => [A]_vars
  BY <1>1
<1> QED
  BY <1>2, Invariance, PTL DEF Spec, SafeExtension

=============================================================================
