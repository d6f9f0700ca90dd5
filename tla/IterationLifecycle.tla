-------------------------- MODULE IterationLifecycle --------------------------
(***************************************************************************)
(* What Iteration promises its user, without flushes, tasks or files: the  *)
(* user changes an iteration, the library saves some of the changes some   *)
(* time later, and closing an iteration is the last thing it does to it,   *)
(* with nothing left unsaved.                                              *)
(***************************************************************************)
EXTENDS Naturals

CONSTANTS
  Iter,      \* iteration indices
  Content    \* contents of an iteration: versions of its parts

VARIABLES
  latest,    \* contents as the user sees them
  saved,     \* contents of the iteration's file
  sealed     \* iterations whose file is closed for good

lifecycleVars == <<latest, saved, sealed>>

\* Every part of d is at least as recent as in c.
upTo(c, d) == c.attr <= d.attr /\ c.data <= d.data

Created ==
  /\ latest \in [Iter -> Content]
  /\ saved \in [Iter -> Content]
  /\ \A i \in Iter : upTo(saved[i], latest[i])
  /\ sealed = {}

\* The user may change a closed iteration: it is only never saved.
Change(i) ==
  /\ \E c \in Content : upTo(latest[i], c) /\ latest' = [latest EXCEPT ![i] = c]
  /\ UNCHANGED <<saved, sealed>>

\* Older contents never replace newer ones, nor do contents the user never set.
Save(i) ==
  /\ i \notin sealed
  /\ \E c \in Content : /\ upTo(saved[i], c) /\ upTo(c, latest[i])
                        /\ saved' = [saved EXCEPT ![i] = c]
  /\ UNCHANGED <<latest, sealed>>

CloseIteration(i) ==
  /\ i \notin sealed
  /\ saved[i] = latest[i]
  /\ sealed' = sealed \cup {i}
  /\ UNCHANGED <<latest, saved>>

LifecycleNext == \E i \in Iter : Change(i) \/ Save(i) \/ CloseIteration(i)

Lifecycle == Created /\ [][LifecycleNext]_lifecycleVars

=============================================================================
