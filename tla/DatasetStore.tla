----------------------------- MODULE DatasetStore -----------------------------
(***************************************************************************)
(* What storeChunk and flush promise of the cells of datasets, without     *)
(* tasks, copies and files: a store gives cells newer values, the library  *)
(* saves some of them some time later and never puts an older value over a *)
(* newer one, and saved values are lost only when the dataset is erased.   *)
(***************************************************************************)
EXTENDS Naturals

CONSTANTS Comp, Cell, Version
VARIABLES latest, saved, erasing

Nothing == [k \in Cell |-> 0]

Init == \* a new file, or one that is read
  /\ latest = saved
  /\ saved \in [Comp -> [Cell -> Version]]
  /\ erasing = {}

Only(c, f, g) == \A d \in Comp \ {c} : g[d] = f[d]

\* storeChunk
Store(c) ==
  /\ latest' \in [Comp -> [Cell -> Version]]
  /\ Only(c, latest, latest')
  /\ \A k \in Cell : latest[c][k] <= latest'[c][k]
  /\ UNCHANGED <<saved, erasing>>

Save(c) ==
  /\ saved' \in [Comp -> [Cell -> Version]]
  /\ Only(c, saved, saved')
  /\ \A k \in Cell : saved[c][k] <= saved'[c][k] /\ saved'[c][k] <= latest[c][k]
  /\ UNCHANGED <<latest, erasing>>

\* Container::erase asks for the deletion, the backend deletes, more than once
\* if it has failed behind that, and the element leaves the container.
Erase(c)   == erasing' = erasing \cup {c} /\ UNCHANGED <<latest, saved>>
Delete(c)  == /\ c \in erasing
              /\ saved' = [saved EXCEPT ![c] = Nothing]
              /\ erasing' \in {erasing, erasing \ {c}}
              /\ UNCHANGED latest
Discard(c) == /\ saved[c] = Nothing
              /\ latest' = [latest EXCEPT ![c] = Nothing]
              /\ UNCHANGED <<saved, erasing>>

Next == \E c \in Comp : Store(c) \/ Save(c) \/ Erase(c) \/ Delete(c) \/ Discard(c)
vars == <<latest, saved, erasing>>
Spec == Init /\ [][Next]_vars
=============================================================================
