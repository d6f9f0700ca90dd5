--------------------------- MODULE IterationStream ---------------------------
(***************************************************************************)
(* What writing and reading a Series step by step promises together: every *)
(* iteration is sent once, as it was when it was closed, and iterations    *)
(* are received as they were sent and in that order.                       *)
(***************************************************************************)
EXTENDS Naturals, Sequences

CONSTANT Item   \* an iteration with its contents

VARIABLES sent, received

streamVars == <<sent, received>>

Silent == sent = <<>> /\ received = <<>>

Send ==
  \E x \in Item :
    /\ x.it \notin {sent[k].it : k \in DOMAIN sent}
    /\ sent' = Append(sent, x)
    /\ UNCHANGED received

Receive ==
  /\ Len(received) < Len(sent)
  /\ received' = Append(received, sent[Len(received) + 1])
  /\ UNCHANGED sent

Stream == Silent /\ [][Send \/ Receive]_streamVars

=============================================================================
