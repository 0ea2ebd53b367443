------------------------------- MODULE Stream --------------------------------
(***************************************************************************)
(* What a ring promises the threads that use it, without cursors or slots: *)
(* one sequence of messages that every consumer reads from its start,      *)
(* message by message, no consumer ahead of those its barrier lists and no *)
(* message published while a consumer is a whole ring behind.              *)
(***************************************************************************)
EXTENDS Integers, Sequences

CONSTANTS
  Consumers, \* the readers
  Barrier,   \* reader -> what it follows; only its readers matter here
  Size,      \* how far the slowest reader may fall behind
  Msgs

VARIABLES
  log, \* the messages published so far
  got  \* what each reader has read

vars == <<log, got>>

Init ==
  /\ log = <<>>
  /\ got = [c \in Consumers |-> <<>>]

Publish(m) ==
  /\ \A c \in Consumers : Len(log) < Len(got[c]) + Size
  /\ log' = Append(log, m)
  /\ UNCHANGED got

Deliver(c) ==
  /\ Len(got[c]) < Len(log)
  /\ \A b \in Barrier[c] \cap Consumers : Len(got[c]) < Len(got[b])
  /\ got' = [got EXCEPT ![c] = Append(@, log[Len(@) + 1])]
  /\ UNCHANGED log

Next ==
  \/ \E m \in Msgs : Publish(m)
  \/ \E c \in Consumers : Deliver(c)

Spec == Init /\ [][Next]_vars

(* Every published message reaches every reader.                           *)
FairSpec == Spec /\ \A c \in Consumers : WF_vars(Deliver(c))
==============================================================================
