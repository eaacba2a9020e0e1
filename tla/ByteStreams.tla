---- MODULE ByteStreams ----
(***************************************************************************)
(* What a tunnel promises to the two ends of every connection: a set of    *)
(* independent one-way streams.  A stream delivers what was written to it, *)
(* in order, without gaps or repetitions; it may stop delivering at any    *)
(* point (the tunnel may break), and nothing is accepted once the writing  *)
(* end has been closed.                                                    *)
(***************************************************************************)
EXTENDS Naturals, Sequences

CONSTANTS Streams, Chunks

VARIABLES sent,      \* what the writing end has accepted
          received,  \* what the reading end has returned
          closed     \* whether the writing end has been closed

vars == <<sent, received, closed>>

Init ==
  /\ sent = [t \in Streams |-> <<>>]
  /\ received = [t \in Streams |-> <<>>]
  /\ closed = [t \in Streams |-> FALSE]

Write(t) ==
  /\ ~closed[t]
  /\ \E d \in Chunks : sent' = [sent EXCEPT ![t] = Append(@, d)]
  /\ UNCHANGED <<received, closed>>

Read(t) ==
  /\ Len(received[t]) < Len(sent[t])
  /\ received' = [received EXCEPT ![t] = Append(@, sent[t][Len(@) + 1])]
  /\ UNCHANGED <<sent, closed>>

\* Any number of ends close at once, and none opens again.
Close ==
  /\ closed' \in [Streams -> BOOLEAN]
  /\ \A t \in Streams : closed[t] => closed'[t]
  /\ UNCHANGED <<sent, received>>

Next ==
  \/ \E t \in Streams : Write(t) \/ Read(t)
  \/ Close

Spec == Init /\ [][Next]_vars
====
