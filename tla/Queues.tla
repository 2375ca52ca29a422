-------------------------------- MODULE Queues --------------------------------
(* What is asked of queues of messages and of buffers: how often one is in a *)
(* queue, and what is left of a queue when some of it is dropped.            *)
EXTENDS Naturals, Sequences, FiniteSets

Occurrences(q, x) == Cardinality({i \in DOMAIN q : q[i] = x})

\* The elements of q that are in S, in their order.  (SelectSeq with a set for
\* its test, of which the proofs can speak.)
Kept(q, S) ==
    LET kept[n \in 0 .. Len(q)] ==
            IF n = 0 THEN <<>>
            ELSE IF q[n] \in S THEN Append(kept[n - 1], q[n]) ELSE kept[n - 1]
    IN  kept[Len(q)]

\* What kinds of messages q holds.
KindsIn(q) == [i \in DOMAIN q |-> q[i].what]
=============================================================================
