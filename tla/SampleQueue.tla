----------------------------- MODULE SampleQueue -----------------------------
(***************************************************************************)
(* What a performance monitor promises its reader: for each metric a queue *)
(* of samples, in the order they were taken, none lost and none twice, and *)
(* never more of them than Limit.                                          *)
(***************************************************************************)
EXTENDS Integers, Sequences

CONSTANTS Metrics,  \* what is measured
          Numbers,  \* samples are numbered 0..Numbers-1, and over again
          Limit     \* samples of a metric on their way to the reader

VARIABLES next,     \* number of the next sample of each metric
          queue     \* numbers of the samples on their way, the oldest first

Init == /\ next = [m \in Metrics |-> 0]
        /\ queue = [m \in Metrics |-> <<>>]

Put(m) == /\ Len(queue[m]) < Limit
          /\ queue' = [queue EXCEPT ![m] = Append(@, next[m])]
          /\ next' = [next EXCEPT ![m] = (@ + 1) % Numbers]

Get(m) == /\ queue[m] # <<>>
          /\ queue' = [queue EXCEPT ![m] = Tail(@)]
          /\ UNCHANGED next

Next == \E m \in Metrics : Put(m) \/ Get(m)

Spec == Init /\ [][Next]_<<next, queue>>
=============================================================================
