---------------------------- MODULE MCModelCalls ----------------------------
(* Instances of ModelCalls for TLC. *)
EXTENDS ModelCalls

CONSTANTS i1, i2

\* What an earlier run stored.
Nothing == [i \in Items |-> "none"]
Bad == [i \in Items |-> "bad"]
Stored == [Bad EXCEPT ![i2] = "good"]

Setup(size, lookups, slow, faults, earlier) ==
    [flush_every |-> size, lookups |-> lookups, slow |-> slow,
     faults |-> faults, earlier |-> earlier]

\* Two faults with a segment for every response; or a call that may outlive
\* its item, and a fault where responses of an earlier run are served.
Scenarios ==
    {Setup(1, TRUE, 0, 2, Nothing), Setup(2, TRUE, 1, 0, Nothing),
     Setup(2, TRUE, 1, 1, Bad), Setup(2, TRUE, 1, 1, Stored),
     Setup(2, FALSE, 1, 0, Stored)}

\* The second run only loads what the first one left.
FirstBatch == run = 1
=============================================================================
