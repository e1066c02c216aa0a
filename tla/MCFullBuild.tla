---------------------------- MODULE MCFullBuild ----------------------------
(* Instances of FullBuild for TLC. *)
EXTENDS FullBuild, TLC

\* Each version is one text unit of its own.
OneChunk == [h \in Hashes |-> {h}]

\* No definition tells two items of the graph apart.
Symmetry == Permutations(GraphItems)
=============================================================================
