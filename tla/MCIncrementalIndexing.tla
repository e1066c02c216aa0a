----------------------- MODULE MCIncrementalIndexing -----------------------
(* Instances of IncrementalIndexing for TLC. *)
EXTENDS IncrementalIndexing

\* Each version is one text unit of its own.
OneChunk == [h \in Hashes |-> {h}]

\* The versions share a text unit, and each but the first has its own.
Overlapping == [h \in Hashes |-> IF h = "v1" THEN {"v1"} ELSE {"v1", h}]

\* The first version of the second document kills the run.
OneCulprit == {<<2, "v1">>}
=============================================================================
