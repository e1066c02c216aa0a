--------------------------- MODULE MCConsoleJobs ---------------------------
(* Instances of ConsoleJobs for TLC. *)
EXTENDS ConsoleJobs

CONSTANTS j1, j2, n1

SameNamespace == [j \in Jobs |-> n1]
=============================================================================
