---------------------------- MODULE MCAskService ----------------------------
(* Instances of AskService for TLC. *)
EXTENDS AskService

CONSTANTS q1, q2, q3
=============================================================================
