--------------------------- MODULE DocumentIndex ---------------------------
(***************************************************************************)
(* What the document registry promises about the stores, whatever happens  *)
(* to the runs that write them.                                            *)
(*                                                                         *)
(* A document is absent, dirty (a run must index it again, or remove it),  *)
(* or clean (its content is what its last commit wrote, and the next run   *)
(* leaves it alone).  Content changes only while a document is dirty, and  *)
(* it becomes absent only once none of its content is left.                *)
(***************************************************************************)
CONSTANT Docs

VARIABLES
    mode,     \* "absent", "dirty" or "clean"
    content   \* what the stores hold of the document

vars == <<mode, content>>

Init ==
    /\ mode = [d \in Docs |-> "absent"]
    /\ content = [d \in Docs |-> {}]

\* A run claims the document before it touches it.
Claim(d) == mode'[d] = "dirty" /\ content'[d] = content[d]

\* A run writes or removes content of a claimed document.
Write(d) == mode[d] = "dirty" /\ mode'[d] = "dirty"

\* A run vouches for what the stores hold.
Vouch(d) == mode[d] = "dirty" /\ mode'[d] = "clean" /\ content'[d] = content[d]

\* Nothing is left of a document that is forgotten.
Drop(d) ==
    /\ mode[d] = "dirty" /\ mode'[d] = "absent"
    /\ content[d] = {} /\ content'[d] = {}

Rest(d) == mode'[d] = mode[d] /\ content'[d] = content[d]

\* A step of a run may move several documents.
Next == \A d \in Docs : Claim(d) \/ Write(d) \/ Vouch(d) \/ Drop(d) \/ Rest(d)

Spec == Init /\ [][Next]_vars
=============================================================================
