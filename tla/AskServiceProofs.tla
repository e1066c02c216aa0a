-------------------------- MODULE AskServiceProofs --------------------------
(***************************************************************************)
(* Proofs about module AskService, for any number of questions, chains and *)
(* resets: a chain in use is never closed, no chain is forgotten, and a    *)
(* question is answered by a chain as new as the question.                 *)
(*                                                                         *)
(* None of the three is inductive.  That the chain in use is not closing   *)
(* rests on where chains in use are (Kept), that no chain is forgotten on  *)
(* the builds not overlapping (Locked), and freshness on the chain that is *)
(* installed being of the current version (Current).                       *)
(***************************************************************************)
EXTENDS AskService, TLAPS

\* At most one question builds, it holds the lock, and there is no chain.
Locked ==
    \A i \in Questions :
        /\ q[i] = "building" <=> lock = i
        /\ q[i] = "building" => chain = 0 /\ built < MaxBuilds

\* A question uses a chain exactly while it is being answered, and that
\* chain is the current one or a retired one.
Kept ==
    \A i \in Questions :
        /\ using[i] # 0 <=> q[i] = "using"
        /\ using[i] # 0 => using[i] = chain \/ using[i] \in retired

\* Only chains that were built are current, retired, closed or torn, and the
\* current one is neither retired nor closed.
Booked ==
    /\ chain <= built
    /\ \A c \in retired \cup closing \cup closed \cup torn : c <= built
    /\ chain \notin retired \cup closing \cup closed

\* The current chain is of the current version, unless its build was torn.
Current ==
    /\ chain # 0 /\ chain \notin torn => of[chain] = version
    /\ \A i \in Questions : asked[i] <= version

Inv ==
    /\ TypeOK /\ Locked /\ Kept /\ Booked /\ Current
    /\ NeverClosedInUse /\ NoChainLost /\ FreshUnlessTorn

LEMMA InitInv == Init => Inv
<1> SUFFICES ASSUME Init PROVE Inv
  OBVIOUS
<1> USE AskAssumption DEF Init
<1>1. TypeOK
  BY DEF TypeOK, Chains
<1>2. Locked /\ Kept
  BY DEF Locked, Kept
<1>3. Booked /\ Current
  BY DEF Booked, Current
<1>4. NeverClosedInUse /\ NoChainLost /\ FreshUnlessTorn
  BY DEF NeverClosedInUse, NoChainLost, FreshUnlessTorn
<1> QED
  BY <1>1, <1>2, <1>3, <1>4 DEF Inv

\* The steps that neither move a chain nor change who uses one.
LEMMA QuestionKeepsInv ==
  ASSUME Inv, NEW i \in Questions, Ask(i) \/ Build(i) \/ Abandon(i)
  PROVE Inv'
<1> USE AskAssumption
<1>1. TypeOK'
  BY ZenonT(60) DEF Inv, TypeOK, Ask, Build, Abandon, chains, Chains
<1>2. Locked'
  BY DEF Inv, TypeOK, Locked, Ask, Build, Abandon
<1>3. Kept'
  BY DEF Inv, TypeOK, Kept, Ask, Build, Abandon, chains
<1>4. Booked'
  BY DEF Inv, Booked, Ask, Build, Abandon, chains
<1>5. Current'
  BY DEF Inv, TypeOK, Current, Ask, Build, Abandon
<1>6. NeverClosedInUse' /\ NoChainLost'
  BY DEF Inv, NeverClosedInUse, NoChainLost, Ask, Build, Abandon, chains
<1>7. FreshUnlessTorn'
  <2> SUFFICES ASSUME NEW k \in Questions, using'[k] # 0, using'[k] \notin torn'
               PROVE  of'[using'[k]] >= asked'[k]
    BY DEF FreshUnlessTorn
  <2>1. using' = using /\ of' = of /\ torn' = torn
    BY DEF Ask, Build, Abandon
  <2>2. asked'[k] = asked[k]
    BY <2>1 DEF Inv, TypeOK, Kept, Ask, Build, Abandon
  <2> QED
    BY <2>1, <2>2 DEF Inv, FreshUnlessTorn
<1> QED
  BY <1>1, <1>2, <1>3, <1>4, <1>5, <1>6, <1>7 DEF Inv

LEMMA EnterKeepsInv ==
  ASSUME Inv, NEW i \in Questions, Enter(i)
  PROVE Inv'
<1> USE AskAssumption DEF Enter
<1>1. TypeOK'
  BY DEF Inv, TypeOK, chains, Chains
<1>2. Locked'
  BY DEF Inv, TypeOK, Locked
<1>3. Kept'
  BY DEF Inv, TypeOK, Kept, chains
<1>4. Booked' /\ Current'
  BY DEF Inv, Booked, Current, chains
<1>5. NeverClosedInUse'
  BY DEF Inv, TypeOK, Booked, NeverClosedInUse, chains
<1>6. NoChainLost'
  BY DEF Inv, TypeOK, Kept, NoChainLost, chains
<1>7. FreshUnlessTorn'
  BY DEF Inv, TypeOK, Current, FreshUnlessTorn, Chains
<1> QED
  BY <1>1, <1>2, <1>3, <1>4, <1>5, <1>6, <1>7 DEF Inv

LEMMA BuiltKeepsInv ==
  ASSUME Inv, NEW i \in Questions, Built(i)
  PROVE Inv'
<1> USE AskAssumption DEF Built
<1>1. built < MaxBuilds /\ chain = 0 /\ using[i] = 0 /\ built + 1 \in Chains
  BY DEF Inv, TypeOK, Locked, Kept, Chains
<1>2. TypeOK'
  BY <1>1 DEF Inv, TypeOK, chains, Chains
<1>3. Locked'
  BY DEF Inv, TypeOK, Locked
<1>4. Kept'
  BY <1>1 DEF Inv, TypeOK, Kept, chains
<1>5. Booked'
  BY <1>1 DEF Inv, TypeOK, Booked, chains, Chains
<1>6. Current'
  BY <1>1 DEF Inv, TypeOK, Booked, Current, Chains
<1>7. NeverClosedInUse'
  BY <1>1, <1>5 DEF Inv, TypeOK, Booked, NeverClosedInUse, chains
<1>8. NoChainLost'
  <2> SUFFICES ASSUME NEW c \in 1..built', c # chain'
               PROVE  \/ c \in retired /\ \E k \in Questions : using'[k] = c
                      \/ c \in closing \cup closed
    BY DEF NoChainLost, chains
  <2>1. c \in 1..built /\ c # chain
    BY <1>1 DEF Inv, TypeOK, Chains
  <2>2. CASE c \in retired /\ \E k \in Questions : using[k] = c
    BY <2>1, <2>2, <1>1 DEF Inv, TypeOK
  <2> QED
    BY <2>1, <2>2 DEF Inv, NoChainLost
<1>9. FreshUnlessTorn'
  <2> SUFFICES ASSUME NEW k \in Questions, using'[k] # 0, using'[k] \notin torn'
               PROVE  of'[using'[k]] >= asked'[k]
    BY DEF FreshUnlessTorn
  <2>1. CASE k = i
    BY <2>1, <1>1 DEF Inv, TypeOK, Current
  <2>2. CASE k # i
    <3>1. using'[k] = using[k] /\ using[k] \notin torn
      BY <2>2 DEF Inv, TypeOK
    <3>2. using[k] <= built /\ using[k] \in Nat
      BY <3>1, <1>1 DEF Inv, TypeOK, Booked, Kept
    <3>3. of'[using[k]] = of[using[k]]
      BY <3>1, <3>2, <1>1 DEF Inv, TypeOK, Chains
    <3> QED
      BY <3>1, <3>3 DEF Inv, FreshUnlessTorn
  <2> QED
    BY <2>1, <2>2
<1> QED
  BY <1>2, <1>3, <1>4, <1>5, <1>6, <1>7, <1>8, <1>9 DEF Inv

LEMMA FinishKeepsInv ==
  ASSUME Inv, NEW i \in Questions, Finish(i)
  PROVE Inv'
<1> USE AskAssumption DEF Finish
<1>1. TypeOK'
  BY DEF Inv, TypeOK, CloseIdle, Idle
<1>2. Locked'
  BY DEF Inv, TypeOK, Locked
<1>3. Kept'
  BY DEF Inv, TypeOK, Kept, CloseIdle, Idle
<1>4. Booked' /\ Current'
  BY DEF Inv, TypeOK, Booked, Current, CloseIdle, Idle
<1>5. NeverClosedInUse'
  BY DEF Inv, TypeOK, NeverClosedInUse, CloseIdle, Idle
<1>6. NoChainLost'
  BY DEF Inv, TypeOK, NoChainLost, CloseIdle, Idle
<1>7. FreshUnlessTorn'
  BY DEF Inv, TypeOK, FreshUnlessTorn
<1> QED
  BY <1>1, <1>2, <1>3, <1>4, <1>5, <1>6, <1>7 DEF Inv

LEMMA ResetKeepsInv ==
  ASSUME Inv, Reset
  PROVE Inv'
<1> USE AskAssumption DEF Reset
<1>0. retired' \cup closing' \subseteq retired \cup closing \cup ({chain} \ {0})
  BY DEF CloseIdle, Idle
<1>1. TypeOK'
  <2>1. {chain} \ {0} \subseteq Chains
    BY DEF Inv, TypeOK, Chains
  <2>2. retired' \subseteq Chains /\ closing' \subseteq Chains
    BY <1>0, <2>1 DEF Inv, TypeOK
  <2>3. chain' \in 0..MaxBuilds /\ version' \in 0..MaxResets
    BY DEF Inv, TypeOK
  <2> QED
    BY <2>2, <2>3 DEF Inv, TypeOK
<1>2. Locked'
  BY DEF Inv, TypeOK, Locked
<1>3. Kept'
  BY DEF Inv, TypeOK, Kept, CloseIdle, Idle
<1>4. Booked'
  <2>1. built \in Nat /\ 0 \notin Chains
    BY DEF Inv, TypeOK, Chains
  <2>2. 0 \notin retired' \cup closing' \cup closed
    BY <1>0, <2>1 DEF Inv, TypeOK
  <2>3. \A c \in retired' \cup closing' : c <= built
    BY <1>0 DEF Inv, Booked
  <2> QED
    BY <2>1, <2>2, <2>3 DEF Inv, Booked
<1>5. Current'
  BY DEF Inv, TypeOK, Current
<1>6. NeverClosedInUse'
  BY DEF Inv, TypeOK, NeverClosedInUse, CloseIdle, Idle
<1>7. NoChainLost'
  BY DEF Inv, TypeOK, NoChainLost, CloseIdle, Idle
<1>8. FreshUnlessTorn'
  BY DEF Inv, FreshUnlessTorn
<1> QED
  BY <1>1, <1>2, <1>3, <1>4, <1>5, <1>6, <1>7, <1>8 DEF Inv

LEMMA CloseKeepsInv ==
  ASSUME Inv, NEW c \in Chains, Close(c)
  PROVE Inv'
<1> USE AskAssumption DEF Close
<1>1. TypeOK' /\ Locked' /\ Kept' /\ Booked' /\ Current'
  BY DEF Inv, TypeOK, Locked, Kept, Booked, Current
<1>2. NeverClosedInUse' /\ NoChainLost' /\ FreshUnlessTorn'
  BY DEF Inv, NeverClosedInUse, NoChainLost, FreshUnlessTorn
<1> QED
  BY <1>1, <1>2 DEF Inv

LEMMA ShutdownKeepsInv ==
  ASSUME Inv, Shutdown
  PROVE Inv'
<1> USE AskAssumption DEF Shutdown
<1>1. \A i \in Questions : using[i] = 0
  BY DEF Inv, TypeOK, Kept
<1>0. closed' = closed \cup retired \cup closing \cup ({chain} \ {0})
  OBVIOUS
<1>2. TypeOK'
  <2>1. {chain} \ {0} \subseteq Chains /\ chain' \in 0..MaxBuilds
    BY DEF Inv, TypeOK, Chains
  <2>2. closed' \subseteq Chains
    BY <1>0, <2>1 DEF Inv, TypeOK
  <2> QED
    BY <2>1, <2>2 DEF Inv, TypeOK
<1>3. Locked' /\ Kept' /\ Current'
  BY <1>1 DEF Inv, Locked, Kept, Current
<1>4. Booked'
  <2>1. built \in Nat /\ 0 \notin Chains
    BY DEF Inv, TypeOK, Chains
  <2>2. 0 \notin closed' /\ \A c \in closed' : c <= built
    BY <1>0, <2>1 DEF Inv, TypeOK, Booked
  <2> QED
    BY <2>1, <2>2 DEF Inv, Booked
<1>5. NeverClosedInUse' /\ NoChainLost' /\ FreshUnlessTorn'
  BY <1>1 DEF Inv, NeverClosedInUse, NoChainLost, FreshUnlessTorn
<1> QED
  BY <1>2, <1>3, <1>4, <1>5 DEF Inv

LEMMA NextInv == Inv /\ [Next]_vars => Inv'
<1> SUFFICES ASSUME Inv, [Next]_vars PROVE Inv'
  OBVIOUS
<1>1. CASE UNCHANGED vars
  BY <1>1 DEF Inv, vars, TypeOK, Locked, Kept, Booked, Current,
              NeverClosedInUse, NoChainLost, FreshUnlessTorn
<1>2. CASE Next
  BY <1>2, QuestionKeepsInv, EnterKeepsInv, BuiltKeepsInv, FinishKeepsInv,
     ResetKeepsInv, CloseKeepsInv, ShutdownKeepsInv DEF Next
<1> QED
  BY <1>1, <1>2

LEMMA Invariance == Spec => []Inv
  BY InitInv, NextInv, PTL DEF Spec

(* Every variable keeps its type. *)
THEOREM TypeCorrect == Spec => []TypeOK
<1>1. Inv => TypeOK
  BY DEF Inv
<1> QED
  BY <1>1, Invariance, PTL

(* ask.py, _close_idle and reset: no chain is closed under a question that *)
(* is being answered with it.                                              *)
THEOREM ChainsInUseStayOpen == Spec => []NeverClosedInUse
<1>1. Inv => NeverClosedInUse
  BY DEF Inv
<1> QED
  BY <1>1, Invariance, PTL

(* ask.py, reset and chain: every chain built is current, retired and in   *)
(* use, or being closed.                                                   *)
THEOREM ChainsAreAccountedFor == Spec => []NoChainLost
<1>1. Inv => NoChainLost
  BY DEF Inv
<1> QED
  BY <1>1, Invariance, PTL

(* ask.py, chain: an answer is of the configuration the question was asked *)
(* under or of a later one, unless a reset overlapped the chain's build.   *)
THEOREM AnswersAreFresh == Spec => []FreshUnlessTorn
<1>1. Inv => FreshUnlessTorn
  BY DEF Inv
<1> QED
  BY <1>1, Invariance, PTL
=============================================================================
