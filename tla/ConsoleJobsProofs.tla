------------------------- MODULE ConsoleJobsProofs -------------------------
(***************************************************************************)
(* Proofs about module ConsoleJobs, for any jobs and namespaces and any    *)
(* number of failing saves, shutdowns and crashes: one job per namespace,  *)
(* and records that tell the truth.                                        *)
(*                                                                         *)
(* A claim stands for the job its request has not registered yet; the      *)
(* claims and the active jobs never share a namespace (Exclusive).  A live *)
(* child is never taken for ended, in memory or in its record (Unsettled). *)
(***************************************************************************)
EXTENDS ConsoleJobs, TLAPS

Claiming == {"claimed", "spawning"}

\* A request between its claim and its registration holds its namespace.
Claims ==
    /\ \A n \in Namespaces : claimed[n] # NoJob =>
          NsOf[claimed[n]] = n /\ req[claimed[n]] \in Claiming
    /\ \A j \in Jobs : req[j] \in Claiming => claimed[NsOf[j]] = j

\* A namespace has one claim or one active job.
Exclusive ==
    /\ \A j \in Jobs : jobs[j] \in Active => claimed[NsOf[j]] = NoJob
    /\ \A j, k \in Jobs : /\ jobs[j] \in Active /\ jobs[k] \in Active
                          /\ NsOf[j] = NsOf[k]
                          => j = k

\* A job is registered, saved and has a child only once its request is there.
Requested ==
    \A j \in Jobs :
        /\ jobs[j] # "none" => req[j] = "ended"
        /\ req[j] # "ended" => records[j] = "none"
        /\ req[j] \in {"new", "reading", "claimed"} => child[j] = "none"
        /\ console # "up" => req[j] \in {"new", "ended"}
        /\ console = "down" => jobs[j] = "none"

\* A live child's job is nowhere recorded as settled.
Unsettled ==
    /\ \A j \in Jobs : Live(j) => jobs[j] \notin Settled /\ records[j] \notin Settled
    /\ \A j \in watched : jobs[j] \in Active

Inv ==
    /\ TypeOK /\ Claims /\ Exclusive /\ Requested /\ Unsettled
    /\ RecordsTrue

LEMMA OneJob == Inv => OneJobPerNamespace
<1> SUFFICES ASSUME Inv, NEW j \in Jobs, NEW k \in Jobs,
                    Live(j), Live(k), Mine(j), Mine(k), NsOf[j] = NsOf[k]
             PROVE  j = k
  BY DEF OneJobPerNamespace
<1>1. \A i \in {j, k} : req[i] = "spawning" \/ jobs[i] \in Active
  BY DEF Inv, TypeOK, Unsettled, Mine
<1>2. NsOf[j] \in Namespaces /\ NoJob \notin Jobs
  BY JobsAssumption
<1> QED
  BY <1>1, <1>2 DEF Inv, Claims, Exclusive, Claiming

LEMMA InitInv == Init => Inv
<1> SUFFICES ASSUME Init PROVE Inv
  OBVIOUS
<1> USE JobsAssumption DEF Init, Active, Settled
<1>1. TypeOK
  BY DEF TypeOK, Exits
<1>2. Claims /\ Exclusive
  BY DEF Claims, Exclusive, Claiming
<1>3. Requested /\ Unsettled /\ RecordsTrue
  BY DEF Requested, Unsettled, RecordsTrue, Live
<1> QED
  BY <1>1, <1>2, <1>3 DEF Inv

-----------------------------------------------------------------------------
(* A request.                                                              *)

LEMMA ReadKeepsInv ==
  ASSUME Inv, NEW j \in Jobs, Read(j)
  PROVE Inv'
<1> USE JobsAssumption DEF Read, memory, counts
<1>1. TypeOK'
  BY DEF Inv, TypeOK
<1>2. Claims' /\ Exclusive'
  BY DEF Inv, TypeOK, Claims, Exclusive, Claiming
<1>3. Requested' /\ Unsettled' /\ RecordsTrue'
  BY DEF Inv, TypeOK, Requested, Unsettled, RecordsTrue, Live
<1> QED
  BY <1>1, <1>2, <1>3 DEF Inv

LEMMA ClaimKeepsInv ==
  ASSUME Inv, NEW j \in Jobs, Claim(j)
  PROVE Inv'
<1> USE JobsAssumption DEF Claim, counts
<1>1. TypeOK'
  BY DEF Inv, TypeOK
<1>2. Claims'
  <2>1. CASE Conflict(NsOf[j])
    BY <2>1 DEF Inv, TypeOK, Claims, Claiming
  <2>2. CASE ~Conflict(NsOf[j])
    <3>1. /\ claimed' = [claimed EXCEPT ![NsOf[j]] = j]
          /\ req' = [req EXCEPT ![j] = "claimed"]
          /\ NsOf[j] \in Namespaces /\ claimed[NsOf[j]] = NoJob
      BY <2>2 DEF Conflict
    <3>2. \A n \in Namespaces : claimed'[n] # NoJob =>
             NsOf[claimed'[n]] = n /\ req'[claimed'[n]] \in Claiming
      BY <3>1 DEF Inv, TypeOK, Claims, Claiming
    <3>3. ASSUME NEW k \in Jobs, req'[k] \in Claiming
          PROVE  claimed'[NsOf[k]] = k
      BY <3>1, <3>3 DEF Inv, TypeOK, Claims, Claiming
    <3> QED
      BY <3>2, <3>3 DEF Claims
  <2> QED
    BY <2>1, <2>2
<1>3. Exclusive'
  BY DEF Inv, TypeOK, Exclusive, Conflict
<1>4. Requested' /\ Unsettled' /\ RecordsTrue'
  BY DEF Inv, TypeOK, Requested, Unsettled, RecordsTrue, Live
<1> QED
  BY <1>1, <1>2, <1>3, <1>4 DEF Inv

LEMMA SpawnKeepsInv ==
  ASSUME Inv, NEW j \in Jobs, Spawn(j)
  PROVE Inv'
<1> USE JobsAssumption DEF Spawn, memory, counts
<1>1. TypeOK'
  BY DEF Inv, TypeOK
<1>2. Claims' /\ Exclusive'
  BY DEF Inv, TypeOK, Claims, Exclusive, Claiming
<1>3. Requested'
  BY DEF Inv, TypeOK, Requested
<1>4. Unsettled' /\ RecordsTrue'
  BY DEF Inv, TypeOK, Requested, Unsettled, RecordsTrue, Live, Settled
<1> QED
  BY <1>1, <1>2, <1>3, <1>4 DEF Inv

\* Only the claim of the job itself is released.
LEMMA ReleaseClaims ==
  ASSUME Inv, NEW j \in Jobs, claimed' = Release(j),
         req' = [req EXCEPT ![j] = "ended"]
  PROVE  /\ claimed' \in [Namespaces -> Jobs \cup {NoJob}]
         /\ Claims'
         /\ \A n \in Namespaces : claimed'[n] \in {claimed[n], NoJob}
         /\ req[j] \in Claiming => claimed'[NsOf[j]] = NoJob
<1> USE JobsAssumption
<1>1. /\ claimed' \in [Namespaces -> Jobs \cup {NoJob}]
      /\ \A n \in Namespaces :
            claimed'[n] = IF n = NsOf[j] /\ claimed[n] = j THEN NoJob ELSE claimed[n]
  BY DEF Inv, TypeOK, Release
<1>2. \A k \in Jobs : req'[k] = IF k = j THEN "ended" ELSE req[k]
  BY DEF Inv, TypeOK
<1>3. \A n \in Namespaces : claimed'[n] # NoJob =>
         NsOf[claimed'[n]] = n /\ req'[claimed'[n]] \in Claiming
  BY <1>1, <1>2 DEF Inv, TypeOK, Claims
<1>4. \A k \in Jobs : req'[k] \in Claiming => claimed'[NsOf[k]] = k
  BY <1>1, <1>2 DEF Inv, Claims, Claiming
<1>5. req[j] \in Claiming => claimed'[NsOf[j]] = NoJob
  BY <1>1 DEF Inv, Claims
<1> QED
  BY <1>1, <1>3, <1>4, <1>5 DEF Claims

LEMMA RegisterKeepsInv ==
  ASSUME Inv, NEW j \in Jobs, Register(j)
  PROVE Inv'
<1> USE JobsAssumption DEF Register
<1>1. /\ Claims' /\ claimed' \in [Namespaces -> Jobs \cup {NoJob}]
      /\ \A n \in Namespaces : claimed'[n] \in {claimed[n], NoJob}
      /\ claimed'[NsOf[j]] = NoJob
  BY ReleaseClaims DEF Claiming
<1>2. claimed[NsOf[j]] = j /\ jobs[j] = "none" /\ records[j] = "none"
  BY DEF Inv, Claims, Claiming, Requested
<1>3. TypeOK'
  BY <1>1 DEF Inv, TypeOK, Active, Saved, SaveFails, Fault, NoFault, counts
<1>4. Exclusive'
  <2>1. \A k \in Jobs : jobs'[k] = IF k = j THEN "running" ELSE jobs[k]
    BY DEF Inv, TypeOK
  <2>2. \A k \in Jobs : jobs[k] \in Active => NsOf[k] # NsOf[j]
    BY <1>2 DEF Inv, Exclusive
  <2>3. \A k \in Jobs : NsOf[k] \in Namespaces
    OBVIOUS
  <2>4. \A k \in Jobs : jobs'[k] \in Active => claimed'[NsOf[k]] = NoJob
    BY <1>1, <2>1, <2>3 DEF Inv, Exclusive
  <2> QED
    BY <2>1, <2>2, <2>4 DEF Inv, Exclusive
<1>5. Requested'
  BY DEF Inv, TypeOK, Requested, Saved, SaveFails
<1>6. Unsettled' /\ RecordsTrue'
  BY <1>2 DEF Inv, TypeOK, Unsettled, RecordsTrue, Live, Active, Settled, Saved, SaveFails
<1> QED
  BY <1>1, <1>3, <1>4, <1>5, <1>6 DEF Inv

LEMMA CancelKeepsInv ==
  ASSUME Inv, NEW j \in Jobs, Cancel(j)
  PROVE Inv'
<1> USE JobsAssumption DEF Cancel, counts
<1>1. /\ Claims' /\ claimed' \in [Namespaces -> Jobs \cup {NoJob}]
      /\ \A n \in Namespaces : claimed'[n] \in {claimed[n], NoJob}
  BY ReleaseClaims
<1>2. TypeOK'
  BY <1>1 DEF Inv, TypeOK, Exits
<1>3. Exclusive'
  BY <1>1 DEF Inv, TypeOK, Exclusive
<1>4. Requested' /\ Unsettled' /\ RecordsTrue'
  BY DEF Inv, TypeOK, Requested, Unsettled, RecordsTrue, Live
<1> QED
  BY <1>1, <1>2, <1>3, <1>4 DEF Inv

-----------------------------------------------------------------------------
(* A registered job.                                                       *)

LEMMA ChildEndsKeepsInv ==
  ASSUME Inv, NEW j \in Jobs, ChildEnds(j)
  PROVE Inv'
<1> USE JobsAssumption DEF ChildEnds, memory, counts
<1>1. PICK exit \in Exits : child' = [child EXCEPT ![j] = exit]
  BY DEF Exits
<1>2. TypeOK'
  BY <1>1 DEF Inv, TypeOK
<1>3. Claims' /\ Exclusive'
  BY DEF Inv, Claims, Exclusive
<1>4. Requested'
  BY <1>1 DEF Inv, TypeOK, Requested, Live
<1>5. Unsettled' /\ RecordsTrue'
  BY <1>1 DEF Inv, TypeOK, Unsettled, RecordsTrue, Live, Exits
<1> QED
  BY <1>2, <1>3, <1>4, <1>5 DEF Inv

LEMMA WatchKeepsInv ==
  ASSUME Inv, NEW j \in Jobs, Watch(j)
  PROVE Inv'
<1> USE JobsAssumption DEF Watch
<1>1. Outcome(j) \in Settled /\ ~Live(j) /\ jobs[j] \in Active
  BY DEF Inv, Unsettled, Outcome, Settled, Live, Exits
<1>2. /\ records' = records \/ records' = [records EXCEPT ![j] = Outcome(j)]
      /\ faults' \in 0..MaxFaults /\ ends' \in 0..MaxEnds
  BY DEF Inv, TypeOK, Saved, SaveFails, Fault, NoFault, counts
<1>3. TypeOK'
  BY <1>1, <1>2 DEF Inv, TypeOK
<1>4. Claims' /\ Exclusive'
  BY <1>1 DEF Inv, TypeOK, Claims, Exclusive, Settled, Active
<1>5. Requested'
  BY <1>1, <1>2 DEF Inv, TypeOK, Requested, Active
<1>6. Unsettled'
  BY <1>1, <1>2 DEF Inv, TypeOK, Unsettled, Live
<1>7. RecordsTrue'
  BY <1>1, <1>2 DEF Inv, TypeOK, RecordsTrue, Live, Settled, Active
<1> QED
  BY <1>3, <1>4, <1>5, <1>6, <1>7 DEF Inv

LEMMA StopKeepsInv ==
  ASSUME Inv, NEW j \in Jobs, Stop(j)
  PROVE Inv'
<1> USE JobsAssumption DEF Stop
<1>1. /\ records' = records \/ records' = [records EXCEPT ![j] = "stopping"]
      /\ faults' \in 0..MaxFaults /\ ends' \in 0..MaxEnds
  BY DEF Inv, TypeOK, Saved, SaveFails, Fault, NoFault, counts
<1>2. TypeOK'
  BY <1>1 DEF Inv, TypeOK, Active
<1>3. Claims' /\ Exclusive'
  BY DEF Inv, TypeOK, Claims, Exclusive, Active
<1>4. Requested'
  BY <1>1 DEF Inv, TypeOK, Requested
<1>5. Unsettled' /\ RecordsTrue'
  BY <1>1 DEF Inv, TypeOK, Unsettled, RecordsTrue, Live, Settled, Active
<1> QED
  BY <1>2, <1>3, <1>4, <1>5 DEF Inv

LEMMA KillKeepsInv ==
  ASSUME Inv, NEW j \in Jobs, Kill(j)
  PROVE Inv'
<1> USE JobsAssumption DEF Kill, counts
<1>1. TypeOK'
  BY DEF Inv, TypeOK, Exits
<1>2. Claims' /\ Exclusive'
  BY DEF Inv, Claims, Exclusive
<1>3. Requested' /\ Unsettled' /\ RecordsTrue'
  BY DEF Inv, TypeOK, Requested, Unsettled, RecordsTrue, Live
<1> QED
  BY <1>1, <1>2, <1>3 DEF Inv

-----------------------------------------------------------------------------
(* The console ends and starts again.                                      *)

LEMMA ShutdownBeginKeepsInv ==
  ASSUME Inv, ShutdownBegin
  PROVE Inv'
<1> USE JobsAssumption
<1> DEFINE stopped == {j \in Jobs : jobs[j] = "running"}
<1>1. /\ jobs' = [j \in Jobs |-> IF j \in stopped THEN "stopping" ELSE jobs[j]]
      /\ records' = [j \in Jobs |-> IF j \in stopped THEN "stopping" ELSE records[j]]
      /\ termed' \subseteq termed \cup Jobs /\ timers' \subseteq timers \cup Jobs
      /\ console' = "stopping" /\ UNCHANGED <<req, claimed, watched, child, faults, ends>>
      /\ \A j \in Jobs : req[j] \in {"new", "ended"}
  BY DEF ShutdownBegin, counts
<1>2. \A j \in Jobs :
         \/ jobs'[j] = jobs[j] /\ records'[j] = records[j]
         \/ jobs[j] = "running" /\ jobs'[j] = "stopping" /\ records'[j] = "stopping"
  BY <1>1
<1>3. TypeOK'
  BY <1>1 DEF Inv, TypeOK, Active
<1>4. Claims' /\ Exclusive'
  BY <1>1, <1>2 DEF Inv, Claims, Exclusive, Active
<1>5. Requested'
  BY <1>1, <1>2 DEF Inv, Requested
<1>6. Unsettled'
  BY <1>1, <1>2 DEF Inv, TypeOK, Unsettled, Live, Settled, Active
<1>7. RecordsTrue'
  BY <1>1 DEF RecordsTrue
<1> QED
  BY <1>3, <1>4, <1>5, <1>6, <1>7 DEF Inv

\* When the process is gone only the children and their records are left.
LEMMA GoneKeepsInv ==
  ASSUME Inv, Gone,
         child' \in [Jobs -> Exits \cup {"none", "live"}],
         records' \in [Jobs -> Active \cup Settled \cup {"none", "lost"}],
         termed' \subseteq Jobs, faults' \in 0..MaxFaults,
         \A j \in Jobs : /\ child[j] = "none" => child'[j] = "none"
                         /\ child'[j] = "live" => child[j] = "live"
                         /\ records'[j] = records[j] \/ records'[j] = "stopping"
                         /\ records'[j] # records[j] => jobs[j] # "none"
  PROVE Inv'
<1> USE JobsAssumption DEF Gone
<1>1. TypeOK'
  BY DEF Inv, TypeOK
<1>2. Claims' /\ Exclusive'
  BY DEF Inv, TypeOK, Claims, Exclusive, Claiming, Active
<1>3. Requested'
  BY DEF Inv, TypeOK, Requested
<1>4. Unsettled' /\ RecordsTrue'
  BY DEF Inv, Unsettled, RecordsTrue, Live, Settled
<1> QED
  BY <1>1, <1>2, <1>3, <1>4 DEF Inv

LEMMA EndKeepsInv ==
  ASSUME Inv, ShutdownCut \/ ShutdownEnd \/ Crash
  PROVE Inv'
<1> USE JobsAssumption
<1>1. CASE ShutdownCut
  BY <1>1, GoneKeepsInv DEF ShutdownCut, Collected, Inv, TypeOK, Exits, Active, Live
<1>2. CASE ShutdownEnd
  BY <1>2, GoneKeepsInv DEF ShutdownEnd, Inv, TypeOK, Exits, Live
<1>3. CASE Crash
  BY <1>3, GoneKeepsInv DEF Crash, Inv, TypeOK
<1> QED
  BY <1>1, <1>2, <1>3

LEMMA RestartKeepsInv ==
  ASSUME Inv, Restart
  PROVE Inv'
<1> USE JobsAssumption DEF Restart, memory, counts
<1>1. TypeOK'
  BY DEF Inv, TypeOK, MarkLost
<1>2. Claims' /\ Exclusive'
  BY DEF Inv, Claims, Exclusive
<1>3. Requested'
  BY DEF Inv, Requested, MarkLost, Active
<1>4. Unsettled' /\ RecordsTrue'
  BY DEF Inv, TypeOK, Requested, Unsettled, RecordsTrue, Live, MarkLost, Active, Settled
<1> QED
  BY <1>1, <1>2, <1>3, <1>4 DEF Inv

LEMMA NextInv == Inv /\ [Next]_vars => Inv'
<1> SUFFICES ASSUME Inv, [Next]_vars PROVE Inv'
  OBVIOUS
<1>1. CASE UNCHANGED vars
  BY <1>1 DEF Inv, vars, memory, counts, TypeOK, Claims, Exclusive, Requested,
              Unsettled, RecordsTrue, Live
<1>2. CASE Next
  BY <1>2, ReadKeepsInv, ClaimKeepsInv, SpawnKeepsInv, RegisterKeepsInv,
     CancelKeepsInv, ChildEndsKeepsInv, WatchKeepsInv, StopKeepsInv, KillKeepsInv,
     ShutdownBeginKeepsInv, EndKeepsInv, RestartKeepsInv DEF Next
<1> QED
  BY <1>1, <1>2

LEMMA Invariance == Spec => []Inv
  BY InitInv, NextInv, PTL DEF Spec

(* Every variable keeps its type. *)
THEOREM TypeCorrect == Spec => []TypeOK
<1>1. Inv => TypeOK
  BY DEF Inv
<1> QED
  BY <1>1, Invariance, PTL

(* jobs.py, _claim and _launch: no two children of one console run in one  *)
(* namespace.                                                              *)
THEOREM NamespacesAreExclusive == Spec => []OneJobPerNamespace
  BY OneJob, Invariance, PTL

(* jobs.py, _watch, stop, shutdown and _mark_lost: a running child's       *)
(* record says so or calls it lost, and every active record has its job.   *)
THEOREM RecordsTellTheTruth == Spec => []RecordsTrue
<1>1. Inv => RecordsTrue
  BY DEF Inv
<1> QED
  BY <1>1, Invariance, PTL
=============================================================================
