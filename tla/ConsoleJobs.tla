---------------------------- MODULE ConsoleJobs ----------------------------
(***************************************************************************)
(* The console's jobs: ingestion and evaluation runs in child processes    *)
(* (application/cli/console/jobs.py, store.py).                            *)
(*                                                                         *)
(* A request claims its index namespace, spawns the child and registers    *)
(* the job; a watcher task waits for the child and records how it ended.   *)
(* Everything runs on one event loop, so a step here is what happens       *)
(* between two awaits.  The job table is in memory, the job records are in *)
(* a database file, and the children outlive the console: three places     *)
(* that must tell the same story across stops, failed saves, shutdowns and *)
(* crashes of the console.                                                 *)
(***************************************************************************)
EXTENDS Naturals

CONSTANTS
    Jobs,        \* job ids: each belongs to one request
    NoJob,
    Namespaces,
    NsOf,        \* the namespace of a job
    MaxFaults,   \* bound on failing saves
    MaxEnds      \* bound on the times the console ends

ASSUME JobsAssumption ==
    /\ NoJob \notin Jobs
    /\ NsOf \in [Jobs -> Namespaces]
    /\ MaxFaults \in Nat /\ MaxEnds \in Nat

VARIABLES
    console,   \* "up", "stopping" or "down"
    req,       \* where the request of a job is
    claimed,   \* _claimed: the job starting in each namespace
    jobs,      \* status of the jobs registered in memory
    watched,   \* jobs whose watcher task runs
    timers,    \* jobs with a kill timer armed
    records,   \* the status the database holds for each job
    child,     \* the child process of each job
    termed,    \* children sent a SIGTERM
    faults, ends

memory == <<claimed, jobs, watched, timers>>
counts == <<faults, ends>>
vars == <<console, req, memory, records, child, termed, counts>>

Active == {"running", "stopping"}
Settled == {"succeeded", "failed", "stopped"}
Exits == {"ok", "error", "signalled"}

\* The type of every variable.
TypeOK ==
    /\ console \in {"up", "stopping", "down"}
    /\ req \in [Jobs -> {"new", "reading", "claimed", "spawning", "ended"}]
    /\ claimed \in [Namespaces -> Jobs \cup {NoJob}]
    /\ jobs \in [Jobs -> Active \cup Settled \cup {"none"}]
    /\ watched \subseteq Jobs /\ timers \subseteq Jobs /\ termed \subseteq Jobs
    /\ records \in [Jobs -> Active \cup Settled \cup {"none", "lost"}]
    /\ child \in [Jobs -> Exits \cup {"none", "live"}]
    /\ faults \in 0..MaxFaults /\ ends \in 0..MaxEnds

Init ==
    /\ console = "up"
    /\ req = [j \in Jobs |-> "new"]
    /\ claimed = [n \in Namespaces |-> NoJob]
    /\ jobs = [j \in Jobs |-> "none"]
    /\ watched = {} /\ timers = {} /\ termed = {}
    /\ records = [j \in Jobs |-> "none"]
    /\ child = [j \in Jobs |-> "none"]
    /\ faults = 0 /\ ends = 0

Live(j) == child[j] = "live"

Fault == faults < MaxFaults /\ faults' = faults + 1 /\ UNCHANGED ends
NoFault == UNCHANGED counts

\* save_job writes the record, or raises with nothing written.
Saved(j, status) == records' = [records EXCEPT ![j] = status] /\ NoFault
SaveFails == UNCHANGED records /\ Fault

-----------------------------------------------------------------------------
(* A request.                                                              *)

\* start_ingest, start_evaluate up to their first await: the narrowing check
\* or the dataset is read (the answer may refuse the request: Cancel).
Read(j) ==
    /\ console = "up" /\ req[j] = "new"
    /\ req' = [req EXCEPT ![j] = "reading"]
    /\ UNCHANGED <<console, memory, records, child, termed, counts>>

\* Mutant: only registered jobs are looked at, not the claims.
ConflictRegistered(n) ==
    \E k \in Jobs : NsOf[k] = n /\ jobs[k] \in Active

\* _claim: a job runs in the namespace, or another request claimed it.
Conflict(n) ==
    \/ claimed[n] # NoJob
    \/ \E k \in Jobs : NsOf[k] = n /\ jobs[k] \in Active

\* What follows the await: the claim, or the refusal.
Claim(j) ==
    /\ console = "up" /\ req[j] = "reading"
    /\ IF Conflict(NsOf[j])
       THEN /\ req' = [req EXCEPT ![j] = "ended"]
            /\ UNCHANGED claimed
       ELSE /\ req' = [req EXCEPT ![j] = "claimed"]
            /\ claimed' = [claimed EXCEPT ![NsOf[j]] = j]
    /\ UNCHANGED <<console, jobs, watched, timers, records, child,
                   termed, counts>>

\* _launch: the child is spawned, and the request awaits its pipes.
Spawn(j) ==
    /\ console = "up" /\ req[j] = "claimed"
    /\ req' = [req EXCEPT ![j] = "spawning"]
    /\ child' = [child EXCEPT ![j] = "live"]
    /\ UNCHANGED <<console, memory, records, termed, counts>>

\* _release
Release(j) ==
    [claimed EXCEPT ![NsOf[j]] = IF @ = j THEN NoJob ELSE @]

\* The rest of _launch: the job is registered, saved and watched, and the
\* claim released.  A failing save leaves it registered and unwatched.
Register(j) ==
    /\ console = "up" /\ req[j] = "spawning"
    /\ req' = [req EXCEPT ![j] = "ended"]
    /\ jobs' = [jobs EXCEPT ![j] = "running"]
    /\ claimed' = Release(j)
    /\ \/ Saved(j, "running") /\ watched' = watched \cup {j}
       \/ SaveFails /\ UNCHANGED watched
    /\ UNCHANGED <<console, timers, child, termed>>

\* The request fails or is cancelled at an await: no directory, no process,
\* a shutdown that does not wait.  A child being spawned is killed.
Cancel(j) ==
    /\ console = "up" /\ req[j] \in {"reading", "claimed", "spawning"}
    /\ req' = [req EXCEPT ![j] = "ended"]
    /\ claimed' = Release(j)
    /\ child' = [child EXCEPT ![j] = IF @ = "live" THEN "signalled" ELSE @]
    /\ UNCHANGED <<console, jobs, watched, timers, records, termed, counts>>

-----------------------------------------------------------------------------
(* A registered job.                                                       *)

ChildEnds(j) ==
    /\ Live(j)
    /\ \E exit \in {"ok", "error"} \cup (IF j \in termed THEN {"signalled"} ELSE {}) :
          child' = [child EXCEPT ![j] = exit]
    /\ UNCHANGED <<console, req, memory, records, termed, counts>>

\* Mutant: a child that was killed is recorded as lost.
OutcomeLost(j) ==
    CASE child[j] = "ok" -> "succeeded"
      [] child[j] = "signalled" -> "lost"
      [] OTHER -> "failed"

\* How _watch names the end of a job.
Outcome(j) ==
    CASE child[j] = "ok" -> "succeeded"
      [] jobs[j] = "stopping" \/ child[j] = "signalled" -> "stopped"
      [] OTHER -> "failed"

\* Mutant: the watcher of a job that is being stopped leaves its status to
\* the stop.
WatchLeavesStopping(j) ==
    /\ console \in {"up", "stopping"}
    /\ j \in watched /\ child[j] \in Exits
    /\ jobs' = [jobs EXCEPT ![j] = IF @ = "stopping" THEN @ ELSE Outcome(j)]
    /\ watched' = watched \ {j}
    /\ Saved(j, Outcome(j)) \/ SaveFails
    /\ UNCHANGED <<console, req, claimed, timers, child, termed>>

\* _watch, once the child's output is read and the child waited for.
Watch(j) ==
    /\ console \in {"up", "stopping"}
    /\ j \in watched /\ child[j] \in Exits
    /\ jobs' = [jobs EXCEPT ![j] = Outcome(j)]
    /\ watched' = watched \ {j}
    /\ Saved(j, Outcome(j)) \/ SaveFails
    /\ UNCHANGED <<console, req, claimed, timers, child, termed>>

\* Mutant: the signal is sent and no timer armed.
StopWithoutKill(j) ==
    /\ console = "up" /\ jobs[j] = "running"
    /\ jobs' = [jobs EXCEPT ![j] = "stopping"]
    /\ Saved(j, "stopping")
    /\ termed' = IF Live(j) THEN termed \cup {j} ELSE termed
    /\ UNCHANGED <<console, req, claimed, watched, timers, child>>

\* stop: the record is saved before the signal is sent and the timer armed.
Stop(j) ==
    /\ console = "up" /\ jobs[j] = "running"
    /\ jobs' = [jobs EXCEPT ![j] = "stopping"]
    /\ \/ /\ Saved(j, "stopping")
          /\ termed' = IF Live(j) THEN termed \cup {j} ELSE termed
          /\ timers' = timers \cup {j}
       \/ SaveFails /\ UNCHANGED <<termed, timers>>
    /\ UNCHANGED <<console, req, claimed, watched, child>>

\* _kill, by the timer stop armed.
Kill(j) ==
    /\ console \in {"up", "stopping"} /\ j \in timers
    /\ timers' = timers \ {j}
    /\ child' = [child EXCEPT ![j] = IF @ = "live" THEN "signalled" ELSE @]
    /\ UNCHANGED <<console, req, claimed, jobs, watched, records, termed, counts>>

-----------------------------------------------------------------------------
(* The console ends and starts again.                                      *)

\* A process that is gone keeps nothing in memory; its requests fail.
Gone ==
    /\ console' = "down"
    /\ ends < MaxEnds /\ ends' = ends + 1
    /\ req' = [j \in Jobs |-> IF req[j] = "new" THEN "new" ELSE "ended"]
    /\ claimed' = [n \in Namespaces |-> NoJob]
    /\ jobs' = [j \in Jobs |-> "none"]
    /\ watched' = {} /\ timers' = {}

\* The server has finished or cancelled its requests; shutdown stops every
\* registered job and then waits for the watchers.
ShutdownBegin ==
    /\ console = "up"
    /\ \A j \in Jobs : req[j] \in {"new", "ended"}
    /\ console' = "stopping"
    /\ LET stopped == {j \in Jobs : jobs[j] = "running"}
       IN /\ jobs' = [j \in Jobs |-> IF j \in stopped THEN "stopping" ELSE jobs[j]]
          /\ records' = [j \in Jobs |-> IF j \in stopped THEN "stopping" ELSE records[j]]
          /\ termed' = termed \cup {j \in stopped : Live(j)}
          /\ timers' = timers \cup stopped
    /\ UNCHANGED <<req, claimed, watched, child, counts>>

\* The console's process exits and takes any of the children it did not
\* wait for with it: their transports kill them when they are collected.
Collected(left) ==
    \E killed \in SUBSET {j \in left : Live(j)} :
        child' = [j \in Jobs |-> IF j \in killed THEN "signalled" ELSE child[j]]

\* A save fails while shutdown stops the jobs: it ends there.
ShutdownCut ==
    /\ console = "up"
    /\ \A j \in Jobs : req[j] \in {"new", "ended"}
    /\ faults < MaxFaults /\ faults' = faults + 1
    /\ \E stopped \in SUBSET {j \in Jobs : jobs[j] = "running"} :
          /\ \E j \in Jobs \ stopped : jobs[j] = "running"
          /\ records' = [j \in Jobs |-> IF j \in stopped THEN "stopping" ELSE records[j]]
          /\ termed' = termed \cup {j \in stopped : Live(j)}
    /\ Collected(Jobs)
    /\ Gone

\* Every watcher is done, or the grace has passed and the children they
\* wait for are killed; nothing waits for those.
ShutdownEnd ==
    /\ console = "stopping"
    /\ child' = [j \in Jobs |-> IF j \in watched /\ Live(j) THEN "signalled"
                              ELSE child[j]]
    /\ Gone
    /\ UNCHANGED <<records, termed, faults>>

Crash ==
    /\ console \in {"up", "stopping"}
    /\ Gone
    /\ UNCHANGED <<records, child, termed, faults>>

\* Mutant: a job that was being stopped is taken to be settled.
MarkLostRunning ==
    [j \in Jobs |-> IF records[j] = "running" THEN "lost" ELSE records[j]]

\* _mark_lost, in the constructor of the next console's JobManager.
MarkLost ==
    [j \in Jobs |-> IF records[j] \in Active THEN "lost" ELSE records[j]]

Restart ==
    /\ console = "down"
    /\ console' = "up"
    /\ records' = MarkLost
    /\ UNCHANGED <<req, memory, child, termed, counts>>

-----------------------------------------------------------------------------
Next ==
    \/ \E j \in Jobs : \/ Read(j) \/ Claim(j) \/ Spawn(j) \/ Register(j)
                       \/ Cancel(j) \/ ChildEnds(j) \/ Watch(j) \/ Stop(j)
                       \/ Kill(j)
    \/ ShutdownBegin \/ ShutdownCut \/ ShutdownEnd \/ Crash \/ Restart

\* The event loop runs what is ready: watchers whose child ended, timers
\* whose time has come.
Spec == Init /\ [][Next]_vars
FairSpec == Spec /\ \A j \in Jobs : WF_vars(Watch(j)) /\ WF_vars(Kill(j))

-----------------------------------------------------------------------------
(* Properties.                                                             *)

Mine(j) == req[j] = "spawning" \/ jobs[j] # "none"

\* Two children of one console never run in the same namespace, across the
\* awaits of their requests ("One job per index namespace runs at a time").
OneJobPerNamespace ==
    \A j, k \in Jobs :
        /\ Live(j) /\ Live(k) /\ Mine(j) /\ Mine(k)
        /\ NsOf[j] = NsOf[k]
        => j = k

\* A running child with a record is one this console can stop, or one its
\* record calls lost; and no record claims a job nobody keeps track of.
RecordsTrue ==
    console = "up" =>
        \A j \in Jobs :
            /\ Live(j) /\ records[j] # "none" => jobs[j] \in Active \/ records[j] = "lost"
            /\ records[j] \in Active => jobs[j] # "none"

\* Stopping a job ends its child, however long it ignores the signal, unless
\* a save failed (stop saves the record before it signals).
StopEnds ==
    \A j \in Jobs : console = "up" /\ jobs[j] = "stopping"
                    ~> ~Live(j) \/ console = "down" \/ faults > 0

\* A registered job whose child has ended is settled, which frees its
\* namespace ("stop it or wait for it to finish"), unless a save failed
\* (_launch saves the record before it starts the watcher).
EndedIsSettled ==
    \A j \in Jobs : jobs[j] \in Active /\ child[j] \in Exits
                    ~> jobs[j] \notin Active \/ faults > 0

=============================================================================
