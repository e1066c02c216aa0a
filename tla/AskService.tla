----------------------------- MODULE AskService -----------------------------
(***************************************************************************)
(* The console's questions and the retrieval chain they share              *)
(* (application/cli/console/ask.py, ConsoleState of server.py).            *)
(*                                                                         *)
(* One chain answers every question.  It is built by the first question    *)
(* that finds none, in a thread, under a lock; a saved configuration or an *)
(* ended ingestion retires it, and a retired chain is closed when the last *)
(* question using it ends.  Everything but the build runs on one event     *)
(* loop: a step here is what happens between two awaits.                   *)
(***************************************************************************)
EXTENDS Naturals, FiniteSets

CONSTANTS
    Questions,
    NoQuestion,
    MaxResets,   \* bound on the saves and ingestions
    MaxBuilds    \* bound on the chains built

ASSUME AskAssumption ==
    /\ NoQuestion \notin Questions
    /\ MaxResets \in Nat /\ MaxBuilds \in Nat \ {0}

VARIABLES
    up,        \* the console serves
    version,   \* counts saves and ingestions: what a question should see
    q,         \* where each question is
    asked,     \* the version when it was asked
    lock,      \* the question that holds the lock
    loading,   \* the version whose configuration the build has read
    built,     \* chains built so far: a chain is a number
    of,        \* the version a chain was built from
    chain,     \* _chain, 0 for None
    using,     \* the chain each question uses, 0 for none: _in_flight
    retired,   \* _retired
    closing,   \* chains whose close task runs
    closed,
    torn       \* history: chains whose build a reset overlapped

vars == <<up, version, q, asked, lock, loading, built, of, chain, using,
          retired, closing, closed, torn>>
chains == <<retired, closing, closed>>

Chains == 1..MaxBuilds

\* The type of every variable.
TypeOK ==
    /\ up \in BOOLEAN
    /\ version \in 0..MaxResets
    /\ q \in [Questions -> {"new", "waiting", "building", "using", "ended"}]
    /\ asked \in [Questions -> 0..MaxResets]
    /\ lock \in Questions \cup {NoQuestion}
    /\ loading \in 0..MaxResets
    /\ built \in 0..MaxBuilds
    /\ of \in [Chains -> 0..MaxResets]
    /\ chain \in 0..MaxBuilds
    /\ using \in [Questions -> 0..MaxBuilds]
    /\ retired \subseteq Chains /\ closing \subseteq Chains
    /\ closed \subseteq Chains /\ torn \subseteq Chains

Init ==
    /\ up = TRUE /\ version = 0
    /\ q = [i \in Questions |-> "new"]
    /\ asked = [i \in Questions |-> 0]
    /\ lock = NoQuestion /\ loading = 0
    /\ built = 0 /\ of = [c \in Chains |-> 0] /\ chain = 0
    /\ using = [i \in Questions |-> 0]
    /\ retired = {} /\ closing = {} /\ closed = {} /\ torn = {}

\* The chains of `all` that no question of `use` uses.
Idle(all, use) == {c \in all : \A i \in Questions : use[i] # c}

\* Mutant: retired chains wait for the end of the console.
CloseIdleNever(all, use) ==
    retired' = all /\ UNCHANGED closing

\* _close_idle: the idle ones of the retired chains get a closing task.
CloseIdle(all, use) ==
    /\ retired' = all \ Idle(all, use)
    /\ closing' = closing \cup Idle(all, use)

-----------------------------------------------------------------------------
(* A question.                                                             *)

Ask(i) ==
    /\ up /\ q[i] = "new"
    /\ q' = [q EXCEPT ![i] = "waiting"]
    /\ asked' = [asked EXCEPT ![i] = version]
    /\ UNCHANGED <<up, version, lock, loading, built, of, chain, using, chains,
                   torn>>

\* chain() finds a chain: no await until it is counted as in use.
Enter(i) ==
    /\ q[i] = "waiting" /\ lock = NoQuestion /\ chain # 0
    /\ q' = [q EXCEPT ![i] = "using"]
    /\ using' = [using EXCEPT ![i] = chain]
    /\ UNCHANGED <<up, version, asked, lock, loading, built, of, chain, chains,
                   torn>>

\* chain() finds none: the configuration is read, then a thread builds.
Build(i) ==
    /\ q[i] = "waiting" /\ lock = NoQuestion /\ chain = 0 /\ built < MaxBuilds
    /\ q' = [q EXCEPT ![i] = "building"]
    /\ lock' = i /\ loading' = version
    /\ UNCHANGED <<up, version, asked, built, of, chain, using, chains, torn>>

\* The thread is done: the chain is installed, whatever happened meanwhile.
Built(i) ==
    /\ q[i] = "building"
    /\ built' = built + 1
    /\ of' = [of EXCEPT ![built + 1] = loading]
    /\ torn' = IF loading # version THEN torn \cup {built + 1} ELSE torn
    /\ chain' = built + 1
    /\ q' = [q EXCEPT ![i] = "using"]
    /\ using' = [using EXCEPT ![i] = built + 1]
    /\ lock' = NoQuestion
    /\ UNCHANGED <<up, version, asked, loading, chains>>

\* The build fails, or the question is cancelled before it has a chain (the
\* thread's chain is then dropped).
Abandon(i) ==
    /\ q[i] \in {"waiting", "building"}
    /\ q' = [q EXCEPT ![i] = "ended"]
    /\ lock' = IF lock = i THEN NoQuestion ELSE lock
    /\ UNCHANGED <<up, version, asked, loading, built, of, chain, using, chains,
                   torn>>

\* The question is answered, fails or is cancelled: the end of _using.
Finish(i) ==
    /\ q[i] = "using"
    /\ q' = [q EXCEPT ![i] = "ended"]
    /\ using' = [using EXCEPT ![i] = 0]
    /\ CloseIdle(retired, using')
    /\ UNCHANGED <<up, version, asked, lock, loading, built, of, chain, closed,
                   torn>>

-----------------------------------------------------------------------------
(* The chain is replaced and closed.                                       *)

\* Mutant: the replaced chain is closed at once.
ResetCloses ==
    /\ up /\ version < MaxResets
    /\ version' = version + 1
    /\ closing' = closing \cup ({chain} \ {0})
    /\ chain' = 0
    /\ UNCHANGED <<up, q, asked, lock, loading, built, of, using, retired,
                   closed, torn>>

\* Mutant: no check that there is a chain to retire.
ResetUnchecked ==
    /\ up /\ version < MaxResets
    /\ version' = version + 1
    /\ CloseIdle(retired \cup {chain}, using)
    /\ chain' = 0
    /\ UNCHANGED <<up, q, asked, lock, loading, built, of, using, closed, torn>>

\* Mutant: a chain that is in use stays current.
ResetIdleOnly ==
    /\ up /\ version < MaxResets
    /\ version' = version + 1
    /\ IF chain # 0 /\ \A i \in Questions : using[i] # chain
       THEN CloseIdle(retired \cup {chain}, using) /\ chain' = 0
       ELSE UNCHANGED <<retired, closing, chain>>
    /\ UNCHANGED <<up, q, asked, lock, loading, built, of, using, closed, torn>>

\* reset(), when Settings saved the configuration (reload) or an ingestion
\* of the console ended (on_ingest_end).
Reset ==
    /\ up /\ version < MaxResets
    /\ version' = version + 1
    /\ IF chain # 0 THEN CloseIdle(retired \cup {chain}, using)
       ELSE UNCHANGED <<retired, closing>>
    /\ chain' = 0
    /\ UNCHANGED <<up, q, asked, lock, loading, built, of, using, closed, torn>>

\* A close task ends; a failing close is logged.
Close(c) ==
    /\ c \in closing
    /\ closing' = closing \ {c} /\ closed' = closed \cup {c}
    /\ UNCHANGED <<up, version, q, asked, lock, loading, built, of, chain, using,
                   retired, torn>>

\* close(), at the end of the server's life, after its requests: the retired
\* and the current chain, then the closing tasks.
Shutdown ==
    /\ up /\ \A i \in Questions : q[i] \in {"new", "ended"}
    /\ up' = FALSE
    /\ closed' = closed \cup retired \cup closing \cup ({chain} \ {0})
    /\ retired' = {} /\ closing' = {} /\ chain' = 0
    /\ UNCHANGED <<version, q, asked, lock, loading, built, of, using, torn>>

Next ==
    \/ \E i \in Questions : \/ Ask(i) \/ Enter(i) \/ Build(i) \/ Built(i)
                            \/ Abandon(i) \/ Finish(i)
    \/ \E c \in Chains : Close(c)
    \/ Reset \/ Shutdown

\* The loop runs the closing tasks, and every question ends: the retrieval
\* and the model calls of a chain have time limits.
Spec == Init /\ [][Next]_vars
FairSpec ==
    /\ Spec
    /\ \A i \in Questions : WF_vars(Finish(i))
    /\ \A c \in Chains : WF_vars(Close(c))

-----------------------------------------------------------------------------
(* Properties.                                                             *)

\* A chain a question uses is neither closed nor closing, whatever resets
\* and other questions do meanwhile ("closed once the questions it is
\* answering finish").
NeverClosedInUse ==
    \A i \in Questions : using[i] # 0 => using[i] \notin closing \cup closed

\* A chain is left out of the books nowhere: every one that was installed is
\* current, retired and still in use, closing or closed.
NoChainLost ==
    \A c \in 1..built :
        \/ c = chain
        \/ c \in retired /\ \E i \in Questions : using[i] = c
        \/ c \in closing \cup closed

\* A replaced chain is closed in the end.
ReplacedCloses ==
    \A c \in Chains : c <= built /\ c # chain ~> c \in closed

\* "The next question and job use the saved file": a question asked after a
\* save or an ingestion is answered by a chain built since then, unless the
\* build had read the configuration before (chain reads it, then awaits the
\* build, and a reset meanwhile finds no chain to retire).
FreshUnlessTorn ==
    \A i \in Questions :
        using[i] # 0 /\ using[i] \notin torn => of[using[i]] >= asked[i]
=============================================================================
