----------------------------- MODULE ModelCalls -----------------------------
(***************************************************************************)
(* The model calls of a batch and the cache of their responses             *)
(* (adapters/llm/langchain.py, adapters/llm/response_cache.py, and the     *)
(* flushes and the upload of application/ingestion/pipeline.py).           *)
(*                                                                         *)
(* A worker makes the attempts of one item, each in a thread of its own    *)
(* that it abandons at a timeout: the thread goes on.  Responses wait in   *)
(* memory, are written to segment files and handed to S3; a later run of   *)
(* the pipeline id loads the segments and serves each response once.  The  *)
(* responses of an item that failed every attempt are dropped, by an entry *)
(* without generations when a segment holds them.                          *)
(*                                                                         *)
(* Segments are numbered in the order of their names, the time of their    *)
(* writing.  An item makes one model call, with a prompt of its own: its   *)
(* key is the item.  A step is what a thread does under the cache's lock,  *)
(* or between two such sections.                                           *)
(***************************************************************************)
EXTENDS Naturals, FiniteSets, Sequences, FiniteSetsExt

CONSTANTS
    Items,
    Main,          \* the thread of the pipeline
    MaxAttempts,   \* retry.max_attempts
    Setups,        \* the configurations and bounds a run starts from
    MaxRuns        \* bound on the runs of the pipeline id

ASSUME CallsAssumption ==
    /\ Main \notin Items
    /\ MaxAttempts \in Nat \ {0} /\ MaxRuns \in Nat \ {0}
    /\ Setups \subseteq [flush_every : Nat \ {0}, lookups : BOOLEAN,
                        slow : Nat, faults : Nat,
                        earlier : [Items -> {"none", "good", "bad"}]]

VARIABLES
    run,           \* runs of the pipeline id so far
    setup,         \* flush_every, lookups (FALSE on a force rebuild), the
                   \* slow calls and the faults still to come, and what an
                   \* earlier run stored
    main,          \* where the pipeline's thread is
    abandoned,     \* the event set when the batch is stopped
    item,          \* the worker of each item: where it is, attempts made
    call,          \* the thread of each attempt
    discards,      \* the items with a registered discard
    entries, served, pending, written, unsynced,   \* the cache
    due,           \* the segments each thread is handing off
    segments, base,    \* every segment written; how many before this run
    local, s3,         \* the segments on this host, and in S3
    asked,         \* history: items a call of which reached the model
    unsettled,     \* history: items the cache may misremember
    before         \* history: how each item ended in the run before

past == <<run, base, before>>
pipe == <<past, main, abandoned>>
memory == <<entries, served, pending, written>>
files == <<segments, local, unsynced>>
disk == <<files, due, s3>>
workers == <<item, call, discards>>
history == <<asked, unsettled>>
vars == <<pipe, setup, workers, memory, disk, history>>

Attempts == 1..MaxAttempts
Threads == (Items \X Attempts) \cup {<<Main, 0>>}
Answers == {"good", "bad", "error", "fatal"}   \* bad: it does not parse
Entry == {"none", "good", "bad", "gone"}       \* gone: without generations
Segments == 1..Len(segments)
NoCall == [st |-> "none", resp |-> "none", ab |-> FALSE, slow |-> FALSE]

PipeTyped ==
    /\ run \in 1..MaxRuns
    /\ setup \in [flush_every : Nat \ {0}, lookups : BOOLEAN, slow : Nat,
                 faults : Nat, earlier : [Items -> {"none", "good", "bad"}]]
    /\ main \in {"batch", "flush", "sync", "close", "deactivate", "closed"}
    /\ abandoned \in BOOLEAN
    /\ asked \subseteq Items /\ unsettled \subseteq Items
    /\ before \in [Items -> {"answered", "failed", "unknown"}]

WorkersTyped ==
    /\ item \in [Items -> [n : 0..MaxAttempts,
           st : {"queued", "calling", "backoff", "failing",
                 "done", "failed", "dropped"}]]
    /\ call \in [Items \X Attempts -> [ab : BOOLEAN, slow : BOOLEAN,
           resp : Answers \cup {"none"},
           st : {"none", "start", "hit", "ask", "store", "stored",
                 "full", "flush", "hand", "ret"}]]
    /\ discards \subseteq Items

CacheTyped ==
    /\ entries \in [Items -> {"none", "good", "bad"}]
    /\ pending \in [Items -> Entry]
    /\ served \subseteq Items /\ written \subseteq Items

FilesTyped ==
    /\ segments \in Seq([Items -> Entry])
    /\ unsynced \in Seq(Segments)
    /\ due \in [Threads -> Seq(Segments)]
    /\ local \subseteq Segments /\ s3 \subseteq Segments
    /\ base \in 0..Len(segments)

\* The type of every variable.
TypeOK == PipeTyped /\ WorkersTyped /\ CacheTyped /\ FilesTyped

\* A failing write or upload, a stop, a kill.
Fault == setup.faults > 0 /\ setup' = [setup EXCEPT !.faults = @ - 1]

open == main # "closed"

\* The keys the next segment holds.
Pending == {i \in Items : pending[i] # "none"}

-----------------------------------------------------------------------------
(* The cache.                                                              *)

\* Mutant: an entry without generations is taken for a response.
LoadKeepsRemovals(ks) ==
    [i \in Items |->
        LET K == {k \in ks : segments[k][i] # "none"}
        IN  IF K = {} THEN "none" ELSE segments[Max(K)][i]]

\* open: a later segment's response replaces an earlier one's, an entry
\* without generations removes it.
Load(ks) ==
    [i \in Items |->
        LET K == {k \in ks : segments[k][i] # "none"}
        IN  IF K = {} \/ segments[Max(K)][i] = "gone" THEN "none"
            ELSE segments[Max(K)][i]]

\* open: the cache of a run that finds the segments ks.
Opened(ks) ==
    /\ entries' = Load(ks)
    /\ written' = {i \in Items : Load(ks)[i] # "none"}
    /\ served' = {} /\ pending' = [i \in Items |-> "none"]
    /\ unsynced' = <<>>

\* Mutant: what a segment holds stays there.
DropsPendingOnly(i) ==
    /\ entries' = [entries EXCEPT ![i] = "none"]
    /\ pending' = [pending EXCEPT ![i] = "none"]
    /\ UNCHANGED <<served, written>>

\* _discard
discard(i) ==
    /\ entries' = [entries EXCEPT ![i] = "none"]
    /\ pending' = [pending EXCEPT ![i] =
           IF i \in written THEN "gone" ELSE "none"]
    /\ UNCHANGED <<served, written>>

\* flush, under the lock: the pending entries become a segment, which is
\* due with the ones an earlier hand-off failed on.
flush(t) ==
    IF Pending = {} \/ ~open
    THEN UNCHANGED <<memory, files, due>>
    ELSE /\ segments' = Append(segments, pending)
         /\ local' = local \cup {Len(segments')}
         /\ pending' = [i \in Items |-> "none"]
         /\ written' = written \cup {i \in Pending : pending[i] # "gone"}
         /\ due' = [due EXCEPT ![t] = Append(unsynced, Len(segments'))]
         /\ unsynced' = <<>>
         /\ UNCHANGED <<entries, served>>

\* flush, when the file cannot be written: what was pending is lost.
WriteFails ==
    /\ Fault
    /\ open /\ Pending # {}
    /\ pending' = [i \in Items |-> "none"]
    /\ unsettled' = unsettled \cup Pending
    /\ UNCHANGED <<entries, served, written, files, due>>

\* on_segment of the next segment due.
Upload(t) ==
    /\ due[t] # <<>>
    /\ s3' = s3 \cup {Head(due[t])}
    /\ due' = [due EXCEPT ![t] = Tail(@)]
    /\ UNCHANGED <<pipe, setup, workers, memory, files, history>>

\* Mutant: what another thread put back meanwhile is overwritten.
PutsBackOverOthers(t) == unsynced' = due[t]

\* flush: the segments from the failed one on wait for the next write.
PutBack(t) == unsynced' = due[t] \o unsynced

UploadFails(t) ==
    /\ due[t] # <<>>
    /\ Fault
    /\ PutBack(t)
    /\ due' = [due EXCEPT ![t] = <<>>]
    /\ UNCHANGED <<pipe, workers, memory, segments, local, s3, history>>

-----------------------------------------------------------------------------
(* The thread of one attempt.                                              *)

\* A call ends with answer r; what an abandoned one returns nobody reads.
Ended(c, r) == [c EXCEPT !.st = "ret", !.resp = IF c.ab THEN "none" ELSE r]

\* The response a hit would return, none for a miss.
Hit(i, c) ==
    IF ~c.ab /\ open /\ setup.lookups /\ i \notin served
    THEN entries[i] ELSE "none"

\* Mutant: a served response is served again.
LookupForgetsServed(i, a) ==
    LET c == call[<<i, a>>]
        r == IF ~c.ab /\ open /\ setup.lookups THEN entries[i] ELSE "none"
    IN
    /\ c.st = "start"
    /\ call' = [call EXCEPT
           ![<<i, a>>].st = IF r = "none" THEN "ask" ELSE "hit",
           ![<<i, a>>].resp = r]
    /\ asked' = IF r = "none" THEN asked \cup {i} ELSE asked
    /\ UNCHANGED <<pipe, setup, item, discards, memory, disk, unsettled>>

\* lookup
lookup(i, a) ==
    LET c == call[<<i, a>>]
        r == Hit(i, c)
    IN
    /\ c.st = "start"
    /\ call' = [call EXCEPT
           ![<<i, a>>].st = IF r = "none" THEN "ask" ELSE "hit",
           ![<<i, a>>].resp = r]
    /\ served' = IF r = "none" THEN served ELSE served \cup {i}
    /\ asked' = IF r = "none" THEN asked \cup {i} ELSE asked
    /\ UNCHANGED <<pipe, setup, item, discards, entries, pending, written, disk,
                   unsettled>>

\* discard_if_item_fails, called by lookup after a hit and by update.
discard_if_item_fails(i, a) ==
    LET c == call[<<i, a>>] IN
    /\ c.st \in {"hit", "stored", "full"}
    /\ discards' = discards \cup {i}
    /\ call' = [call EXCEPT ![<<i, a>>] =
           IF c.st = "full" THEN [c EXCEPT !.st = "flush"]
           ELSE Ended(c, c.resp)]
    /\ UNCHANGED <<pipe, setup, item, memory, disk, history>>

\* update: whether it goes on to store answer r (a truncated one is fatal).
Storable(c, r) == r \in {"good", "bad"} /\ ~c.ab

\* The model answers, and update checks whether the attempt is abandoned.
Answer(i, a, r) ==
    LET c == call[<<i, a>>] IN
    /\ c.st = "ask"
    /\ call' = [call EXCEPT ![<<i, a>>] =
           IF Storable(c, r) THEN [c EXCEPT !.st = "store", !.resp = r]
           ELSE Ended(c, r)]
    /\ UNCHANGED <<pipe, setup, item, discards, memory, disk, history>>

\* update, under the lock.
update(i, a) ==
    LET c == call[<<i, a>>] IN
    /\ c.st = "store"
    /\ IF open
       THEN /\ pending' = [pending EXCEPT ![i] = c.resp]
            /\ call' = [call EXCEPT ![<<i, a>>].st =
                   IF Cardinality(Pending \cup {i}) >= setup.flush_every
                   THEN "full" ELSE "stored"]
            /\ UNCHANGED unsettled
       ELSE /\ call' = [call EXCEPT ![<<i, a>>] = Ended(c, c.resp)]
            /\ unsettled' = unsettled \cup {i}
            /\ UNCHANGED pending
    /\ UNCHANGED <<pipe, setup, item, discards, entries, served, written, disk,
                   asked>>

\* update flushes; a write that fails fails the call.
FlushInCall(i, a) ==
    LET c == call[<<i, a>>] IN
    /\ c.st = "flush"
    /\ \/ /\ flush(<<i, a>>)
          /\ call' = [call EXCEPT ![<<i, a>>].st = "hand"]
          /\ UNCHANGED <<setup, unsettled>>
       \/ /\ WriteFails
          /\ \E r \in {"error", "fatal"} :
                 call' = [call EXCEPT ![<<i, a>>] = Ended(c, r)]
    /\ UNCHANGED <<pipe, item, discards, s3, asked>>

\* future.done()
Returned(i, a) ==
    \/ call[<<i, a>>].st = "ret"
    \/ call[<<i, a>>].st = "hand" /\ due[<<i, a>>] = <<>>

-----------------------------------------------------------------------------
(* The worker of one item.                                                 *)

Worker(i, st) == item' = [item EXCEPT ![i].st = st]

\* The next attempt; in an abandoned batch none is made, nothing discarded.
Attempt(i) ==
    /\ item[i].st \in {"queued", "backoff"}
    /\ IF abandoned
       THEN Worker(i, "dropped") /\ UNCHANGED <<setup, call>>
       ELSE LET n == item[i].n + 1 IN
            /\ item' = [item EXCEPT ![i] = [st |-> "calling", n |-> n]]
            /\ \E slow \in BOOLEAN :
                   /\ call' = [call EXCEPT ![<<i, n>>].st = "start",
                                           ![<<i, n>>].slow = slow]
                   /\ slow => setup.slow > 0
                   /\ setup' = [setup EXCEPT !.slow = IF slow THEN @ - 1 ELSE @]
    /\ UNCHANGED <<pipe, discards, memory, disk, history>>

\* _create_retry_decorator: where a worker goes after a failed attempt.
AfterFailure(i, retryable) ==
    IF retryable /\ item[i].n < MaxAttempts /\ ~abandoned
    THEN "backoff" ELSE "failing"

\* The attempt returned in time.
Return(i) ==
    LET n == item[i].n
        r == call[<<i, n>>].resp
    IN
    /\ item[i].st = "calling" /\ Returned(i, n)
    /\ Worker(i, IF r = "good" THEN "done" ELSE AfterFailure(i, r # "fatal"))
    /\ call' = [call EXCEPT ![<<i, n>>].st = "ret", ![<<i, n>>].resp = "none"]
    /\ UNCHANGED <<pipe, setup, discards, memory, disk, history>>

\* Mutant: leaving the pool of the timed-out call joins its thread.
TimeoutJoins(i) ==
    LET n == item[i].n IN
    /\ item[i].st = "calling" /\ Returned(i, n)
    /\ Worker(i, AfterFailure(i, TRUE))
    /\ UNCHANGED <<pipe, setup, call, discards, memory, disk, history>>

\* _run_with_timeout: the attempt is abandoned unless it has returned
\* meanwhile.  One that is past its check, or has not registered its
\* discard, may leave a response nobody drops.
Timeout(i) ==
    LET n == item[i].n
        c == call[<<i, n>>]
    IN
    /\ item[i].st = "calling" /\ c.slow
    /\ Worker(i, AfterFailure(i, TRUE))
    /\ call' = [call EXCEPT ![<<i, n>>] =
           IF Returned(i, n) THEN [c EXCEPT !.st = "ret", !.resp = "none"]
           ELSE [c EXCEPT !.ab = TRUE]]
    /\ unsettled' = IF c.st \in {"hit", "store", "stored", "full"}
                    THEN unsettled \cup {i} ELSE unsettled
    /\ UNCHANGED <<pipe, setup, discards, memory, disk, asked>>

\* process_one: a failed item calls its discards, a closed cache ignores
\* them.
Fail(i) ==
    /\ item[i].st = "failing"
    /\ Worker(i, "failed")
    /\ IF open /\ i \in discards
       THEN discard(i) /\ UNCHANGED unsettled
       ELSE /\ unsettled' = IF open THEN unsettled ELSE unsettled \cup {i}
            /\ UNCHANGED memory
    /\ UNCHANGED <<pipe, setup, call, discards, disk, asked>>

-----------------------------------------------------------------------------
(* The pipeline's thread.                                                  *)

Goto(m) == main' = m

Over(i) == item[i].st \in {"done", "failed", "dropped"}

\* _execute_with_fallback returns when every item has ended.
Completed ==
    /\ main = "batch" /\ \A i \in Items : Over(i)
    /\ Goto("flush")
    /\ UNCHANGED <<past, abandoned, setup, workers, memory, disk, history>>

\* A stop does not wait for the calls that run.
Stop ==
    /\ main = "batch" /\ abandoned' = TRUE /\ Fault
    /\ Goto("flush")
    /\ UNCHANGED <<past, workers, memory, disk, history>>

\* The flush before the checkpoint's upload, and the one of close.
FlushInMain ==
    /\ main \in {"flush", "close"}
    /\ \/ /\ flush(<<Main, 0>>)
          /\ Goto(IF main = "flush" THEN "sync" ELSE "deactivate")
          /\ UNCHANGED <<setup, unsettled>>
       \/ /\ WriteFails
          /\ Goto(IF main = "flush" THEN "close" ELSE "closed")
    /\ UNCHANGED <<past, abandoned, workers, s3, asked>>

\* sync_pipeline_to_s3 sends what S3 lacks; one that fails sends a part.
SyncToS3 ==
    /\ main = "sync" /\ due[<<Main, 0>>] = <<>>
    /\ \/ s3' = s3 \cup local /\ UNCHANGED setup
       \/ /\ Fault
          /\ \E sent \in SUBSET (local \ s3) :
                 sent # local \ s3 /\ s3' = s3 \cup sent
    /\ Goto("close")
    /\ UNCHANGED <<past, abandoned, workers, memory, files, due, history>>

\* close, after its flush.
Deactivate ==
    /\ main = "deactivate" /\ due[<<Main, 0>>] = <<>>
    /\ Goto("closed")
    /\ entries' = [i \in Items |-> "none"]
    /\ UNCHANGED <<past, abandoned, setup, workers, served, pending, written,
                   disk, history>>

\* How an item ended, as far as the segments `found` by the next run can
\* tell: an answer, or a failure after a response.
Outcome(i, found) ==
    IF \/ i \in unsettled \/ pending[i] # "none"
       \/ \E k \in local \ found : segments[k][i] # "none"
    THEN "unknown"
    ELSE IF item[i].st = "done" THEN "answered"
    ELSE IF item[i].st = "failed" /\ i \in discards THEN "failed"
    ELSE "unknown"

\* The threads of a new process.
Idle ==
    /\ main' = "batch" /\ abandoned' = FALSE
    /\ item' = [i \in Items |-> [st |-> "queued", n |-> 0]]
    /\ call' = [t \in Items \X Attempts |-> NoCall]
    /\ due' = [t \in Threads |-> <<>>]
    /\ discards' = {} /\ asked' = {} /\ unsettled' = {}

\* The next run of the pipeline id, on this host or on a fresh one, after
\* this one ended or was killed.
NextRun(found) ==
    /\ run < MaxRuns /\ run' = run + 1
    /\ IF open THEN Fault
       ELSE UNCHANGED setup
    /\ before' = [i \in Items |-> Outcome(i, found)]
    /\ Idle /\ Opened(found)
    /\ local' = found /\ base' = Len(segments)
    /\ UNCHANGED <<segments, s3>>

Init ==
    /\ run = 1 /\ setup \in Setups
    /\ main = "batch" /\ abandoned = FALSE
    /\ item = [i \in Items |-> [st |-> "queued", n |-> 0]]
    /\ call = [t \in Items \X Attempts |-> NoCall]
    /\ discards = {} /\ asked = {} /\ unsettled = {}
    /\ entries = setup.earlier
    /\ written = {i \in Items : entries[i] # "none"}
    /\ pending = [i \in Items |-> "none"]
    /\ served = {} /\ unsynced = <<>>
    /\ due = [t \in Threads |-> <<>>]
    /\ segments = <<setup.earlier>> /\ base = 1
    /\ local = {1} /\ s3 = {1}
    /\ before = [i \in Items |-> "unknown"]

Caller(i) == Attempt(i) \/ Return(i) \/ Timeout(i) \/ Fail(i)
Pipeline == Completed \/ FlushInMain \/ SyncToS3 \/ Deactivate
                \/ Upload(<<Main, 0>>) \/ UploadFails(<<Main, 0>>)
Call(i, a) ==
    \/ lookup(i, a) \/ discard_if_item_fails(i, a) \/ update(i, a)
    \/ FlushInCall(i, a) \/ Upload(<<i, a>>) \/ UploadFails(<<i, a>>)
    \/ \E r \in Answers : Answer(i, a, r)
FastCall(i) == \E a \in Attempts : ~call[<<i, a>>].slow /\ Call(i, a)

Next ==
    \/ \E i \in Items : Caller(i) \/ \E a \in Attempts : Call(i, a)
    \/ Pipeline \/ Stop
    \/ NextRun(local) \/ NextRun(s3)

Spec == Init /\ [][Next]_vars

\* Threads make progress, but for a slow call, which may hang.
FairSpec ==
    /\ Spec
    /\ WF_vars(Pipeline)
    /\ \A i \in Items : WF_vars(Caller(i) \/ FastCall(i))

-----------------------------------------------------------------------------

\* A run finds, of the run before it, the good response of every item that
\* run got an answer for, and none of an item that failed every attempt: what
\* discards, flushes of several threads, segments that override each other,
\* late answers and the upload leave behind is what the segments load as.
\* Not promised for what was not written or uploaded when the run ended, nor
\* where a timeout hit between the check for it and the registered discard.
CarriesOver ==
    main = "batch" /\ (\A i \in Items : item[i].st = "queued") =>
        \A i \in Items :
            /\ before[i] = "answered" => entries[i] = "good"
            /\ before[i] = "failed" => entries[i] = "none"

\* An item that used all its attempts has asked the model: a failure is never
\* recorded on replayed responses alone (lookup serves one once per run).
FailureIsFresh ==
    \A i \in Items :
        /\ item[i].st \in {"failing", "failed"} /\ item[i].n = MaxAttempts
        /\ MaxAttempts > 1
        /\ \A a \in Attempts : call[<<i, a>>].st # "start"
        => i \in asked

\* A segment this run wrote is in S3, waits for the next write, or is being
\* handed off: concurrent hand-offs that fail lose none of each other's.
NoSegmentLost ==
    \A k \in local :
        \/ k <= base \/ k \in s3
        \/ \E n \in DOMAIN unsynced : unsynced[n] = k
        \/ \E t \in Threads : \E n \in DOMAIN due[t] : due[t][n] = k

\* A batch ends though any model call may hang for ever: a timed-out call is
\* left behind (_run_with_timeout).
BatchEnds == main = "batch" ~> main # "batch"
=============================================================================
