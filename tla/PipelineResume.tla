--------------------------- MODULE PipelineResume ---------------------------
(***************************************************************************)
(* The checkpoint of one pipeline id: the stages of an ingestion run, the  *)
(* cache of their outputs, the run's metadata, the copy of both in S3, and *)
(* the resume that decides from them where the next run starts             *)
(* (application/ingestion/pipeline.py, pipeline_manager.py, resume.py,     *)
(* cache_manager.py, adapters/aws/s3_cache.py).                            *)
(*                                                                         *)
(* Stage 1 is document_loading, which computes the incremental delta and   *)
(* filters the documents by it; stage N is indexing, which caches nothing; *)
(* the stages between are artifact stages, of which stage 2 is the one     *)
(* whose settings are extraction settings.  A stage's outputs are one      *)
(* output.  The runs of a pipeline id follow each other (the namespace     *)
(* lease); runs of other pipeline ids fall between them.                   *)
(***************************************************************************)
EXTENDS Naturals, FiniteSets, Sequences, FiniteSetsExt

CONSTANTS
    N,              \* number of stages
    Confs,          \* values a stage's configuration takes
    Windows,        \* the sets of stages a run may have enabled
    Setups,         \* s3_sync_enabled and continue_on_error of a deployment
    MaxRuns,        \* bound: runs of the pipeline id
    MaxFaults,      \* bound: kills, stops, failed stages, failed writes
    MaxChanges      \* bound: configuration changes, and commits of other runs

ASSUME StagesAssumption == N \in Nat /\ N >= 3
ASSUME ConfsAssumption == Confs # {} /\ Confs \subseteq Nat \ {0}
ASSUME WindowsAssumption == \A w \in Windows : w # {} /\ w \subseteq 1..N
ASSUME SetupsAssumption == Setups \subseteq [synced : BOOLEAN, continues : BOOLEAN]
ASSUME BoundAssumption == /\ MaxRuns \in Nat
                          /\ MaxFaults \in Nat
                          /\ MaxChanges \in Nat

Stages == 1..N
Loading == 1
Indexing == N
Cached == 1..(N - 1)
Artifact == 2..(N - 1)
Extraction == 2

Keys == UNION {[1..s -> Confs] : s \in Cached}

\* A delta: the state of the registry, the extraction settings and the loading
\* settings it was computed from.  It identifies the documents loaded with it.
NoDelta == <<>>
Delta(reg, ext, loading) == <<reg, ext, loading>>
\* An output: its content (the delta for document_loading, else the execution
\* that produced it, a model's answers differ), the contents it was computed
\* from, and whether it lacks units the stage failed on.
NoContent == <<>>
NoOutput == [id |-> NoContent, ins |-> <<>>, part |-> FALSE]
NoMeta == [res |-> [s \in Stages |-> "none"], failed |-> {}, delta |-> NoDelta]
NoCtx == [res |-> [s \in Stages |-> "none"], failed |-> {}, delta |-> NoDelta,
          out |-> [s \in Cached |-> NoOutput]]
NoCache == [data |-> [k \in Keys |-> NoOutput],
            index |-> [k \in Keys |-> NoContent],
            meta |-> NoMeta]

VARIABLES
    setup,      \* the deployment
    conf,       \* the configuration of each caching stage
    registry,   \* commits of other pipeline ids' runs to the doc-status registry
    disk,       \* the run host's cache directory
    s3,         \* its copy in S3
    ctx,        \* the run's PipelineContext
    rerunFrom,  \* PipelineStateManager._rerun_from (N + 1: none)
    run,        \* where the run is; once it ended, how, and what it finished
    stop,       \* a stop was requested (_stop_signal)
    serial,     \* executions of stages so far
    counts,     \* runs, faults and changes so far
    torn        \* history: a status was made durable and its output was not

vars == <<setup, conf, registry, disk, s3, ctx, rerunFrom, run, stop, serial, counts,
          torn>>

NoRun == [pc |-> "idle", at |-> 0, win |-> {}, by |-> "new", end |-> "none",
          done |-> {}, kept |-> TRUE]
\* How the last run ended; only of a stopped one is more remembered.
Idle(end) == IF end = "stopped" THEN [run EXCEPT !.pc = "idle", !.at = 0, !.end = end]
             ELSE [NoRun EXCEPT !.end = end]

Init ==
    /\ setup \in Setups
    /\ conf = [s \in Cached |-> Min(Confs)]
    /\ registry = 0
    /\ disk = NoCache
    /\ s3 = NoCache
    /\ ctx = NoCtx
    /\ rerunFrom = N + 1
    /\ run = NoRun
    /\ stop = FALSE
    /\ serial = 0
    /\ counts = [runs |-> 0, faults |-> 0, changes |-> 0]
    /\ torn = FALSE

Count(what, bound) ==
    /\ counts[what] < bound
    /\ counts' = [counts EXCEPT ![what] = @ + 1]

\* What the process of a run holds in memory goes with it, and with a copy in
\* S3 its host's disk (an ECS task).
ProcessEnds ==
    /\ ctx' = NoCtx
    /\ rerunFrom' = N + 1
    /\ stop' = FALSE
    /\ disk' = IF setup.synced THEN NoCache ELSE disk

Fault == Count("faults", MaxFaults)

Before(S, s) == {u \in S : u < s}

(***************************************************************************)
(* What lies between two runs of the pipeline id.                          *)
(***************************************************************************)

\* The operator changes a stage's settings.
Reconfigure ==
    /\ run.pc = "idle" /\ counts.runs > 0
    /\ Count("changes", MaxChanges)
    /\ \E s \in Cached, c \in Confs :
         /\ c # conf[s]
         /\ conf' = [conf EXCEPT ![s] = c]
    /\ run' = Idle("none")
    /\ UNCHANGED <<setup, registry, disk, s3, ctx, rerunFrom, stop, serial, torn>>

\* A run of another pipeline id commits documents of the namespace.
OtherRun ==
    /\ run.pc = "idle" /\ counts.runs > 0
    /\ Count("changes", MaxChanges)
    /\ registry' = registry + 1
    /\ run' = Idle("none")
    /\ UNCHANGED <<setup, conf, disk, s3, ctx, rerunFrom, stop, serial, torn>>

(***************************************************************************)
(* The cache.  A stage's key covers its settings and those of every stage  *)
(* upstream; an entry is loaded when the hash the index holds is that of   *)
(* the data.                                                               *)
(***************************************************************************)

stage_cache_key(s) == [u \in 1..s |-> conf[u]]

load_stage_result(d, s) ==
    LET k == stage_cache_key(s)
    IN IF d.index[k] = d.data[k].id THEN d.data[k] ELSE NoOutput

\* Whether the cache lacks a completed stage's output: a loading output
\* filtered by another attempt's delta counts as missing.
missing_cache_keys(d, s) ==
    /\ s \in Cached
    /\ \/ load_stage_result(d, s) = NoOutput
       \/ /\ s = Loading
          /\ d.meta.delta # NoDelta
          /\ d.meta.delta[3] # conf[Loading]

(***************************************************************************)
(* Resume.  A point is the stage to start at and the completed stages to   *)
(* restore; every step moves it back, or the resume is refused.            *)
(***************************************************************************)

Recorded(d) == {s \in Stages : d.meta.res[s] # "none"}
RecordedCompleted(d) == {s \in Stages : d.meta.res[s] = "completed"}
RewindTo(point, s) == [start |-> s, done |-> Before(point.done, s)]

\* The point the recorded results give: the stage asked for (0: none), else
\* the first stage that did not complete, else the stage after the last one.
handle_auto_resume(d) ==
    LET unfinished == Recorded(d) \ RecordedCompleted(d)
        last == Max(Recorded(d))
    IN IF unfinished # {}
       THEN [start |-> Min(unfinished),
             done |-> Before(RecordedCompleted(d), Min(unfinished))]
       ELSE [start |-> IF last = Indexing THEN last ELSE last + 1,
             done |-> RecordedCompleted(d)]

handle_explicit_stage_resume(d, asked) ==
    [start |-> asked,
     done |-> IF asked \in Recorded(d)
              THEN Before(RecordedCompleted(d), asked)
              ELSE RecordedCompleted(d)]

Unbacked(d, point) == {s \in point.done : missing_cache_keys(d, s)}

verify_completed_stages_against_cache(d, point) ==
    IF Unbacked(d, point) = {} THEN point
    ELSE RewindTo(point, Min(Unbacked(d, point)))

rewind_to_unrun_stage(w, point) ==
    LET unrun == Before(w, point.start) \ point.done
    IN IF unrun = {} THEN point ELSE RewindTo(point, Min(unrun))

rewind_on_extraction_change(d, w, point) ==
    IF /\ Loading \in w
       /\ d.meta.delta # NoDelta
       /\ d.meta.delta[2] # conf[Extraction]
    THEN RewindTo(point, Loading) ELSE point

determine_resume_strategy(d, w, asked) ==
    IF asked # 0 THEN handle_explicit_stage_resume(d, asked)
    ELSE rewind_on_extraction_change(d, w,
           rewind_to_unrun_stage(w,
             verify_completed_stages_against_cache(d, handle_auto_resume(d))))

\* An explicit resume names its start and is not moved back to a stage whose
\* output the cache lacks.
refuses_unbacked(d, asked) ==
    asked # 0 /\ Unbacked(d, handle_explicit_stage_resume(d, asked)) # {}

check_upstream_complete(d, w, point) ==
    ~ /\ point.start \notin w
      /\ point.start < Min(w)
      /\ point.start \in Recorded(d)

FailedBefore(d, w, point) == Before(d.meta.failed \cap point.done \cap w, point.start)

rewind_to_failed_stage(d, w, asked, point) ==
    IF asked # 0 \/ FailedBefore(d, w, point) = {} THEN point
    ELSE RewindTo(point, Min(FailedBefore(d, w, point)))

\* An auto resume does not run a completed stage again on the output of a
\* stage that failed on units and is not enabled to retry them.
refuses_rerun_of_unrun_failures(d, w, asked, point) ==
    /\ asked = 0
    /\ point.start \in point.done
    /\ Before(d.meta.failed \ w, rewind_to_failed_stage(d, w, asked, point).start) # {}

\* Mutant: the delta is checked only by a resume at the indexing stage.
DeltaCheckedAtIndexing(d, w, point) ==
    /\ d.meta.delta # NoDelta
    /\ point.start = Indexing
    /\ \E s \in w : s >= point.start
    /\ d.meta.delta[1] # registry

delta_is_stale(d, w, point) ==
    /\ d.meta.delta # NoDelta
    /\ point.start > Loading
    /\ \E s \in w : s >= point.start
    /\ d.meta.delta[1] # registry

rewind_on_stale_delta(d, w, point) ==
    IF delta_is_stale(d, w, point) THEN RewindTo(point, Loading) ELSE point

\* Mutant: the failures of every stage not enabled are dropped, those of the
\* stages restored too.
DropsRestoredFailures(d, w, point) == d.meta.failed \cap w

drop_unrun_failures(d, w, point) == Before(d.meta.failed, point.start) \cup
                                    (d.meta.failed \cap w)

restore_pipeline_context(d, w, point) ==
    [res |-> [s \in Stages |-> IF s < point.start THEN d.meta.res[s] ELSE "none"],
     failed |-> drop_unrun_failures(d, w, point),
     delta |-> d.meta.delta,
     out |-> [s \in Cached |-> IF s \in point.done THEN load_stage_result(d, s)
                               ELSE NoOutput]]

\* The first enabled stage at or after the start, or the end of the run.
start_index(w, s) ==
    LET left == {u \in w : u >= s}
    IN IF left = {} THEN [pc |-> "finish", at |-> 0]
       ELSE [pc |-> "next", at |-> Min(left)]

StartAt(w, s, by) ==
    run' = [pc |-> start_index(w, s).pc, at |-> start_index(w, s).at,
           win |-> w, by |-> by, end |-> "none", done |-> {}, kept |-> TRUE]

prepare_resume(d, w, asked) ==
    LET asks   == determine_resume_strategy(d, w, asked)
        rewound == rewind_to_failed_stage(d, w, asked, asks)
        point  == rewind_on_stale_delta(d, w, rewound)
        refused == \/ refuses_unbacked(d, asked)
                   \/ ~check_upstream_complete(d, w, asks)
                   \/ refuses_rerun_of_unrun_failures(d, w, asked, asks)
                   \/ delta_is_stale(d, w, rewound) /\ Loading \notin w
    IN IF refused
       THEN /\ run' = Idle("refused")
            /\ UNCHANGED ctx
       ELSE /\ ctx' = restore_pipeline_context(d, w, point)
            /\ StartAt(w, point.start, IF asked = 0 THEN "auto" ELSE "asked")

\* With a copy in S3 every run has a host of its own and downloads the copy.
sync_pipeline_from_s3 == IF setup.synced THEN s3 ELSE disk

\* The operator asks for a stage only once the stages before it completed.
Asks(d, asked) == \A s \in Stages : s < asked => d.meta.res[s] = "completed"

run_leased(w, asked, force) ==
    LET d == sync_pipeline_from_s3
    IN /\ Asks(d, asked)
       /\ disk' = d
       /\ IF force \/ d.meta = NoMeta
          THEN /\ ctx' = NoCtx
               /\ StartAt(w, IF asked = 0 THEN Min(w) ELSE asked, "new")
          ELSE prepare_resume(d, w, asked)

\* A run starts: a resume from where the checkpoint says or from a stage asked
\* for, or a rebuild, which is asked of a run that loads the documents.
Start ==
    /\ run.pc = "idle"
    /\ Count("runs", MaxRuns)
    /\ \E w \in Windows :
         \/ \E asked \in {0} \cup w : run_leased(w, asked, FALSE)
         \/ Loading \in w /\ run_leased(w, 0, TRUE)
    /\ UNCHANGED <<setup, conf, registry, s3, rerunFrom, stop, serial, torn>>

(***************************************************************************)
(* The stages of a run.                                                    *)
(***************************************************************************)

\* A save of the metadata keeps the completed results of earlier runs, up to
\* the first that did not complete and up to the first stage run again.
merge_persisted_stage_results(c) ==
    LET kept == {s \in Stages :
                   /\ disk.meta.res[s] = "completed"
                   /\ s <= rerunFrom'
                   /\ \A u \in 1..s : disk.meta.res[u] \in {"none", "completed"}}
    IN [s \in Stages |-> IF c.res[s] = "none" /\ s \in kept THEN "completed"
                         ELSE c.res[s]]

save_pipeline_metadata(c) ==
    LET res == merge_persisted_stage_results(c)
    IN /\ ctx' = [c EXCEPT !.res = res]
       /\ disk' = [disk EXCEPT !.meta = [res |-> res, failed |-> c.failed,
                                         delta |-> c.delta]]

Go(pc) == [run EXCEPT !.pc = pc]

failed_corpus_stage(c, s) == s = Indexing /\ c.res[Loading] = "failed"

\* Mutant: a stage run again leaves the results downstream of it.
KeepsDownstream(s) == rerunFrom

mark_rerun(s) == IF s < rerunFrom THEN s ELSE rerunFrom

\* execute_stage up to the stage's own code: the results downstream are void,
\* the stage's failures are forgotten, and its RUNNING result is saved; the
\* indexing stage fails at once behind a failed corpus stage.
Begin ==
    /\ run.pc = "next"
    /\ rerunFrom' = mark_rerun(run.at)
    /\ LET c == [ctx EXCEPT !.failed = @ \ {run.at}]
           blocked == failed_corpus_stage(c, run.at)
       IN /\ save_pipeline_metadata([c EXCEPT !.res[run.at] =
                                       IF blocked THEN "failed" ELSE "running"])
          /\ run' = Go(IF blocked THEN "upload" ELSE "run")
    /\ UNCHANGED <<setup, conf, registry, s3, stop, serial, counts, torn>>

ComputedDelta(s) ==
    IF s # Loading THEN ctx.delta
    ELSE Delta(registry, conf[Extraction], conf[Loading])

Produced(s, part) ==
    [id |-> IF s = Loading THEN ComputedDelta(s) ELSE <<serial + 1>>,
     ins |-> [u \in Before(Cached, s) |-> ctx.out[u].id],
     part |-> part]

\* The stage completes: its result is saved, its output is in the context and
\* not yet in the cache.  An artifact stage may have failed on some units.
Complete(part) ==
    /\ run.pc = "run"
    /\ IF part THEN run.at \in Artifact /\ Fault ELSE UNCHANGED counts
    /\ serial' = serial + 1
    /\ UNCHANGED rerunFrom
    /\ save_pipeline_metadata(
         [ctx EXCEPT !.res[run.at] = "completed",
                     !.failed = IF part THEN @ \cup {run.at} ELSE @,
                     !.delta = ComputedDelta(run.at),
                     !.out = [s \in Cached |-> IF s = run.at THEN Produced(s, part)
                                               ELSE @[s]]])
    /\ run' = [Go(IF run.at \in Cached THEN "data" ELSE "upload")
                 EXCEPT !.done = @ \cup {run.at}]
    /\ UNCHANGED <<setup, conf, registry, s3, stop, torn>>

\* Mutant: the units of a failed stage are recorded whatever the stage is.
MarksAnyStage(failed, s) == failed \cup {s}

mark_units_failed(failed, s) == IF s \in Artifact THEN failed \cup {s} ELSE failed

\* The stage fails: an artifact stage's units are all recorded failed.
Fail ==
    /\ run.pc = "run"
    /\ Fault
    /\ UNCHANGED rerunFrom
    /\ save_pipeline_metadata(
         [ctx EXCEPT !.res[run.at] = "failed",
                     !.failed = mark_units_failed(@, run.at)])
    /\ run' = [Go("upload") EXCEPT !.kept = FALSE]
    /\ UNCHANGED <<setup, conf, registry, s3, stop, serial, torn>>

\* A stop requested during the checkpoint write takes effect after it.
Checkpointed == Go(IF stop THEN "stopping" ELSE "upload")

\* The stage's output is written to its file, then entered in the index: each
\* write is atomic, and one that fails is logged.
SaveData ==
    /\ run.pc = "data"
    /\ \/ /\ disk' = [disk EXCEPT !.data[stage_cache_key(run.at)] = ctx.out[run.at]]
          /\ run' = Go("index")
          /\ UNCHANGED <<counts, torn>>
       \/ /\ Fault
          /\ torn' = TRUE
          /\ run' = [Checkpointed EXCEPT !.kept = FALSE]
          /\ UNCHANGED disk
    /\ UNCHANGED <<setup, conf, registry, s3, ctx, rerunFrom, stop, serial>>

SaveIndex ==
    /\ run.pc = "index"
    /\ \/ /\ disk' = [disk EXCEPT !.index[stage_cache_key(run.at)] = ctx.out[run.at].id]
          /\ run' = Checkpointed
          /\ UNCHANGED counts
       \/ /\ Fault
          /\ run' = [Checkpointed EXCEPT !.kept = FALSE]
          /\ UNCHANGED disk
    /\ UNCHANGED <<setup, conf, registry, s3, ctx, rerunFrom, stop, serial, torn>>

(***************************************************************************)
(* The copy in S3.  The files that changed are sent, the data first, then  *)
(* the index, then the metadata; one that fails does not stop the others.  *)
(***************************************************************************)

Changed == {k \in Keys : disk.data[k] # s3.data[k]}

Sent(data, index, meta) ==
    s3' = [data |-> [k \in Keys |-> IF k \in data THEN disk.data[k] ELSE s3.data[k]],
           index |-> IF index THEN disk.index ELSE s3.index,
           meta |-> IF meta THEN disk.meta ELSE s3.meta]

\* S3 is left with the status of a stage over an older output of it that the
\* index there still names, or with a stage's indexed output and not its status.
TornCopy(index, meta) ==
    \/ /\ meta
       /\ \E k \in Changed : /\ s3'.data[k] \notin {NoOutput, disk.data[k]}
                            /\ s3'.index[k] = s3'.data[k].id
    \/ ~meta /\ index

sync_pipeline_to_s3 ==
    /\ IF setup.synced THEN Sent(Changed, TRUE, TRUE) ELSE UNCHANGED s3
    /\ UNCHANGED <<counts, torn>>

SyncFails ==
    /\ setup.synced
    /\ Fault
    /\ \E data \in SUBSET Changed, index, meta \in BOOLEAN :
         /\ ~(data = Changed /\ index /\ meta)
         /\ Sent(data, index, meta)
         /\ torn' = (torn \/ TornCopy(index, meta))

should_stop_pipeline == ctx.res[run.at] = "failed" /\ ~setup.continues

\* The checkpoint after a stage; the run goes on whether or not it was sent.
UploadCheckpoint ==
    /\ run.pc = "upload"
    /\ sync_pipeline_to_s3 \/ SyncFails
    /\ LET next == start_index(run.win, run.at + 1)
       IN run' = IF stop THEN Go("stopping")
                 ELSE IF should_stop_pipeline THEN Go("finish")
                 ELSE [run EXCEPT !.pc = next.pc, !.at = next.at]
    /\ UNCHANGED <<setup, conf, registry, disk, ctx, rerunFrom, stop, serial>>

RunFailed(c) == \E s \in Stages : c.res[s] = "failed"

\* The last save, and the last upload, which fails the run.
Finalize ==
    /\ run.pc = "finish"
    /\ UNCHANGED rerunFrom
    /\ save_pipeline_metadata(ctx)
    /\ run' = Go("last upload")
    /\ UNCHANGED <<setup, conf, registry, s3, stop, serial, counts, torn>>

LastUpload ==
    /\ run.pc = "last upload"
    /\ \/ sync_pipeline_to_s3 /\ run' = Idle(IF stop THEN "stopped"
                                             ELSE IF RunFailed(ctx) THEN "failed"
                                             ELSE "completed")
       \/ SyncFails /\ run' = Idle("failed")
    /\ ProcessEnds
    /\ UNCHANGED <<setup, conf, registry, serial>>

\* Mutant: a stop does not wait for the checkpoint write under way.
StopsInWrite ==
    /\ run.pc \notin {"idle", "stopping"}
    /\ ~stop
    /\ Fault
    /\ stop' = TRUE
    /\ run' = Go("stopping")
    /\ UNCHANGED <<setup, conf, registry, disk, s3, ctx, rerunFrom, serial, torn>>

\* A stop ends the run where it is, or once the checkpoint write under way is
\* done; it then uploads the checkpoint.
request_stop ==
    /\ run.pc \notin {"idle", "stopping"}
    /\ ~stop
    /\ Fault
    /\ stop' = TRUE
    /\ run' = IF run.pc \in {"next", "run", "finish"} THEN Go("stopping") ELSE run
    /\ UNCHANGED <<setup, conf, registry, disk, s3, ctx, rerunFrom, serial, torn>>

CheckpointOnStop ==
    /\ run.pc = "stopping"
    /\ \/ sync_pipeline_to_s3 /\ run' = Idle("stopped")
       \/ SyncFails /\ run' = Idle("failed")
    /\ ProcessEnds
    /\ UNCHANGED <<setup, conf, registry, serial>>

\* The process dies; an upload under way is cut short.
Kill ==
    /\ run.pc # "idle"
    /\ Fault
    /\ \/ /\ torn' = (torn \/ (run.pc = "data" /\ ~setup.synced))
          /\ UNCHANGED s3
       \/ /\ setup.synced /\ run.pc \in {"upload", "last upload", "stopping"}
          /\ \E data \in SUBSET Changed, index \in BOOLEAN :
               /\ index => data = Changed
               /\ Sent(data, index, FALSE)
               /\ torn' = (torn \/ TornCopy(index, FALSE))
    /\ run' = Idle("killed")
    /\ ProcessEnds
    /\ UNCHANGED <<setup, conf, registry, serial>>

Next ==
    \/ Reconfigure \/ OtherRun \/ Start
    \/ Begin \/ (\E part \in BOOLEAN : Complete(part)) \/ Fail
    \/ SaveData \/ SaveIndex \/ UploadCheckpoint
    \/ Finalize \/ LastUpload
    \/ request_stop \/ CheckpointOnStop \/ Kill

Spec == Init /\ [][Next]_vars

-----------------------------------------------------------------------------

Deltas == {Delta(reg, ext, loading) :
             reg \in 0..registry, ext \in Confs, loading \in Confs}
Contents == {NoContent} \cup Deltas \cup {<<n>> : n \in 1..serial}

Metas == [res : [Stages -> {"none", "running", "completed", "failed"}],
          failed : SUBSET Artifact,
          delta : {NoDelta} \cup Deltas]

\* The variables have their types: the failed units recorded are those of
\* artifact stages, an index entry and a cached output come from an execution.
TypeOK ==
    /\ setup \in Setups
    /\ conf \in [Cached -> Confs]
    /\ registry \in 0..MaxChanges
    /\ \A d \in {disk, s3} :
         /\ DOMAIN d.data = Keys /\ DOMAIN d.index = Keys
         /\ \A k \in Keys : d.data[k].id \in Contents /\ d.index[k] \in Contents
         /\ d.meta \in Metas
    /\ [res |-> ctx.res, failed |-> ctx.failed, delta |-> ctx.delta] \in Metas
    /\ DOMAIN ctx.out = Cached
    /\ rerunFrom \in 1..(N + 1)
    /\ run.at \in 0..N /\ run.win \subseteq Stages /\ run.done \subseteq Stages
    /\ serial \in 0..(MaxRuns * N)

IndexingRuns == run.pc = "run" /\ run.at = Indexing

\* The outputs of the stages that completed, in this run or an earlier one.
Outputs == {s \in Cached : ctx.out[s] # NoOutput /\ ctx.res[s] = "completed"}

\* What the indexing stage commits accounts for every unit a stage failed on:
\* an output that lacks units, restored from the cache or computed in this
\* run, has its stage in failed_text_unit_ids, so that the documents of those
\* units are recorded FAILED and not PROCESSED without their content
\* (pipeline.py _mark_units_failed, resume.py rewind_to_failed_stage and
\* drop_unrun_failures).  Not covered: a stage whose completed status was made
\* durable and its output was not.
FailuresKnown ==
    IndexingRuns /\ ~torn => \A s \in Outputs : ctx.out[s].part => s \in ctx.failed

\* The outputs the indexing stage uses belong together: each was computed from
\* the very outputs upstream of it that the run uses, and the documents are
\* those the run's delta filtered, whatever was restored from the cache of
\* which run (pipeline_manager.py _verify_completed_stages_against_cache,
\* mark_rerun).  Same exception.
OutputsCohere ==
    IndexingRuns /\ ~torn =>
        /\ \A s \in Outputs, u \in Cached : u < s => ctx.out[s].ins[u] = ctx.out[u].id
        /\ Loading \in Outputs => ctx.delta = ctx.out[Loading].id

\* The delta the indexing stage commits was computed from the registry as it
\* is: a run of another pipeline id since sends the resume back to
\* document_loading, also from an explicit stage (resume.py delta_is_stale).
DeltaFresh ==
    IndexingRuns /\ ctx.delta # NoDelta => ctx.delta[1] = registry

\* Every stage a stopped run finished is in the checkpoint it left: the next
\* run with the same stages and settings starts after them, on another host
\* too (pipeline.py request_stop, _checkpoint_write).  A stage that failed on
\* units is run again for them, and indexing is always run again.  Not covered:
\* a run in which a stage or a write of the cache failed.
StopKeepsWork ==
    [][ /\ run.end = "stopped" /\ run.by # "asked"
        /\ run'.pc = "next" /\ run'.by = "auto" /\ run'.win = run.win
        /\ sync_pipeline_from_s3.meta.failed = {} /\ run.kept
        => \A s \in run.done \cap Cached : s < run'.at ]_vars
=============================================================================
