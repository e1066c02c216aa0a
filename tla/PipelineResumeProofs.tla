------------------------ MODULE PipelineResumeProofs ------------------------
(***************************************************************************)
(* The checkpoint and its resume (PipelineResume), for any number of       *)
(* stages, settings, deployments and bounds: the delta that indexing       *)
(* commits was computed from the registry as it is; the variables have     *)
(* their types; for windows without gaps, a stop loses no stage that was   *)
(* finished; and, for settings that are not changed back as well, what     *)
(* indexing uses belongs together and lacks no unit that is not recorded   *)
(* failed.                                                                 *)
(***************************************************************************)
EXTENDS PipelineResume, TLAPS, WellFoundedInduction

-----------------------------------------------------------------------------
(* The inductive invariant.                                                *)

\* The records have the fields their updates name.
Shape ==
    /\ "meta" \in DOMAIN disk /\ "meta" \in DOMAIN s3
    /\ {"res", "failed", "delta", "out"} \subseteq DOMAIN ctx
    /\ DOMAIN ctx.res = Stages
    /\ {"pc", "at"} \subseteq DOMAIN run

\* A delta is recorded with a result of the stage that computed it: a resume
\* that goes back to that stage finds it recorded, and is refused unless the
\* stage is enabled.
DeltaRecorded(meta) == meta.delta # NoDelta => meta.res[Loading] # "none"

\* A run that has a stale delta is about to compute another, failed to, or is
\* past its stages.
Stale == ctx.delta # NoDelta /\ ctx.delta[1] # registry
WillLoad == run.at = Loading /\ run.pc \in {"next", "run"}
PastStages == run.pc \in {"finish", "last upload", "stopping"}

Resumed ==
    /\ ctx.delta # NoDelta =>
         \/ ctx.res[Loading] # "none"
         \/ run.at = Loading /\ run.pc = "next"
         \/ run.pc = "stopping"
    /\ Stale => WillLoad \/ ctx.res[Loading] = "failed" \/ PastStages
    /\ IndexingRuns => ctx.res[Loading] # "failed"

Inv ==
    /\ Shape
    /\ DeltaRecorded(disk.meta) /\ DeltaRecorded(s3.meta)
    /\ run.pc # "idle" => Resumed

-----------------------------------------------------------------------------
(* The least and the largest of a set of stages.                           *)

\* The least of a set of stages is one of them and below the others.
LEMMA MinIn ==
  ASSUME NEW S \in SUBSET Nat, S # {}
  PROVE  Min(S) \in S /\ \A x \in S : Min(S) <= x
<1>1. PICK m \in S : \A x \in S : ~(<<x, m>> \in OpToRel(<, Nat))
  BY WFMin, NatLessThanWellFounded
<1>2. \A x \in S : m <= x
  <2> TAKE x \in S
  <2>1. ~(x < m)
    BY <1>1 DEF OpToRel
  <2> QED
    BY <2>1
<1> QED
  BY <1>2 DEF Min

\* The stages start with document_loading.
LEMMA FirstStage ==
  ASSUME NEW S \in SUBSET Stages, S # {}
  PROVE  /\ Min(S) \in S /\ Min(S) \in 1..N
         /\ \A x \in S : Min(S) <= x
<1>1. S \in SUBSET Nat
  BY DEF Stages
<1>2. Min(S) \in S /\ \A x \in S : Min(S) <= x
  BY <1>1, MinIn
<1> QED
  BY <1>2 DEF Stages

\* The largest of a set of stages is one of them and above the others.
LEMMA MaxIn ==
  ASSUME NEW S \in SUBSET Stages, S # {}
  PROVE  Max(S) \in S /\ \A x \in S : x <= Max(S)
<1> USE StagesAssumption DEF Stages
<1> DEFINE T == {N - s : s \in S}
<1>1. T \in SUBSET Nat /\ T # {}
  <2>1. \A s \in S : N - s \in Nat
    OBVIOUS
  <2>2. PICK s \in S : TRUE
    OBVIOUS
  <2>3. N - s \in T
    BY <2>2
  <2> QED
    BY <2>1, <2>3
<1>2. Min(T) \in T /\ \A x \in T : Min(T) <= x
  <2> HIDE DEF T
  <2> QED
    BY <1>1, MinIn
<1>3. PICK m \in S : Min(T) = N - m
  BY <1>2
<1>4. \A s \in S : m >= s
  <2> TAKE s \in S
  <2>1. N - s \in T
    OBVIOUS
  <2>2. N - m <= N - s
    BY <1>2, <1>3, <2>1
  <2> QED
    BY <2>2
<1> QED
  BY <1>4 DEF Max

-----------------------------------------------------------------------------
(* Saves of the metadata.                                                  *)

\* A save keeps the delta, and every result the run has.
LEMMA SaveKeeps ==
  ASSUME NEW c, save_pipeline_metadata(c),
         {"res", "failed", "delta", "out"} \subseteq DOMAIN c, DOMAIN c.res = Stages,
         "meta" \in DOMAIN disk
  PROVE  /\ ctx'.delta = c.delta /\ disk'.meta.delta = c.delta
         /\ disk'.meta.res = ctx'.res
         /\ c.res[Loading] # "none" => ctx'.res[Loading] = c.res[Loading]
         /\ ctx'.res[Loading] = "failed" => c.res[Loading] = "failed"
         /\ DOMAIN ctx'.res = Stages
         /\ DOMAIN ctx' = DOMAIN c /\ "meta" \in DOMAIN disk'
<1> DEFINE res == merge_persisted_stage_results(c)
           kept == {s \in Stages :
                      /\ disk.meta.res[s] = "completed"
                      /\ s <= rerunFrom'
                      /\ \A u \in 1..s : disk.meta.res[u] \in {"none", "completed"}}
<1>0. res = [s \in Stages |-> IF c.res[s] = "none" /\ s \in kept THEN "completed"
                             ELSE c.res[s]]
  BY Zenon DEF merge_persisted_stage_results
<1> HIDE DEF kept, res
<1>1. /\ DOMAIN res = Stages
      /\ \A s \in Stages : \/ res[s] = c.res[s]
                           \/ c.res[s] = "none" /\ res[s] = "completed"
  BY <1>0
<1>2. Loading \in Stages
  BY StagesAssumption DEF Loading, Stages
<1>3. ctx' = [c EXCEPT !.res = res]
      /\ disk' = [disk EXCEPT !.meta = [res |-> res, failed |-> c.failed, delta |-> c.delta]]
  BY DEF save_pipeline_metadata, res
<1> QED
  BY <1>1, <1>2, <1>3

\* document_loading and indexing are different stages.
LEMMA LoadingIsNotLast == Loading \in Stages /\ Loading # Indexing
BY StagesAssumption DEF Loading, Indexing, Stages

-----------------------------------------------------------------------------
(* The start of a run.                                                     *)

\* The stage a resume starts at is a stage, or the end.
LEMMA StrategyTyped ==
  ASSUME NEW d, NEW w \in SUBSET Stages, NEW asked \in {0} \cup w,
         Recorded(d) # {}
  PROVE  determine_resume_strategy(d, w, asked).start \in 1..(N + 1)
<1> USE StagesAssumption
<1> DEFINE Typed(point) == point.start \in 1..(N + 1) /\ point.done \subseteq Stages
<1>1. CASE asked # 0
  BY <1>1 DEF determine_resume_strategy, handle_explicit_stage_resume, Stages
<1>2. CASE asked = 0
  <2> DEFINE auto == handle_auto_resume(d)
             backed == verify_completed_stages_against_cache(d, auto)
             run_ == rewind_to_unrun_stage(w, backed)
  <2>1. Typed(auto)
    <3> DEFINE unfinished == Recorded(d) \ RecordedCompleted(d)
    <3>1. Recorded(d) \subseteq Stages /\ RecordedCompleted(d) \subseteq Stages
      BY DEF Recorded, RecordedCompleted
    <3>2. CASE unfinished # {}
      <4>1. Min(unfinished) \in unfinished
        BY <3>1, <3>2, MinIn DEF Stages
      <4>2. auto = [start |-> Min(unfinished),
                    done |-> Before(RecordedCompleted(d), Min(unfinished))]
        BY <3>2 DEF handle_auto_resume
      <4> QED
        BY <3>1, <4>1, <4>2 DEF Before, Stages
    <3>3. CASE unfinished = {}
      <4>1. Max(Recorded(d)) \in Stages
        BY <3>1, MaxIn
      <4>2. auto = [start |-> IF Max(Recorded(d)) = Indexing THEN Max(Recorded(d))
                              ELSE Max(Recorded(d)) + 1,
                    done |-> RecordedCompleted(d)]
        BY <3>3 DEF handle_auto_resume
      <4> QED
        BY <3>1, <4>1, <4>2 DEF Stages
    <3> QED
      BY <3>2, <3>3
  <2>2. Typed(backed)
    <3> HIDE DEF auto
    <3>1. Unbacked(d, auto) \subseteq Stages
      BY <2>1 DEF Unbacked
    <3>2. CASE Unbacked(d, auto) = {}
      BY <2>1, <3>2 DEF verify_completed_stages_against_cache
    <3>3. CASE Unbacked(d, auto) # {}
      <4>1. Min(Unbacked(d, auto)) \in Stages
        BY <3>1, <3>3, MinIn DEF Stages
      <4> QED
        BY <2>1, <3>3, <4>1 DEF verify_completed_stages_against_cache, RewindTo, Before,
           Stages
    <3> QED
      BY <3>2, <3>3
  <2>3. Typed(run_)
    <3> HIDE DEF backed
    <3> DEFINE unrun == Before(w, backed.start) \ backed.done
    <3>1. unrun \subseteq Stages
      BY DEF Before
    <3>2. CASE unrun = {}
      BY <2>2, <3>2 DEF rewind_to_unrun_stage
    <3>3. CASE unrun # {}
      <4>1. Min(unrun) \in Stages
        BY <3>1, <3>3, MinIn DEF Stages
      <4>2. run_ = RewindTo(backed, Min(unrun))
        BY <3>3 DEF rewind_to_unrun_stage
      <4> HIDE DEF unrun, run_
      <4> QED
        BY <2>2, <4>1, <4>2 DEF RewindTo, Before, Stages
    <3> QED
      BY <3>2, <3>3
  <2> HIDE DEF run_
  <2>4. determine_resume_strategy(d, w, asked) = rewind_on_extraction_change(d, w, run_)
    BY <1>2 DEF determine_resume_strategy, run_
  <2> QED
    BY <2>3, <2>4 DEF rewind_on_extraction_change, RewindTo, Loading
<1> QED
  BY <1>1, <1>2

\* A run that starts at document_loading begins with it.
LEMMA StartsWithLoading ==
  ASSUME NEW w \in SUBSET Stages, Loading \in w
  PROVE  start_index(w, Loading) = [pc |-> "next", at |-> Loading]
<1> DEFINE left == {u \in w : u >= Loading}
<1> USE StagesAssumption
<1>1. left = w
  <2>1. \A u \in w : u \in Nat /\ u >= 1
    BY DEF Stages
  <2> QED
    BY <2>1 DEF Loading
<1>2. Min(w) = Loading
  BY FirstStage DEF Loading
<1> QED
  BY <1>1, <1>2 DEF start_index

\* A resume of a recorded delta that is let start either starts at
\* document_loading, which is enabled, or runs no stage on a stale delta.
LEMMA ResumeKeepsInv ==
  ASSUME Shape, NEW d, "meta" \in DOMAIN d, DeltaRecorded(d.meta),
         NEW w \in SUBSET Stages, w # {}, NEW asked \in {0} \cup w,
         prepare_resume(d, w, asked), UNCHANGED registry
  PROVE  /\ {"res", "failed", "delta", "out"} \subseteq DOMAIN ctx'
         /\ DOMAIN ctx'.res = Stages
         /\ {"pc", "at"} \subseteq DOMAIN run'
         /\ run'.pc # "idle" => Resumed'
<1> DEFINE asks == determine_resume_strategy(d, w, asked)
           rewound == rewind_to_failed_stage(d, w, asked, asks)
           point == rewind_on_stale_delta(d, w, rewound)
           refused == \/ refuses_unbacked(d, asked)
                      \/ ~check_upstream_complete(d, w, asks)
                      \/ refuses_rerun_of_unrun_failures(d, w, asked, asks)
                      \/ delta_is_stale(d, w, rewound) /\ Loading \notin w
<1>1. CASE refused
  <2>1. run' = Idle("refused") /\ UNCHANGED ctx
    BY <1>1 DEF prepare_resume
  <2> QED
    BY <2>1 DEF Idle, NoRun, Shape
<1>2. CASE ~refused
  <2>1. /\ ctx' = restore_pipeline_context(d, w, point)
        /\ run'.pc = start_index(w, point.start).pc
        /\ run'.at = start_index(w, point.start).at
        /\ {"pc", "at"} \subseteq DOMAIN run'
    BY <1>2 DEF prepare_resume, StartAt
  <2>2. /\ check_upstream_complete(d, w, asks)
        /\ ~(delta_is_stale(d, w, rewound) /\ Loading \notin w)
    BY <1>2
  <2> HIDE DEF asks, rewound, point, refused
  <2>3. /\ ctx'.delta = d.meta.delta
        /\ ctx'.res = [s \in Stages |-> IF s < point.start THEN d.meta.res[s] ELSE "none"]
        /\ {"res", "failed", "delta", "out"} \subseteq DOMAIN ctx'
    BY <2>1 DEF restore_pipeline_context
  <2>4. run'.pc \in {"next", "finish"}
    BY <2>1 DEF start_index
  <2>5. SUFFICES ASSUME d.meta.delta # NoDelta PROVE Resumed'
    BY <2>1, <2>3, <2>4 DEF Resumed, Stale, IndexingRuns
  <2>6. Loading \in Recorded(d)
    BY <2>5, LoadingIsNotLast DEF DeltaRecorded, Recorded
  <2>7. asks.start \in 1..(N + 1)
    BY <2>6, StrategyTyped DEF asks
  <2>8. asks.start = Loading => Loading \in w
    <3>1. Min(w) \in w /\ Min(w) \in 1..N
      BY FirstStage
    <3> QED
      BY <2>2, <2>6, <3>1, StagesAssumption DEF check_upstream_complete, Loading
  <2>9. rewound.start \in 1..(N + 1) /\ (rewound.start = Loading => Loading \in w)
    <3> DEFINE failed == FailedBefore(d, w, asks)
    <3>1. failed \subseteq w
      BY DEF FailedBefore, Before
    <3>2. CASE failed = {}
      BY <2>7, <2>8, <3>2 DEF rewound, rewind_to_failed_stage
    <3>3. CASE failed # {}
      <4>1. Min(failed) \in w /\ Min(failed) \in 1..N
        <5>1. failed \in SUBSET Stages
          BY <3>1
        <5> HIDE DEF failed
        <5> QED
          BY <3>1, <3>3, <5>1, FirstStage
      <4>2. rewound = IF asked # 0 THEN asks ELSE RewindTo(asks, Min(failed))
        BY <3>3 DEF rewound, rewind_to_failed_stage
      <4> HIDE DEF failed
      <4> QED
        BY <2>7, <2>8, <4>1, <4>2, StagesAssumption DEF RewindTo
    <3> QED
      BY <3>2, <3>3
  <2>10. CASE delta_is_stale(d, w, rewound) \/ rewound.start = Loading
    <3>1. Loading \in w
      BY <2>2, <2>9, <2>10
    <3>2. point.start = Loading
      BY <2>10 DEF point, rewind_on_stale_delta, RewindTo
    <3>3. run'.pc = "next" /\ run'.at = Loading
      BY <2>1, <3>1, <3>2, StartsWithLoading
    <3> QED
      BY <3>3 DEF Resumed, WillLoad, IndexingRuns
  <2>11. CASE ~delta_is_stale(d, w, rewound) /\ rewound.start # Loading
    <3>1. point = rewound
      BY <2>11 DEF point, rewind_on_stale_delta
    <3>2. point.start > Loading
      BY <2>9, <2>11, <3>1 DEF Loading
    <3>3. ctx'.res[Loading] # "none"
      BY <2>3, <2>5, <3>2, LoadingIsNotLast DEF DeltaRecorded
    <3>4. d.meta.delta[1] = registry \/ {u \in w : u >= point.start} = {}
      BY <2>5, <2>11, <3>1, <3>2 DEF delta_is_stale
    <3>5. d.meta.delta[1] = registry \/ run'.pc = "finish"
      BY <2>1, <3>4 DEF start_index
    <3> QED
      BY <2>3, <2>4, <3>3, <3>5 DEF Resumed, Stale, PastStages, IndexingRuns
  <2> QED
    BY <2>10, <2>11
<1> QED
  BY <1>1, <1>2

-----------------------------------------------------------------------------
(* The steps.                                                              *)

\* The invariant holds at first.
LEMMA InitInv == Init => Inv
BY DEF Init, Inv, Shape, DeltaRecorded, NoCtx, NoCache, NoMeta, NoRun

\* A run that ends keeps nothing that the invariant speaks of but the disk.
LEMMA EndingKeepsInv ==
  ASSUME Inv, NEW end, run' = Idle(end), ProcessEnds,
         "meta" \in DOMAIN s3', DeltaRecorded(s3'.meta)
  PROVE  Inv'
<1>1. run'.pc = "idle" /\ {"pc", "at"} \subseteq DOMAIN run'
  BY DEF Idle, NoRun, Inv, Shape
<1>2. "meta" \in DOMAIN disk' /\ DeltaRecorded(disk'.meta)
  <2>1. CASE setup.synced
    BY <2>1 DEF ProcessEnds, NoCache, NoMeta, DeltaRecorded
  <2>2. CASE ~setup.synced
    BY <2>2 DEF ProcessEnds, Inv, Shape
  <2> QED
    BY <2>1, <2>2
<1>3. {"res", "failed", "delta", "out"} \subseteq DOMAIN ctx' /\ DOMAIN ctx'.res = Stages
  BY DEF ProcessEnds, NoCtx
<1> QED
  BY <1>1, <1>2, <1>3 DEF Inv, Shape

\* What an upload sends of the metadata is what the disk has.
LEMMA UploadKeepsCopy ==
  ASSUME Inv,
         \/ UNCHANGED s3
         \/ \E data, index, meta : Sent(data, index, meta)
  PROVE  "meta" \in DOMAIN s3' /\ DeltaRecorded(s3'.meta)
<1>1. CASE UNCHANGED s3
  BY <1>1 DEF Inv, Shape
<1>2. CASE \E data, index, meta : Sent(data, index, meta)
  <2>1. PICK data, index, meta : Sent(data, index, meta)
    BY <1>2
  <2>2. "meta" \in DOMAIN s3' /\ s3'.meta = IF meta THEN disk.meta ELSE s3.meta
    BY <2>1 DEF Sent
  <2>3. s3'.meta = disk.meta \/ s3'.meta = s3.meta
    BY <2>2
  <2> QED
    BY <2>2, <2>3 DEF Inv
<1> QED
  BY <1>1, <1>2

\* So it is with whatever part of an upload is made.
LEMMA UploadsKeepCopy ==
  ASSUME Inv, sync_pipeline_to_s3 \/ SyncFails
  PROVE  "meta" \in DOMAIN s3' /\ DeltaRecorded(s3'.meta)
BY UploadKeepsCopy DEF sync_pipeline_to_s3, SyncFails

\* A step within a run that writes neither metadata nor context.
LEMMA QuietStepKeepsInv ==
  ASSUME Inv, run.pc # "idle", UNCHANGED <<registry, ctx>>,
         "meta" \in DOMAIN disk', disk'.meta = disk.meta,
         "meta" \in DOMAIN s3', DeltaRecorded(s3'.meta),
         {"pc", "at"} \subseteq DOMAIN run',
         \/ run'.pc \in {"index", "upload"} /\ run.pc \in {"data", "index"}
         \/ run'.pc = "next" /\ run.pc = "upload"
         \/ run'.pc = "finish" /\ run.pc = "upload"
         \/ run'.pc = "stopping"
         \/ run'.pc = run.pc /\ run'.at = run.at
  PROVE  Inv'
BY DEF Inv, Shape, Resumed, Stale, WillLoad, PastStages, IndexingRuns, DeltaRecorded

\* A run that starts, afresh or to resume.
LEMMA StartKeepsInv == Inv /\ Start => Inv'
<1> SUFFICES ASSUME Inv, Start PROVE Inv'
  OBVIOUS
<1>0. PICK w \in Windows :
        \E asked \in {0} \cup w, force \in BOOLEAN : run_leased(w, asked, force)
  BY DEF Start
<1>1. PICK asked \in {0} \cup w, force \in BOOLEAN : run_leased(w, asked, force)
  BY <1>0
<1>2. w \in SUBSET Stages /\ w # {}
  BY WindowsAssumption DEF Stages
<1> DEFINE d == sync_pipeline_from_s3
<1>3. "meta" \in DOMAIN d /\ DeltaRecorded(d.meta)
  BY DEF sync_pipeline_from_s3, Inv, Shape
<1>4. disk' = d /\ UNCHANGED <<registry, s3>>
  BY <1>1 DEF run_leased, Start
<1> HIDE DEF d
<1>5. CASE force \/ d.meta = NoMeta
  <2>1. ctx' = NoCtx /\ {"pc", "at"} \subseteq DOMAIN run' /\ run'.pc \in {"next", "finish"}
    BY <1>1, <1>5 DEF run_leased, StartAt, start_index, d
  <2> QED
    BY <1>3, <1>4, <2>1 DEF Inv, Shape, NoCtx, Resumed, Stale, IndexingRuns
<1>6. CASE ~(force \/ d.meta = NoMeta)
  <2>1. prepare_resume(d, w, asked)
    BY <1>1, <1>6 DEF run_leased, d
  <2>2. Shape
    BY DEF Inv
  <2>3. /\ {"res", "failed", "delta", "out"} \subseteq DOMAIN ctx'
        /\ DOMAIN ctx'.res = Stages
        /\ {"pc", "at"} \subseteq DOMAIN run'
        /\ run'.pc # "idle" => Resumed'
    BY <1>2, <1>3, <1>4, <2>1, <2>2, ResumeKeepsInv
  <2> QED
    BY <1>3, <1>4, <2>3 DEF Inv, Shape
<1> QED
  BY <1>5, <1>6

\* A stage that begins.
LEMMA BeginKeepsInv == Inv /\ Begin => Inv'
<1> SUFFICES ASSUME Inv, Begin PROVE Inv'
  OBVIOUS
<1> DEFINE c == [ctx EXCEPT !.failed = @ \ {run.at}]
           blocked == failed_corpus_stage(c, run.at)
           saved == [c EXCEPT !.res[run.at] = IF blocked THEN "failed" ELSE "running"]
<1>1. /\ save_pipeline_metadata(saved)
      /\ run' = Go(IF blocked THEN "upload" ELSE "run")
      /\ run.pc = "next" /\ UNCHANGED <<registry, s3>>
  BY DEF Begin
<1>2. /\ DOMAIN saved = DOMAIN ctx /\ DOMAIN saved.res = Stages
      /\ saved.delta = ctx.delta
      /\ saved.res = [ctx.res EXCEPT ![run.at] = IF blocked THEN "failed" ELSE "running"]
  BY DEF Inv, Shape
<1>3. blocked <=> run.at = Indexing /\ ctx.res[Loading] = "failed"
  BY DEF failed_corpus_stage, Inv, Shape
<1> HIDE DEF c, blocked, saved
<1>4. /\ ctx'.delta = ctx.delta /\ disk'.meta.delta = ctx.delta
      /\ disk'.meta.res = ctx'.res
      /\ saved.res[Loading] # "none" => ctx'.res[Loading] = saved.res[Loading]
      /\ ctx'.res[Loading] = "failed" => saved.res[Loading] = "failed"
      /\ DOMAIN ctx'.res = Stages
      /\ DOMAIN ctx' = DOMAIN ctx /\ "meta" \in DOMAIN disk'
  BY <1>1, <1>2, SaveKeeps DEF Inv, Shape
<1>5. /\ run.at = Loading => saved.res[Loading] = "running"
      /\ run.at # Loading => saved.res[Loading] = ctx.res[Loading]
  BY <1>2, <1>3, LoadingIsNotLast DEF Inv, Shape
<1>6. /\ run'.pc = IF blocked THEN "upload" ELSE "run"
      /\ run'.at = run.at /\ {"pc", "at"} \subseteq DOMAIN run'
  BY <1>1 DEF Go, Inv, Shape
<1>7. Resumed
  BY <1>1 DEF Inv
<1>8. ctx.delta # NoDelta => ctx'.res[Loading] # "none"
  BY <1>1, <1>4, <1>5, <1>7 DEF Resumed
<1>9. Resumed'
  BY <1>1, <1>3, <1>4, <1>5, <1>6, <1>7, <1>8, LoadingIsNotLast
     DEF Resumed, Stale, WillLoad, PastStages, IndexingRuns
<1> QED
  BY <1>1, <1>4, <1>6, <1>8, <1>9 DEF Inv, Shape, DeltaRecorded

\* A stage that completes and saves its checkpoint.
LEMMA CompleteKeepsInv == \A part \in BOOLEAN : Inv /\ Complete(part) => Inv'
<1> SUFFICES ASSUME NEW part \in BOOLEAN, Inv, Complete(part) PROVE Inv'
  OBVIOUS
<1> DEFINE saved == [ctx EXCEPT !.res[run.at] = "completed",
                                !.failed = IF part THEN @ \cup {run.at} ELSE @,
                                !.delta = ComputedDelta(run.at),
                                !.out = [s \in Cached |-> IF s = run.at THEN Produced(s, part)
                                                          ELSE @[s]]]
<1>1. /\ save_pipeline_metadata(saved)
      /\ run' = [Go(IF run.at \in Cached THEN "data" ELSE "upload")
                   EXCEPT !.done = @ \cup {run.at}]
      /\ run.pc = "run" /\ UNCHANGED <<registry, s3>>
  BY DEF Complete
<1>2. /\ DOMAIN saved = DOMAIN ctx /\ DOMAIN saved.res = Stages
      /\ saved.delta = ComputedDelta(run.at)
      /\ saved.res = [ctx.res EXCEPT ![run.at] = "completed"]
  BY DEF Inv, Shape
<1> HIDE DEF saved
<1>3. /\ ctx'.delta = saved.delta /\ disk'.meta.delta = saved.delta
      /\ disk'.meta.res = ctx'.res
      /\ saved.res[Loading] # "none" => ctx'.res[Loading] = saved.res[Loading]
      /\ DOMAIN ctx'.res = Stages
      /\ DOMAIN ctx' = DOMAIN ctx /\ "meta" \in DOMAIN disk'
  BY <1>1, <1>2, SaveKeeps DEF Inv, Shape
<1>4. run'.pc \in {"data", "upload"} /\ {"pc", "at"} \subseteq DOMAIN run'
  BY <1>1 DEF Go, Inv, Shape
<1>5. Resumed
  BY <1>1 DEF Inv
<1>6. CASE run.at = Loading
  <2>1. saved.delta[1] = registry /\ saved.res[Loading] = "completed"
    BY <1>2, <1>6, LoadingIsNotLast DEF ComputedDelta, Delta, Inv, Shape
  <2> QED
    BY <1>1, <1>3, <1>4, <2>1
       DEF Inv, Shape, Resumed, Stale, IndexingRuns, DeltaRecorded
<1>7. CASE run.at # Loading
  <2>1. saved.delta = ctx.delta /\ saved.res[Loading] = ctx.res[Loading]
    BY <1>2, <1>7, LoadingIsNotLast DEF ComputedDelta, Inv, Shape
  <2>2. /\ ctx.delta # NoDelta => ctx.res[Loading] # "none"
        /\ Stale => ctx.res[Loading] = "failed"
    BY <1>1, <1>5, <1>7 DEF Resumed, WillLoad, PastStages
  <2> QED
    BY <1>1, <1>3, <1>4, <2>1, <2>2
       DEF Inv, Shape, Resumed, Stale, IndexingRuns, DeltaRecorded
<1> QED
  BY <1>6, <1>7

\* A stage that fails.
LEMMA FailKeepsInv == Inv /\ Fail => Inv'
<1> SUFFICES ASSUME Inv, Fail PROVE Inv'
  OBVIOUS
<1> DEFINE saved == [ctx EXCEPT !.res[run.at] = "failed",
                                !.failed = mark_units_failed(@, run.at)]
<1>1. /\ save_pipeline_metadata(saved)
      /\ run' = [Go("upload") EXCEPT !.kept = FALSE]
      /\ run.pc = "run" /\ UNCHANGED <<registry, s3>>
  BY DEF Fail
<1>2. /\ DOMAIN saved = DOMAIN ctx /\ DOMAIN saved.res = Stages
      /\ saved.delta = ctx.delta
      /\ saved.res = [ctx.res EXCEPT ![run.at] = "failed"]
  BY DEF Inv, Shape
<1> HIDE DEF saved
<1>3. /\ ctx'.delta = ctx.delta /\ disk'.meta.delta = ctx.delta
      /\ disk'.meta.res = ctx'.res
      /\ saved.res[Loading] # "none" => ctx'.res[Loading] = saved.res[Loading]
      /\ DOMAIN ctx'.res = Stages
      /\ DOMAIN ctx' = DOMAIN ctx /\ "meta" \in DOMAIN disk'
  BY <1>1, <1>2, SaveKeeps DEF Inv, Shape
<1>4. run'.pc = "upload" /\ {"pc", "at"} \subseteq DOMAIN run'
  BY <1>1 DEF Go, Inv, Shape
<1>5. /\ ctx.delta # NoDelta => saved.res[Loading] # "none"
      /\ Stale => saved.res[Loading] = "failed"
  BY <1>1, <1>2, LoadingIsNotLast DEF Inv, Shape, Resumed, WillLoad, PastStages
<1> QED
  BY <1>1, <1>3, <1>4, <1>5 DEF Inv, Shape, Resumed, Stale, IndexingRuns, DeltaRecorded

\* A run that has no stage left.
LEMMA FinalizeKeepsInv == Inv /\ Finalize => Inv'
<1> SUFFICES ASSUME Inv, Finalize PROVE Inv'
  OBVIOUS
<1>1. /\ save_pipeline_metadata(ctx) /\ run' = Go("last upload")
      /\ run.pc = "finish" /\ UNCHANGED <<registry, s3>>
  BY DEF Finalize
<1>2. /\ ctx'.delta = ctx.delta /\ disk'.meta.delta = ctx.delta
      /\ disk'.meta.res = ctx'.res
      /\ ctx.res[Loading] # "none" => ctx'.res[Loading] = ctx.res[Loading]
      /\ DOMAIN ctx'.res = Stages
      /\ DOMAIN ctx' = DOMAIN ctx /\ "meta" \in DOMAIN disk'
  BY <1>1, SaveKeeps DEF Inv, Shape
<1>3. run'.pc = "last upload" /\ {"pc", "at"} \subseteq DOMAIN run'
  BY <1>1 DEF Go, Inv, Shape
<1>4. ctx.delta # NoDelta => ctx.res[Loading] # "none"
  BY <1>1 DEF Inv, Resumed
<1> QED
  BY <1>1, <1>2, <1>3, <1>4
     DEF Inv, Shape, Resumed, Stale, PastStages, IndexingRuns, DeltaRecorded

LEMMA Invariance == Inv /\ [Next]_vars => Inv'
<1> SUFFICES ASSUME Inv, [Next]_vars PROVE Inv'
  OBVIOUS
<1>1. CASE Reconfigure \/ OtherRun
  <2>1. /\ run'.pc = "idle" /\ {"pc", "at"} \subseteq DOMAIN run'
        /\ UNCHANGED <<disk, s3, ctx>>
    BY <1>1 DEF Reconfigure, OtherRun, Idle, NoRun, Inv, Shape
  <2> QED
    BY <2>1 DEF Inv, Shape, DeltaRecorded
<1>2. CASE Start
  BY <1>2, StartKeepsInv
<1>3. CASE Begin
  BY <1>3, BeginKeepsInv
<1>4. CASE \E part \in BOOLEAN : Complete(part)
  BY <1>4, CompleteKeepsInv
<1>5. CASE Fail
  BY <1>5, FailKeepsInv
<1>6. CASE SaveData \/ SaveIndex
  <2>1. /\ run.pc \in {"data", "index"} /\ UNCHANGED <<registry, ctx, s3>>
        /\ run'.pc \in {"index", "upload", "stopping"}
        /\ {"pc", "at"} \subseteq DOMAIN run'
    BY <1>6 DEF SaveData, SaveIndex, Checkpointed, Go, Inv, Shape
  <2>2. "meta" \in DOMAIN disk' /\ disk'.meta = disk.meta
    BY <1>6 DEF SaveData, SaveIndex, Inv, Shape
  <2>3. "meta" \in DOMAIN s3' /\ DeltaRecorded(s3'.meta)
    BY <2>1 DEF Inv, Shape
  <2> QED
    BY <2>1, <2>2, <2>3, QuietStepKeepsInv
<1>7. CASE UploadCheckpoint
  <2>1. "meta" \in DOMAIN s3' /\ DeltaRecorded(s3'.meta)
    BY <1>7, UploadsKeepCopy DEF UploadCheckpoint
  <2>2. /\ run.pc = "upload" /\ UNCHANGED <<registry, ctx, disk>>
        /\ run'.pc \in {"stopping", "finish", "next"}
        /\ {"pc", "at"} \subseteq DOMAIN run'
    BY <1>7 DEF UploadCheckpoint, start_index, Go, Inv, Shape
  <2>3. "meta" \in DOMAIN disk' /\ disk'.meta = disk.meta
    BY <2>2 DEF Inv, Shape
  <2> QED
    BY <2>1, <2>2, <2>3, QuietStepKeepsInv
<1>8. CASE Finalize
  BY <1>8, FinalizeKeepsInv
<1>9. CASE LastUpload
  <2>1. "meta" \in DOMAIN s3' /\ DeltaRecorded(s3'.meta)
    BY <1>9, UploadsKeepCopy DEF LastUpload
  <2>2. ProcessEnds /\ \E end : run' = Idle(end)
    BY <1>9 DEF LastUpload
  <2> QED
    BY <2>1, <2>2, EndingKeepsInv
<1>10. CASE request_stop
  <2>1. /\ run.pc # "idle" /\ UNCHANGED <<registry, ctx, disk, s3>>
        /\ {"pc", "at"} \subseteq DOMAIN run'
        /\ run'.pc = "stopping" \/ run' = run
    BY <1>10 DEF request_stop, Go, Inv, Shape
  <2>2. /\ "meta" \in DOMAIN disk' /\ disk'.meta = disk.meta
        /\ "meta" \in DOMAIN s3' /\ DeltaRecorded(s3'.meta)
    BY <2>1 DEF Inv, Shape
  <2> QED
    BY <2>1, <2>2, QuietStepKeepsInv
<1>11. CASE CheckpointOnStop
  <2>1. "meta" \in DOMAIN s3' /\ DeltaRecorded(s3'.meta)
    BY <1>11, UploadsKeepCopy DEF CheckpointOnStop
  <2>2. ProcessEnds /\ \E end : run' = Idle(end)
    BY <1>11 DEF CheckpointOnStop
  <2> QED
    BY <2>1, <2>2, EndingKeepsInv
<1>12. CASE Kill
  <2>1. "meta" \in DOMAIN s3' /\ DeltaRecorded(s3'.meta)
    BY <1>12, UploadKeepsCopy DEF Kill
  <2>2. ProcessEnds /\ run' = Idle("killed")
    BY <1>12 DEF Kill
  <2> QED
    BY <2>1, <2>2, EndingKeepsInv
<1>13. CASE UNCHANGED vars
  BY <1>13 DEF vars, Inv, Shape, DeltaRecorded, Resumed, Stale, WillLoad, PastStages,
     IndexingRuns
<1> QED
  BY <1>1, <1>2, <1>3, <1>4, <1>5, <1>6, <1>7, <1>8, <1>9, <1>10, <1>11, <1>12, <1>13
     DEF Next

-----------------------------------------------------------------------------

\* The delta that indexing commits was computed from the registry as it is,
\* whatever was resumed, rewound, stopped, killed or uploaded in part before
\* (resume.py delta_is_stale, rewind_on_stale_delta; pipeline.py
\* failed_corpus_stage).
THEOREM CommittedDeltaIsFresh == Spec => []DeltaFresh
<1>1. Inv => DeltaFresh
  BY LoadingIsNotLast
     DEF Inv, Resumed, Stale, WillLoad, PastStages, IndexingRuns, DeltaFresh
<1> QED
  BY <1>1, InitInv, Invariance, PTL DEF Spec

-----------------------------------------------------------------------------
(* Types.                                                                  *)

Statuses == {"none", "running", "completed", "failed"}
Cuts == UNION {[1..n -> Contents] : n \in Nat}
Output == [id : Contents, ins : Cuts, part : BOOLEAN]
Checkpoint == [data : [Keys -> Output], index : [Keys -> Contents], meta : Metas]
Context == [res : [Stages -> Statuses], failed : SUBSET Artifact,
            delta : {NoDelta} \cup Deltas, out : [Cached -> Output]]

AtStage == {"next", "run", "data", "index", "upload"}
Points == {"idle", "finish", "last upload", "stopping"} \cup AtStage
Run == [pc : Points, at : 0..N, win : SUBSET Stages, by : {"new", "auto", "asked"},
        end : {"none", "refused", "stopped", "failed", "completed", "killed"},
        done : SUBSET Stages, kept : BOOLEAN]

\* The stages a run has still to execute.
Left == IF run.pc \in {"next", "run"} THEN N + 1 - run.at
        ELSE IF run.pc \in AtStage THEN N - run.at ELSE 0

Typed ==
    /\ setup \in Setups
    /\ conf \in [Cached -> Confs]
    /\ registry \in Nat /\ registry <= counts.changes
    /\ disk \in Checkpoint /\ s3 \in Checkpoint /\ ctx \in Context
    /\ rerunFrom \in 1..(N + 1)
    /\ run \in Run
    /\ run.pc \in AtStage => run.at \in Stages
    /\ run.pc \in {"data", "index"} => run.at \in Cached
    /\ counts \in [runs : 0..MaxRuns, faults : Nat, changes : 0..MaxChanges]
    /\ serial \in Nat /\ serial + Left <= counts.runs * N

LEMMA Constants ==
  /\ N \in Nat /\ N >= 3
  /\ Cached \subseteq Stages /\ Loading \in Cached /\ Extraction \in Cached
  /\ Artifact \subseteq Cached /\ Indexing \in Stages /\ Indexing \notin Cached
  /\ Stages \subseteq Nat
  /\ Confs \subseteq Nat
BY StagesAssumption, ConfsAssumption
   DEF Cached, Stages, Loading, Extraction, Artifact, Indexing

LEMMA NothingTyped ==
  /\ NoOutput \in Output /\ NoContent \in Contents
  /\ NoMeta \in Metas /\ NoCache \in Checkpoint /\ NoCtx \in Context /\ NoRun \in Run
<1>1. NoContent \in Contents
  BY DEF Contents
<1>2. <<>> \in Cuts
  <2>1. <<>> \in [1..0 -> Contents]
    OBVIOUS
  <2> QED
    BY <2>1 DEF Cuts
<1>3. NoOutput \in Output
  BY <1>1, <1>2 DEF NoOutput, Output
<1>4. NoMeta \in Metas
  BY DEF NoMeta, Metas
<1>5. NoCache \in Checkpoint
  BY <1>1, <1>3, <1>4 DEF NoCache, Checkpoint
<1>6. NoCtx \in Context
  BY <1>3 DEF NoCtx, Context, Statuses
<1>7. NoRun \in Run
  BY Constants DEF NoRun, Run, Points
<1> QED
  BY <1>1, <1>3, <1>4, <1>5, <1>6, <1>7

\* What has a type keeps it when the registry and the executions move on.
LEMMA TypesGrow ==
  ASSUME registry \in Nat, registry' \in Nat, registry <= registry',
         serial \in Nat, serial' \in Nat, serial <= serial'
  PROVE  /\ Contents \subseteq Contents' /\ Deltas \subseteq Deltas'
         /\ Output \subseteq Output'
         /\ Checkpoint \subseteq Checkpoint' /\ Context \subseteq Context'
<1>1. Deltas \subseteq Deltas'
  <2>1. 0..registry \subseteq 0..registry'
    OBVIOUS
  <2> QED
    BY <2>1 DEF Deltas
<1>2. Contents \subseteq Contents'
  <2>1. 1..serial \subseteq 1..serial'
    OBVIOUS
  <2> QED
    BY <1>1, <2>1 DEF Contents
<1>3. Output \subseteq Output'
  <2>1. Cuts \subseteq Cuts'
    BY <1>2 DEF Cuts
  <2> QED
    BY <1>2, <2>1 DEF Output
<1>4. Metas \subseteq Metas'
  BY <1>1 DEF Metas
<1>5. Checkpoint \subseteq Checkpoint'
  BY <1>2, <1>3, <1>4 DEF Checkpoint
<1>6. Context \subseteq Context'
  BY <1>1, <1>3 DEF Context
<1> QED
  BY <1>1, <1>2, <1>3, <1>5, <1>6

LEMMA KeyTyped ==
  ASSUME conf \in [Cached -> Confs], NEW s \in Cached
  PROVE  stage_cache_key(s) \in Keys
<1>1. 1..s \subseteq Cached
  BY Constants DEF Cached
<1>2. stage_cache_key(s) \in [1..s -> Confs]
  BY <1>1 DEF stage_cache_key
<1> QED
  BY <1>2 DEF Keys

LEMMA LoadTyped ==
  ASSUME Typed, NEW d \in Checkpoint, NEW s \in Cached
  PROVE  load_stage_result(d, s) \in Output
BY KeyTyped, NothingTyped DEF Typed, Checkpoint, load_stage_result

\* The first stage enabled from a stage on, if any.
LEMMA StartIndexTyped ==
  ASSUME NEW w \in SUBSET Stages, NEW s \in Nat
  PROVE  LET i == start_index(w, s) IN
         \/ i = [pc |-> "finish", at |-> 0] /\ \A u \in w : u < s
         \/ /\ i.pc = "next" /\ i.at \in w /\ i.at >= s
            /\ \A u \in w : u >= s => u >= i.at
            /\ i = [pc |-> "next", at |-> i.at]
<1> DEFINE left == {u \in w : u >= s}
<1>0. w \subseteq Nat
  BY Constants
<1>1. CASE left = {}
  <2>1. start_index(w, s) = [pc |-> "finish", at |-> 0]
    BY <1>1 DEF start_index
  <2>2. \A u \in w : u < s
    BY <1>0, <1>1
  <2> QED
    BY <2>1, <2>2
<1>2. CASE left # {}
  <2>1. Min(left) \in left /\ \A u \in left : Min(left) <= u
    BY <1>0, <1>2, MinIn
  <2>2. start_index(w, s) = [pc |-> "next", at |-> Min(left)]
    BY <1>2 DEF start_index
  <2> HIDE DEF left
  <2>3. Min(left) \in w /\ Min(left) >= s
    BY <2>1 DEF left
  <2>4. \A u \in w : u >= s => u >= Min(left)
    BY <2>1, <1>0, <2>3 DEF left
  <2> QED
    BY <2>2, <2>3, <2>4
<1> QED
  BY <1>1, <1>2

\* A save of a typed context.
LEMMA SaveTyped ==
  ASSUME NEW c \in Context', save_pipeline_metadata(c), disk \in Checkpoint'
  PROVE  ctx' \in Context' /\ disk' \in Checkpoint'
<1> DEFINE res == merge_persisted_stage_results(c)
           kept == {s \in Stages :
                      /\ disk.meta.res[s] = "completed"
                      /\ s <= rerunFrom'
                      /\ \A u \in 1..s : disk.meta.res[u] \in {"none", "completed"}}
<1>0. res = [s \in Stages |-> IF c.res[s] = "none" /\ s \in kept THEN "completed"
                             ELSE c.res[s]]
  BY Zenon DEF merge_persisted_stage_results
<1> HIDE DEF kept, res
<1>1. res \in [Stages -> Statuses]
  BY <1>0 DEF Context, Statuses
<1>2. ctx' = [c EXCEPT !.res = res]
      /\ disk' = [disk EXCEPT !.meta = [res |-> res, failed |-> c.failed, delta |-> c.delta]]
  BY DEF save_pipeline_metadata, res
<1>3. [res |-> res, failed |-> c.failed, delta |-> c.delta] \in Metas'
  BY <1>1 DEF Context, Metas, Statuses
<1>4. ctx' \in Context'
  BY <1>1, <1>2 DEF Context
<1> QED
  BY <1>2, <1>3, <1>4 DEF Checkpoint

LEMMA InitTyped == Init => Typed
<1> SUFFICES ASSUME Init PROVE Typed
  OBVIOUS
<1>1. Min(Confs) \in Confs
  BY ConfsAssumption, MinIn
<1>2. conf \in [Cached -> Confs]
  BY <1>1 DEF Init
<1>3. counts \in [runs : 0..MaxRuns, faults : Nat, changes : 0..MaxChanges]
  BY BoundAssumption DEF Init
<1>4. serial + Left <= counts.runs * N
  BY Constants DEF Init, Left, NoRun, AtStage
<1> QED
  BY <1>2, <1>3, <1>4, NothingTyped, Constants DEF Init, Typed, NoRun, AtStage

\* What a resume restores.
LEMMA RestoredTyped ==
  ASSUME Typed, NEW d \in Checkpoint, NEW w, NEW point
  PROVE  restore_pipeline_context(d, w, point) \in Context
<1> DEFINE c == restore_pipeline_context(d, w, point)
<1>1. d.meta \in Metas
  BY DEF Checkpoint
<1>2. [s \in Stages |-> IF s < point.start THEN d.meta.res[s] ELSE "none"]
        \in [Stages -> Statuses]
  BY <1>1 DEF Metas, Statuses
<1>3. drop_unrun_failures(d, w, point) \in SUBSET Artifact
  BY <1>1 DEF drop_unrun_failures, Before, Metas
<1>4. [s \in Cached |-> IF s \in point.done THEN load_stage_result(d, s) ELSE NoOutput]
        \in [Cached -> Output]
  BY LoadTyped, NothingTyped
<1>5. d.meta.delta \in {NoDelta} \cup Deltas
  BY <1>1 DEF Metas
<1> QED
  BY <1>2, <1>3, <1>4, <1>5 DEF restore_pipeline_context, Context

LEMMA StartAtTyped ==
  ASSUME NEW w \in SUBSET Stages, NEW s, NEW by \in {"new", "auto", "asked"},
         StartAt(w, s, by)
  PROVE  /\ run' \in Run /\ run'.win = w /\ run'.by = by
         /\ run'.pc = start_index(w, s).pc /\ run'.at = start_index(w, s).at
         /\ run'.pc = "finish" \/ (run'.pc = "next" /\ run'.at \in w)
<1> DEFINE i == start_index(w, s)
<1>1. \/ i = [pc |-> "finish", at |-> 0]
      \/ (i.pc = "next" /\ i.at \in w)
  <2> DEFINE left == {u \in w : u >= s}
  <2>1. left = {} => i = [pc |-> "finish", at |-> 0]
    BY DEF start_index
  <2>2. left # {} => i = [pc |-> "next", at |-> Min(left)] /\ Min(left) \in left
    <3>1. left # {} => Min(left) \in left
      BY Constants, MinIn
    <3> QED
      BY <3>1 DEF start_index
  <2> HIDE DEF i
  <2> QED
    BY <2>1, <2>2
<1>2. run' = [pc |-> i.pc, at |-> i.at, win |-> w, by |-> by, end |-> "none",
              done |-> {}, kept |-> TRUE]
  BY DEF StartAt
<1> HIDE DEF i
<1>3. (i.pc = "finish" /\ i.at = 0) \/ (i.pc = "next" /\ i.at \in w)
  BY <1>1
<1>4. i.at \in 0..N /\ i.pc \in Points
  <2>1. w \subseteq 0..N /\ 0 \in 0..N
    BY Constants DEF Stages
  <2>2. "finish" \in Points /\ "next" \in Points
    BY DEF Points, AtStage
  <2> QED
    BY <1>3, <2>1, <2>2
<1>5. run' \in Run
  BY <1>2, <1>4 DEF Run
<1> QED
  BY <1>2, <1>3, <1>5 DEF i

LEMMA IdleTyped ==
  ASSUME run \in Run,
         NEW end \in {"none", "refused", "stopped", "failed", "completed", "killed"}
  PROVE  Idle(end) \in Run /\ Idle(end).pc = "idle"
<1>1. "idle" \in Points /\ 0 \in 0..N
  BY Constants DEF Points
<1>2. [NoRun EXCEPT !.end = end] \in Run /\ [NoRun EXCEPT !.end = end].pc = "idle"
  <2>1. NoRun \in Run /\ NoRun.pc = "idle"
    BY NothingTyped DEF NoRun
  <2> QED
    BY <2>1 DEF Run
<1>3. /\ [run EXCEPT !.pc = "idle", !.at = 0, !.end = end] \in Run
      /\ [run EXCEPT !.pc = "idle", !.at = 0, !.end = end].pc = "idle"
  BY <1>1 DEF Run
<1> QED
  BY <1>2, <1>3 DEF Idle

LEMMA TypesStay ==
  ASSUME UNCHANGED <<registry, serial>>
  PROVE  /\ Contents' = Contents /\ Output' = Output
         /\ Checkpoint' = Checkpoint /\ Context' = Context
<1>1. Contents' = Contents /\ Deltas' = Deltas
  BY DEF Contents, Deltas
<1>2. Output' = Output
  BY <1>1 DEF Output, Cuts
<1> QED
  BY <1>1, <1>2 DEF Checkpoint, Context, Metas

\* A fault is counted; a step without one counts nothing.
LEMMA Counted ==
  ASSUME Typed, Fault \/ UNCHANGED counts
  PROVE  /\ counts' \in [runs : 0..MaxRuns, faults : Nat, changes : 0..MaxChanges]
         /\ counts'.runs = counts.runs /\ counts'.changes = counts.changes
BY DEF Typed, Fault, Count

\* A step of a run that leaves the settings and the registry alone and executes
\* no stage.
LEMMA RunStepTyped ==
  ASSUME Typed, UNCHANGED <<setup, conf, registry, serial>>,
         disk' \in Checkpoint, s3' \in Checkpoint, ctx' \in Context,
         rerunFrom' \in 1..(N + 1), run' \in Run,
         run'.pc \in AtStage => run'.at \in Stages,
         run'.pc \in {"data", "index"} => run'.at \in Cached,
         Left' <= Left, Left' \in Nat, Left \in Nat,
         Fault \/ UNCHANGED counts
  PROVE  Typed'
<1>1. serial' + Left' <= counts'.runs * N
  <2> DEFINE bound == counts.runs * N
  <2>1. bound \in Nat
    BY Constants DEF Typed
  <2>2. counts'.runs * N = bound
    BY Counted
  <2> HIDE DEF bound
  <2>3. serial + Left <= bound /\ serial \in Nat /\ serial' = serial
    BY DEF Typed, bound
  <2> QED
    BY <2>1, <2>2, <2>3
<1> QED
  BY <1>1, Counted, TypesStay DEF Typed

LEMMA LeftTyped ==
  ASSUME Typed
  PROVE  /\ Left \in Nat
         /\ run.pc \notin AtStage => Left = 0
         /\ run.pc \in {"next", "run"} => run.at \in 1..N /\ Left = N + 1 - run.at
         /\ run.pc \in {"data", "index", "upload"} => run.at \in 1..N /\ Left = N - run.at
BY Constants DEF Typed, Left, AtStage, Stages

LEMMA SentTyped ==
  ASSUME Typed, NEW data, NEW index \in BOOLEAN, NEW meta \in BOOLEAN,
         Sent(data, index, meta)
  PROVE  s3' \in Checkpoint
<1>1. [k \in Keys |-> IF k \in data THEN disk.data[k] ELSE s3.data[k]] \in [Keys -> Output]
  BY DEF Typed, Checkpoint
<1>2. (IF index THEN disk.index ELSE s3.index) \in [Keys -> Contents]
  BY DEF Typed, Checkpoint
<1>3. (IF meta THEN disk.meta ELSE s3.meta) \in Metas
  BY DEF Typed, Checkpoint
<1> QED
  BY <1>1, <1>2, <1>3 DEF Sent, Checkpoint

LEMMA SyncTyped ==
  ASSUME Typed, sync_pipeline_to_s3 \/ SyncFails
  PROVE  s3' \in Checkpoint /\ (Fault \/ UNCHANGED counts)
<1>1. CASE sync_pipeline_to_s3
  <2>1. CASE setup.synced
    BY <1>1, <2>1, SentTyped DEF sync_pipeline_to_s3
  <2>2. CASE ~setup.synced
    BY <1>1, <2>2 DEF sync_pipeline_to_s3, Typed
  <2> QED
    BY <1>1, <2>1, <2>2 DEF sync_pipeline_to_s3
<1>2. CASE SyncFails
  BY <1>2, SentTyped DEF SyncFails
<1> QED
  BY <1>1, <1>2

\* Two runs' worth of stages.
LEMMA OneRunMore ==
  ASSUME NEW n \in Nat
  PROVE  (n + 1) * N = n * N + N /\ n * N \in Nat
BY Constants

LEMMA StartTyped == Typed /\ Start => Typed'
<1> SUFFICES ASSUME Typed, Start PROVE Typed'
  OBVIOUS
<1>0. PICK w \in Windows :
        \E asked \in {0} \cup w, force \in BOOLEAN : run_leased(w, asked, force)
  BY DEF Start
<1>1. PICK asked \in {0} \cup w, force \in BOOLEAN : run_leased(w, asked, force)
  BY <1>0
<1>2. w \in SUBSET Stages
  BY WindowsAssumption DEF Stages
<1> DEFINE d == sync_pipeline_from_s3
<1>3. d \in Checkpoint /\ disk' = d
  BY <1>1 DEF sync_pipeline_from_s3, Typed, run_leased
<1>4. UNCHANGED <<setup, conf, registry, s3, rerunFrom, stop, serial, torn>>
      /\ run.pc = "idle" /\ Count("runs", MaxRuns)
  BY DEF Start
<1> HIDE DEF d
<1>5. /\ ctx' \in Context /\ run' \in Run
      /\ \/ run'.pc = "idle"
         \/ run'.pc = "finish"
         \/ run'.pc = "next" /\ run'.at \in w
  <2>1. CASE force \/ d.meta = NoMeta
    <3> DEFINE s == IF asked = 0 THEN Min(w) ELSE asked
    <3>1. ctx' = NoCtx /\ StartAt(w, s, "new")
      BY <1>1, <2>1 DEF run_leased, d
    <3> HIDE DEF s
    <3> QED
      BY <1>2, <3>1, StartAtTyped, NothingTyped
  <2>2. CASE ~(force \/ d.meta = NoMeta)
    <3> DEFINE asks == determine_resume_strategy(d, w, asked)
               rewound == rewind_to_failed_stage(d, w, asked, asks)
               point == rewind_on_stale_delta(d, w, rewound)
    <3>1. prepare_resume(d, w, asked)
      BY <1>1, <2>2 DEF run_leased, d
    <3>2. CASE run' = Idle("refused") /\ UNCHANGED ctx
      BY <3>2, IdleTyped DEF Typed
    <3>3. CASE ~(run' = Idle("refused") /\ UNCHANGED ctx)
      <4>1. /\ ctx' = restore_pipeline_context(d, w, point)
            /\ StartAt(w, point.start, IF asked = 0 THEN "auto" ELSE "asked")
        BY <3>1, <3>3 DEF prepare_resume
      <4> HIDE DEF point
      <4> QED
        BY <1>2, <1>3, <4>1, RestoredTyped, StartAtTyped
    <3> QED
      BY <3>2, <3>3
  <2> QED
    BY <2>1, <2>2
<1>6. /\ counts' \in [runs : 0..MaxRuns, faults : Nat, changes : 0..MaxChanges]
      /\ counts'.runs = counts.runs + 1 /\ counts'.changes = counts.changes
  BY <1>4, BoundAssumption DEF Count, Typed
<1>7. Left' \in 0..N
  <2>1. CASE run'.pc = "next" /\ run'.at \in w
    <3>1. run'.at \in 1..N /\ Left' = N + 1 - run'.at
      BY <1>2, <2>1 DEF Left, Stages
    <3> QED
      BY <3>1, Constants
  <2>2. CASE run'.pc \in {"idle", "finish"}
    <3>1. Left' = 0
      BY <2>2 DEF Left, AtStage
    <3> QED
      BY <3>1, Constants
  <2> QED
    BY <1>5, <2>1, <2>2
<1>8. serial' + Left' <= counts'.runs * N
  <2> DEFINE bound == counts.runs * N
  <2>1. bound \in Nat /\ counts'.runs * N = bound + N
    BY <1>6, OneRunMore DEF Typed
  <2>2. serial <= bound /\ serial \in Nat
    BY <1>4, LeftTyped DEF Typed, AtStage
  <2> HIDE DEF bound
  <2> QED
    BY <1>4, <1>7, <2>1, <2>2, Constants
<1>9. run'.pc \in AtStage => run'.at \in Stages
  BY <1>2, <1>5 DEF AtStage
<1> QED
  BY <1>3, <1>4, <1>5, <1>6, <1>8, <1>9, TypesStay DEF Typed

LEMMA BeginTyped == Typed /\ Begin => Typed'
<1> SUFFICES ASSUME Typed, Begin PROVE Typed'
  OBVIOUS
<1> DEFINE c == [ctx EXCEPT !.failed = @ \ {run.at}]
           blocked == failed_corpus_stage(c, run.at)
           saved == [c EXCEPT !.res[run.at] = IF blocked THEN "failed" ELSE "running"]
<1>1. /\ run.pc = "next" /\ rerunFrom' = mark_rerun(run.at)
      /\ save_pipeline_metadata(saved)
      /\ run' = Go(IF blocked THEN "upload" ELSE "run")
      /\ UNCHANGED <<setup, conf, registry, s3, stop, serial, counts, torn>>
  BY DEF Begin
<1>2. run.at \in Stages /\ run.at \in 1..N
  BY <1>1, LeftTyped DEF Typed, AtStage
<1>3. c \in Context
  BY DEF Typed, Context
<1>4. saved \in Context
  <2> HIDE DEF c, blocked
  <2> QED
    BY <1>2, <1>3 DEF Context, Statuses
<1> HIDE DEF c, blocked, saved
<1>5. disk' \in Checkpoint /\ ctx' \in Context /\ s3' \in Checkpoint
  BY <1>1, <1>4, SaveTyped, TypesStay DEF Typed
<1>6. rerunFrom' \in 1..(N + 1)
  BY <1>1, <1>2, Constants DEF mark_rerun, Typed
<1>7. run' \in Run /\ run'.at = run.at /\ run'.pc \in {"upload", "run"}
  BY <1>1 DEF Go, Typed, Run, Points, AtStage
<1>8. Left' \in Nat /\ Left' <= Left
  BY <1>1, <1>2, <1>7, Constants DEF Left, AtStage
<1> QED
  BY <1>1, <1>2, <1>5, <1>6, <1>7, <1>8, LeftTyped, RunStepTyped

LEMMA FailTyped == Typed /\ Fail => Typed'
<1> SUFFICES ASSUME Typed, Fail PROVE Typed'
  OBVIOUS
<1> DEFINE saved == [ctx EXCEPT !.res[run.at] = "failed",
                                !.failed = mark_units_failed(@, run.at)]
<1>1. /\ run.pc = "run" /\ Fault /\ UNCHANGED rerunFrom
      /\ save_pipeline_metadata(saved)
      /\ run' = [Go("upload") EXCEPT !.kept = FALSE]
      /\ UNCHANGED <<setup, conf, registry, s3, stop, serial, torn>>
  BY DEF Fail
<1>2. run.at \in Stages /\ run.at \in 1..N
  BY <1>1, LeftTyped DEF Typed, AtStage
<1>3. saved \in Context
  <2>1. mark_units_failed(ctx.failed, run.at) \in SUBSET Artifact
    BY DEF mark_units_failed, Typed, Context
  <2> QED
    BY <1>2, <2>1 DEF Typed, Context, Statuses
<1> HIDE DEF saved
<1>4. disk' \in Checkpoint /\ ctx' \in Context /\ s3' \in Checkpoint
  BY <1>1, <1>3, SaveTyped, TypesStay DEF Typed
<1>5. run' \in Run /\ run'.at = run.at /\ run'.pc = "upload"
  BY <1>1 DEF Go, Typed, Run, Points, AtStage
<1>6. Left' \in Nat /\ Left' <= Left
  BY <1>1, <1>2, <1>5, Constants DEF Left, AtStage
<1>7. rerunFrom' \in 1..(N + 1)
  BY <1>1 DEF Typed
<1> QED
  BY <1>1, <1>2, <1>4, <1>5, <1>6, <1>7, LeftTyped, RunStepTyped

\* The output of a stage that completes, and the delta it leaves.
LEMMA ProducedTyped ==
  ASSUME Typed, run.at \in Cached, NEW part \in BOOLEAN,
         serial' = serial + 1, registry' = registry
  PROVE  Produced(run.at, part) \in Output'
<1>1. Contents \subseteq Contents' /\ Deltas \subseteq Deltas'
  BY TypesGrow DEF Typed
<1>2. Delta(registry, conf[Extraction], conf[Loading]) \in Deltas
  BY Constants DEF Typed, Deltas
<1>3. <<serial + 1>> \in Contents'
  <2>1. serial + 1 \in 1..serial'
    BY DEF Typed
  <2> QED
    BY <2>1 DEF Contents
<1>4. (IF run.at = Loading THEN ComputedDelta(run.at) ELSE <<serial + 1>>) \in Contents'
  BY <1>1, <1>2, <1>3 DEF ComputedDelta, Contents
<1>5. [u \in Before(Cached, run.at) |-> ctx.out[u].id] \in Cuts'
  <2>1. run.at - 1 \in Nat /\ Before(Cached, run.at) = 1..(run.at - 1)
    BY Constants DEF Before, Cached
  <2>2. \A u \in Before(Cached, run.at) : ctx.out[u].id \in Contents'
    BY <1>1 DEF Before, Typed, Context, Output
  <2> QED
    BY <2>1, <2>2 DEF Cuts
<1> QED
  BY <1>4, <1>5 DEF Produced, Output

\* What a stage that completes saves.
LEMMA CompleteSaves ==
  ASSUME Typed, NEW part \in BOOLEAN, Complete(part)
  PROVE  \E c \in Context' :
           /\ save_pipeline_metadata(c)
           /\ c.res = [ctx.res EXCEPT ![run.at] = "completed"]
           /\ c.failed = IF part THEN ctx.failed \cup {run.at} ELSE ctx.failed
           /\ c.delta = ComputedDelta(run.at)
           /\ c.out = [s \in Cached |-> IF s = run.at THEN Produced(s, part) ELSE ctx.out[s]]
<1> DEFINE outs == [s \in Cached |-> IF s = run.at THEN Produced(s, part) ELSE ctx.out[s]]
           saved == [ctx EXCEPT !.res[run.at] = "completed",
                                !.failed = IF part THEN @ \cup {run.at} ELSE @,
                                !.delta = ComputedDelta(run.at),
                                !.out = outs]
<1>1. /\ run.pc = "run" /\ serial' = serial + 1
      /\ save_pipeline_metadata(saved)
      /\ IF part THEN run.at \in Artifact /\ Fault ELSE UNCHANGED counts
      /\ UNCHANGED registry
  BY DEF Complete
<1>2. run.at \in Stages
  BY <1>1 DEF Typed, AtStage
<1>3. /\ Contents \subseteq Contents' /\ Deltas \subseteq Deltas'
      /\ Output \subseteq Output' /\ Context \subseteq Context'
  <2>1. serial \in Nat /\ registry \in Nat
    BY DEF Typed
  <2> QED
    BY <1>1, <2>1, TypesGrow
<1>4. ctx \in Context'
  BY <1>3 DEF Typed
<1>5. outs \in [Cached -> Output']
  <2> SUFFICES ASSUME NEW s \in Cached
               PROVE  (IF s = run.at THEN Produced(s, part) ELSE ctx.out[s]) \in Output'
    OBVIOUS
  <2>1. CASE s = run.at
    BY <1>1, <2>1, ProducedTyped
  <2>2. CASE s # run.at
    BY <1>3, <2>2 DEF Typed, Context
  <2> QED
    BY <2>1, <2>2
<1>6. ComputedDelta(run.at) \in {NoDelta} \cup Deltas'
  <2>1. Delta(registry, conf[Extraction], conf[Loading]) \in Deltas
    BY Constants DEF Typed, Deltas
  <2> QED
    BY <1>3, <2>1 DEF ComputedDelta, Typed, Context
<1>7. (IF part THEN ctx.failed \cup {run.at} ELSE ctx.failed) \in SUBSET Artifact
  BY <1>1 DEF Typed, Context
<1>8. /\ saved \in Context'
      /\ saved.res = [ctx.res EXCEPT ![run.at] = "completed"]
      /\ saved.failed = IF part THEN ctx.failed \cup {run.at} ELSE ctx.failed
      /\ saved.delta = ComputedDelta(run.at) /\ saved.out = outs
  <2> HIDE DEF outs
  <2> QED
    BY <1>2, <1>4, <1>5, <1>6, <1>7 DEF Context, Statuses
<1> HIDE DEF saved
<1> QED
  BY <1>1, <1>8

LEMMA CompleteTyped == \A part \in BOOLEAN : Typed /\ Complete(part) => Typed'
<1> SUFFICES ASSUME NEW part \in BOOLEAN, Typed, Complete(part) PROVE Typed'
  OBVIOUS
<1>1. /\ run.pc = "run" /\ UNCHANGED rerunFrom /\ serial' = serial + 1
      /\ run' = [Go(IF run.at \in Cached THEN "data" ELSE "upload")
                   EXCEPT !.done = @ \cup {run.at}]
      /\ IF part THEN run.at \in Artifact /\ Fault ELSE UNCHANGED counts
      /\ UNCHANGED <<setup, conf, registry, s3, stop, torn>>
  BY DEF Complete
<1>2. run.at \in Stages /\ run.at \in 1..N
  BY <1>1, LeftTyped DEF Typed, AtStage
<1>3. serial \in Nat /\ registry \in Nat
  BY DEF Typed
<1>4. Checkpoint \subseteq Checkpoint'
  BY <1>1, <1>3, TypesGrow
<1>5. PICK c \in Context' : save_pipeline_metadata(c)
  BY CompleteSaves
<1>6. disk' \in Checkpoint' /\ ctx' \in Context' /\ s3' \in Checkpoint'
  BY <1>1, <1>4, <1>5, SaveTyped DEF Typed
<1>7. /\ run' \in Run /\ run'.at = run.at
       /\ run'.pc = IF run.at \in Cached THEN "data" ELSE "upload"
  BY <1>1, <1>2 DEF Go, Typed, Run, Points, AtStage
<1>8. Left = N + 1 - run.at /\ Left' = N - run.at
  BY <1>1, <1>7 DEF Left, AtStage
<1>9. /\ counts' \in [runs : 0..MaxRuns, faults : Nat, changes : 0..MaxChanges]
       /\ counts'.runs = counts.runs /\ counts'.changes = counts.changes
  BY <1>1, Counted
<1>10. serial' + Left' <= counts'.runs * N
  <2> DEFINE bound == counts.runs * N
  <2>1. bound \in Nat /\ counts'.runs * N = bound
    BY <1>9, OneRunMore DEF Typed
  <2>2. serial + Left <= bound
    BY DEF Typed
  <2> HIDE DEF bound
  <2> QED
    BY <1>1, <1>2, <1>3, <1>8, <2>1, <2>2, Constants
<1>11. /\ registry' \in Nat /\ registry' <= counts'.changes
       /\ run'.pc \in AtStage => run'.at \in Stages
       /\ run'.pc \in {"data", "index"} => run'.at \in Cached
       /\ serial' \in Nat /\ rerunFrom' \in 1..(N + 1)
  BY <1>1, <1>2, <1>3, <1>7, <1>9 DEF Typed
<1> QED
  BY <1>1, <1>6, <1>7, <1>9, <1>10, <1>11 DEF Typed

LEMMA FinalizeTyped == Typed /\ Finalize => Typed'
<1> SUFFICES ASSUME Typed, Finalize PROVE Typed'
  OBVIOUS
<1>1. /\ run.pc = "finish" /\ UNCHANGED rerunFrom
      /\ save_pipeline_metadata(ctx) /\ run' = Go("last upload")
      /\ UNCHANGED <<setup, conf, registry, s3, stop, serial, counts, torn>>
  BY DEF Finalize
<1>2. disk' \in Checkpoint /\ ctx' \in Context /\ s3' \in Checkpoint
      /\ rerunFrom' \in 1..(N + 1)
  BY <1>1, SaveTyped, TypesStay DEF Typed
<1>3. run' \in Run /\ run'.pc = "last upload"
  BY <1>1 DEF Go, Typed, Run, Points, AtStage
<1>4. Left' = 0 /\ Left' <= Left /\ Left \in Nat
  <2>1. Left' = 0
    BY <1>3 DEF Left, AtStage
  <2>2. Left \in Nat
    BY LeftTyped
  <2> QED
    BY <2>1, <2>2
<1>5. run'.pc \notin AtStage /\ run'.pc \notin {"data", "index"}
  BY <1>3 DEF AtStage
<1>6. UNCHANGED <<setup, conf, registry, serial>> /\ UNCHANGED counts
  BY <1>1
<1> QED
  BY <1>2, <1>3, <1>4, <1>5, <1>6, RunStepTyped

\* The write of an output, and of its entry in the index.
LEMMA SaveStepsTyped == Typed /\ (SaveData \/ SaveIndex) => Typed'
<1> SUFFICES ASSUME Typed, SaveData \/ SaveIndex PROVE Typed'
  OBVIOUS
<1>1. /\ run.pc \in {"data", "index"}
      /\ UNCHANGED <<setup, conf, registry, s3, ctx, rerunFrom, stop, serial>>
      /\ Fault \/ UNCHANGED counts
  BY DEF SaveData, SaveIndex
<1>2. run.at \in Cached /\ run.at \in Stages /\ run.at \in 1..N
  BY <1>1, LeftTyped, Constants DEF Typed, AtStage
<1>3. stage_cache_key(run.at) \in Keys /\ ctx.out[run.at] \in Output
  BY <1>2, KeyTyped DEF Typed, Context
<1>4. disk' \in Checkpoint
  <2>1. ctx.out[run.at].id \in Contents
    BY <1>3 DEF Output
  <2>2. \/ disk' = disk
        \/ disk' = [disk EXCEPT !.data[stage_cache_key(run.at)] = ctx.out[run.at]]
        \/ disk' = [disk EXCEPT !.index[stage_cache_key(run.at)] = ctx.out[run.at].id]
    BY DEF SaveData, SaveIndex
  <2> QED
    BY <1>3, <2>1, <2>2 DEF Typed, Checkpoint
<1>5. /\ run' \in Run /\ run'.at = run.at
      /\ run'.pc \in {"index", "upload", "stopping"}
  BY DEF SaveData, SaveIndex, Checkpointed, Go, Typed, Run, Points, AtStage
<1>6. Left' \in Nat /\ Left' <= Left
  <2>1. Left = N - run.at /\ Left' \in {0, N - run.at}
    BY <1>1, <1>5 DEF Left, AtStage
  <2> QED
    BY <1>2, <2>1, Constants
<1>7. /\ UNCHANGED <<setup, conf, registry, serial>> /\ rerunFrom' \in 1..(N + 1)
      /\ s3' \in Checkpoint /\ ctx' \in Context /\ Left \in Nat
  BY <1>1, LeftTyped DEF Typed
<1> QED
  BY <1>1, <1>2, <1>4, <1>5, <1>6, <1>7, RunStepTyped

LEMMA UploadTyped == Typed /\ UploadCheckpoint => Typed'
<1> SUFFICES ASSUME Typed, UploadCheckpoint PROVE Typed'
  OBVIOUS
<1> DEFINE next == start_index(run.win, run.at + 1)
<1>1. /\ run.pc = "upload"
      /\ UNCHANGED <<setup, conf, registry, disk, ctx, rerunFrom, stop, serial>>
      /\ sync_pipeline_to_s3 \/ SyncFails
      /\ run' = IF stop THEN Go("stopping")
                ELSE IF should_stop_pipeline THEN Go("finish")
                ELSE [run EXCEPT !.pc = next.pc, !.at = next.at]
  BY DEF UploadCheckpoint
<1>2. /\ run.at \in 1..N /\ Left = N - run.at /\ Left \in Nat
      /\ run.win \in SUBSET Stages /\ run \in Run
  BY <1>1, LeftTyped DEF Typed, Run
<1>3. \/ next.pc = "finish" /\ next.at = 0
      \/ next.pc = "next" /\ next.at \in run.win /\ next.at >= run.at + 1
  <2>1. run.at + 1 \in Nat
    BY <1>2
  <2>2. \/ next = [pc |-> "finish", at |-> 0]
        \/ (next.pc = "next" /\ next.at \in run.win /\ next.at >= run.at + 1)
    BY <1>2, <2>1, StartIndexTyped, ZenonT(60)
  <2> HIDE DEF next
  <2> QED
    BY <2>2
<1> HIDE DEF next
<1>4. /\ run' \in Run
      /\ \/ run'.pc \in {"stopping", "finish"}
         \/ run'.pc = "next" /\ run'.at \in run.win /\ run'.at >= run.at + 1
  <2>1. /\ Go("stopping") \in Run /\ Go("stopping").pc = "stopping"
        /\ Go("finish") \in Run /\ Go("finish").pc = "finish"
    BY <1>2 DEF Go, Run, Points
  <2>2. next.pc \in Points /\ next.at \in 0..N
    <3>1. run.win \subseteq 0..N /\ 0 \in 0..N
      BY <1>2, Constants DEF Stages
    <3> QED
      BY <1>3, <3>1 DEF Points, AtStage
  <2>3. /\ [run EXCEPT !.pc = next.pc, !.at = next.at] \in Run
        /\ [run EXCEPT !.pc = next.pc, !.at = next.at].pc = next.pc
        /\ [run EXCEPT !.pc = next.pc, !.at = next.at].at = next.at
    BY <1>2, <2>2 DEF Run
  <2> QED
    BY <1>1, <1>3, <2>1, <2>3
<1>5. Left' \in Nat /\ Left' <= Left
  <2>1. CASE run'.pc \in {"stopping", "finish"}
    <3>1. Left' = 0
      BY <2>1 DEF Left, AtStage
    <3> QED
      BY <1>2, <3>1
  <2>2. CASE run'.pc = "next" /\ run'.at \in run.win /\ run'.at >= run.at + 1
    <3>1. Left' = N + 1 - run'.at /\ run'.at \in 1..N
      BY <1>2, <2>2 DEF Left, Stages
    <3> QED
      BY <1>2, <2>2, <3>1, Constants
  <2> QED
    BY <1>4, <2>1, <2>2
<1>6. /\ run'.pc \in AtStage => run'.at \in Stages
      /\ run'.pc \notin {"data", "index"}
  BY <1>2, <1>4 DEF AtStage
<1>7. s3' \in Checkpoint /\ (Fault \/ UNCHANGED counts)
  BY <1>1, SyncTyped
<1>8. /\ UNCHANGED <<setup, conf, registry, serial>> /\ rerunFrom' \in 1..(N + 1)
      /\ disk' \in Checkpoint /\ ctx' \in Context
  BY <1>1 DEF Typed
<1> QED
  BY <1>2, <1>4, <1>5, <1>6, <1>7, <1>8, RunStepTyped

LEMMA StopTyped == Typed /\ request_stop => Typed'
<1> SUFFICES ASSUME Typed, request_stop PROVE Typed'
  OBVIOUS
<1>1. /\ Fault /\ UNCHANGED <<setup, conf, registry, disk, s3, ctx, rerunFrom, serial>>
      /\ run' = IF run.pc \in {"next", "run", "finish"} THEN Go("stopping") ELSE run
  BY DEF request_stop
<1>2. run \in Run
  BY DEF Typed
<1>3. run' \in Run /\ (run'.pc = "stopping" \/ run' = run)
  BY <1>1, <1>2 DEF Go, Run, Points
<1>4. Left' \in Nat /\ Left' <= Left /\ Left \in Nat
  BY <1>3, LeftTyped DEF Left, AtStage
<1>5. /\ run'.pc \in AtStage => run'.at \in Stages
      /\ run'.pc \in {"data", "index"} => run'.at \in Cached
  BY <1>3 DEF Typed, AtStage
<1>6. /\ UNCHANGED <<setup, conf, registry, serial>> /\ rerunFrom' \in 1..(N + 1)
      /\ disk' \in Checkpoint /\ s3' \in Checkpoint /\ ctx' \in Context
  BY <1>1 DEF Typed
<1> QED
  BY <1>1, <1>3, <1>4, <1>5, <1>6, RunStepTyped

\* A run that ends.
LEMMA EndTyped ==
  ASSUME Typed, ProcessEnds, s3' \in Checkpoint, Fault \/ UNCHANGED counts,
         UNCHANGED <<setup, conf, registry, serial>>,
         NEW end \in {"stopped", "failed", "completed", "killed"}, run' = Idle(end)
  PROVE  Typed'
<1>1. run' \in Run /\ run'.pc = "idle"
  BY IdleTyped DEF Typed
<1>2. Left' = 0 /\ Left' \in Nat /\ Left' <= Left /\ Left \in Nat
  BY <1>1, LeftTyped DEF Left, AtStage
<1>3. run'.pc \notin AtStage /\ run'.pc \notin {"data", "index"}
  BY <1>1 DEF AtStage
<1>4. disk' \in Checkpoint /\ ctx' \in Context /\ rerunFrom' \in 1..(N + 1)
  BY NothingTyped, Constants DEF ProcessEnds, Typed
<1> QED
  BY <1>1, <1>2, <1>3, <1>4, RunStepTyped

LEMMA EndsTyped == Typed /\ (LastUpload \/ CheckpointOnStop \/ Kill) => Typed'
<1> SUFFICES ASSUME Typed, LastUpload \/ CheckpointOnStop \/ Kill PROVE Typed'
  OBVIOUS
<1>1. ProcessEnds /\ UNCHANGED <<setup, conf, registry, serial>>
  BY DEF LastUpload, CheckpointOnStop, Kill
<1>2. s3' \in Checkpoint /\ (Fault \/ UNCHANGED counts)
  <2>1. CASE LastUpload \/ CheckpointOnStop
    BY <2>1, SyncTyped DEF LastUpload, CheckpointOnStop
  <2>2. CASE Kill
    <3>1. CASE UNCHANGED s3
      BY <2>2, <3>1 DEF Kill, Typed
    <3>2. CASE \E data \in SUBSET Changed, index \in BOOLEAN : Sent(data, index, FALSE)
      BY <2>2, <3>2, SentTyped DEF Kill
    <3> QED
      BY <2>2, <3>1, <3>2 DEF Kill
  <2> QED
    BY <2>1, <2>2
<1>3. \E end \in {"stopped", "failed", "completed", "killed"} : run' = Idle(end)
  BY DEF LastUpload, CheckpointOnStop, Kill
<1> QED
  BY <1>1, <1>2, <1>3, EndTyped

\* What lies between runs.
LEMMA BetweenTyped == Typed /\ (Reconfigure \/ OtherRun) => Typed'
<1> SUFFICES ASSUME Typed, Reconfigure \/ OtherRun PROVE Typed'
  OBVIOUS
<1>1. /\ run.pc = "idle" /\ Count("changes", MaxChanges) /\ run' = Idle("none")
      /\ UNCHANGED <<setup, disk, s3, ctx, rerunFrom, serial>>
      /\ registry' = registry \/ registry' = registry + 1
  BY DEF Reconfigure, OtherRun
<1>2. conf' \in [Cached -> Confs]
  BY DEF Reconfigure, OtherRun, Typed
<1>3. run' \in Run /\ run'.pc = "idle"
  BY <1>1, IdleTyped DEF Typed
<1>4. /\ counts' \in [runs : 0..MaxRuns, faults : Nat, changes : 0..MaxChanges]
      /\ counts'.runs = counts.runs /\ counts'.changes = counts.changes + 1
  BY <1>1, BoundAssumption DEF Count, Typed
<1>5. registry' \in Nat /\ registry' <= counts'.changes
  BY <1>1, <1>4 DEF Typed
<1>6. Checkpoint \subseteq Checkpoint' /\ Context \subseteq Context'
  BY <1>1, <1>5, TypesGrow DEF Typed
<1>7. Left = 0 /\ Left' = 0
  BY <1>1, <1>3 DEF Left, AtStage
<1>8. serial' + Left' <= counts'.runs * N /\ serial' \in Nat
  BY <1>1, <1>4, <1>7 DEF Typed
<1>9. run'.pc \notin AtStage /\ run'.pc \notin {"data", "index"}
  BY <1>3 DEF AtStage
<1>10. /\ setup' \in Setups /\ disk' \in Checkpoint' /\ s3' \in Checkpoint'
       /\ ctx' \in Context' /\ rerunFrom' \in 1..(N + 1)
  BY <1>1, <1>6 DEF Typed
<1> QED
  BY <1>2, <1>3, <1>4, <1>5, <1>8, <1>9, <1>10 DEF Typed

LEMMA StepTyped == Typed /\ [Next]_vars => Typed'
<1> SUFFICES ASSUME Typed, [Next]_vars PROVE Typed'
  OBVIOUS
<1>1. CASE UNCHANGED vars
  <2>1. UNCHANGED <<registry, serial>> /\ UNCHANGED run
    BY <1>1 DEF vars
  <2>2. Left' = Left
    BY <2>1 DEF Left
  <2> QED
    BY <1>1, <2>1, <2>2, TypesStay DEF vars, Typed
<1> QED
  BY <1>1, StartTyped, BeginTyped, CompleteTyped, FailTyped, SaveStepsTyped, UploadTyped,
     FinalizeTyped, EndsTyped, StopTyped, BetweenTyped DEF Next

\* The variables have their types.
THEOREM TypeCorrect == Spec => []TypeOK
<1>1. Typed => TypeOK
  <2> SUFFICES ASSUME Typed PROVE TypeOK
    OBVIOUS
  <2>1. \A d \in {disk, s3} :
          /\ DOMAIN d.data = Keys /\ DOMAIN d.index = Keys
          /\ \A k \in Keys : d.data[k].id \in Contents /\ d.index[k] \in Contents
          /\ d.meta \in Metas
    BY DEF Typed, Checkpoint, Output
  <2>2. /\ [res |-> ctx.res, failed |-> ctx.failed, delta |-> ctx.delta] \in Metas
        /\ DOMAIN ctx.out = Cached
    BY DEF Typed, Context, Metas, Statuses
  <2>3. serial \in 0..(MaxRuns * N)
    <3>1. /\ counts.runs \in Nat /\ MaxRuns \in Nat /\ counts.runs <= MaxRuns
          /\ serial \in Nat
      BY BoundAssumption DEF Typed
    <3>2. serial <= counts.runs * N
      <4> DEFINE bound == counts.runs * N
      <4>1. bound \in Nat /\ serial + Left <= bound /\ Left \in Nat
        BY <3>1, OneRunMore, LeftTyped DEF Typed
      <4> HIDE DEF bound
      <4>2. serial <= bound
        BY <3>1, <4>1
      <4> QED
        BY <4>2 DEF bound
    <3>3. counts.runs * N <= MaxRuns * N
      BY <3>1, Constants
    <3>4. counts.runs * N \in Nat /\ MaxRuns * N \in Nat
      BY <3>1, OneRunMore
    <3> DEFINE a == counts.runs * N
               b == MaxRuns * N
    <3>5. serial <= a /\ a <= b /\ a \in Nat /\ b \in Nat
      BY <3>2, <3>3, <3>4
    <3> HIDE DEF a, b
    <3>6. serial \in 0..b
      BY <3>1, <3>5
    <3> QED
      BY <3>6 DEF b
  <2>4. registry \in 0..MaxChanges
    BY BoundAssumption DEF Typed
  <2>5. run.at \in 0..N /\ run.win \subseteq Stages /\ run.done \subseteq Stages
    BY DEF Typed, Run
  <2> QED
    BY <2>1, <2>2, <2>3, <2>4, <2>5 DEF Typed, TypeOK
<1> QED
  BY <1>1, InitTyped, StepTyped, PTL DEF Spec

-----------------------------------------------------------------------------
(* What a checkpoint may serve.                                            *)

\* The stages a run may have enabled leave no gap.
Contiguous == \A w \in Windows : \A a, b \in w : a..b \subseteq w

\* Settings are numbered in the order they are used: a change takes new ones.
NewSettings == \A s \in Cached : conf'[s] >= conf[s]

\* The key of a stage and the delta document_loading computes, under settings c.
Key(c, s) == [u \in 1..s |-> c[u]]
Now(c, r) == Delta(r, c[Extraction], c[Loading])

\* The outputs a checkpoint d may serve under a key: its own, or the one the
\* host of the run has, which a later upload may put in its place.
Served(d, own, k) == {o \in {d.data[k], own[k]} : o # NoOutput /\ o.id = d.index[k]}

\* A resume reaches a completed stage when none before it is unfinished.
Reached(meta, s) ==
    /\ meta.res[s] = "completed"
    /\ \A u \in 1..s : meta.res[u] \in {"none", "completed"}

\* Every artifact stage completed up to s has an output to restore.
Whole(d, own, c, s) ==
    \A v \in 2..s : d.meta.res[v] = "completed" => Served(d, own, Key(c, v)) # {}

\* An output served for a stage belongs with the others: it was computed from
\* the outputs the index names upstream, and from no output of a stage that
\* did not run; it was loaded or computed with the delta recorded; and the
\* units it lacks are recorded failed.
Fits(d, own, c, r, s, o) ==
    /\ \A u \in Before(Cached, s) :
         /\ d.meta.res[u] = "none" => o.ins[u] = NoContent
         /\ d.meta.res[u] = "completed" /\ Served(d, own, Key(c, u)) # {}
              => o.ins[u] = d.index[Key(c, u)]
    /\ s # Loading /\ d.meta.res[Loading] = "completed" /\ d.index[Key(c, Loading)] = Now(c, r)
         => o.ins[Loading] = Now(c, r)
    /\ Whole(d, own, c, s) /\ o.part => s \in d.meta.failed
    /\ s = Loading => d.meta.delta = o.id

\* A checkpoint a run may resume from.
Sound(d, own, c, r) ==
    /\ \A s \in Cached : Reached(d.meta, s) =>
         \A o \in Served(d, own, Key(c, s)) : Fits(d, own, c, r, s, o)
    /\ d.meta.res[Loading] = "completed" /\ d.index[Key(c, Loading)] = Now(c, r)
         => d.meta.delta = Now(c, r)

-----------------------------------------------------------------------------
(* What a run has, at each point of it.                                    *)

\* The run has begun a stage, and saved its own results.
Ran == rerunFrom <= N

\* A delta is of a state of the registry and of settings up to the present ones.
Past(x, c, r) ==
    \A reg, ext, loading \in Nat :
        x = Delta(reg, ext, loading) => reg <= r /\ ext <= c[Extraction] /\ loading <= c[Loading]

Fresh ==
    /\ \A d \in {disk, s3} : \A k \in Keys :
         /\ Past(d.index[k], conf, registry)
         /\ d.data[k] # NoOutput => \A u \in DOMAIN k : k[u] <= conf[u]
    /\ \A s \in Cached : Past(ctx.out[s].id, conf, registry)

\* The copy in S3 is there only for a deployment that has one, and a run that
\* began no stage has it on its host.
Copied ==
    /\ ~setup.synced => s3 = NoCache
    /\ run.pc # "idle" /\ ~Ran /\ setup.synced => disk.data = s3.data /\ disk.index = s3.index

Place ==
    /\ run.pc = "idle" => ~Ran
    /\ run.pc # "idle" => run.win \in Windows
    /\ run.pc \in AtStage => run.at \in run.win
    /\ run.pc \in {"run", "data", "index", "upload"} => Ran /\ ctx.res[run.at] # "none"

\* The output about to be written is that of the execution just done, which no
\* index names, or the documents of the present delta.
Writing ==
    run.pc = "data" =>
        IF run.at = Loading
        THEN ctx.out[run.at].id = Now(conf, registry) /\ ~ctx.out[run.at].part
        ELSE /\ ctx.out[run.at].id = <<serial>>
             /\ \A d \in {disk, s3} : \A k \in Keys : d.index[k] # <<serial>>

\* The outputs in the run's context belong together, and the host's cache has
\* them.
Composed ==
    /\ \A s \in Cached : ctx.res[s] = "completed" =>
         /\ \A u \in Before(Cached, s) : ctx.out[s].ins[u] = ctx.out[u].id
         /\ ctx.out[s].part => s \in ctx.failed
         /\ ctx.out[s] # NoOutput
         /\ ~(s = run.at /\ run.pc = "data") => disk.data[Key(conf, s)] = ctx.out[s]
    /\ ctx.res[Loading] = "completed" =>
         /\ ctx.delta = ctx.out[Loading].id
         /\ \A d \in {disk, s3} :
              d.index[Key(conf, Loading)] = Now(conf, registry) => ctx.delta = Now(conf, registry)
    /\ \A s, u \in Cached : u < s /\ ctx.res[s] = "completed" /\ ctx.res[u] = "none"
         => ctx.out[u] = NoOutput

\* The stages before the one a run is at that it has no result of gave it no
\* output, and it has no result of those after.
Ahead ==
    run.pc \in AtStage =>
        /\ \A s \in Cached : s < run.at /\ ctx.res[s] = "none" => ctx.out[s] = NoOutput
        /\ \A s \in Stages : s > run.at => ctx.res[s] = "none"
        /\ run.pc = "next" => ctx.res[run.at] = "none"

\* A run about to begin its first stage has restored every stage before it that
\* a save would keep.
Ready ==
    run.pc = "next" /\ ~Ran =>
        /\ Composed
        /\ \A s \in Stages : s < run.at /\ ctx.res[s] = "none" => ~Reached(disk.meta, s)

\* Once it began one, what it saves is what it has.
Saved ==
    Ran => /\ Composed
           /\ disk.meta = [res |-> ctx.res, failed |-> ctx.failed, delta |-> ctx.delta]

\* A run with no stage to execute saves what the checkpoint had.
Done ==
    run.pc = "finish" /\ ~Ran =>
        /\ \A s \in Stages : ctx.res[s] # "none" =>
             ctx.res[s] = "completed" /\ Reached(disk.meta, s)
        /\ ctx.delta = disk.meta.delta
        /\ \A s \in Cached :
             /\ Reached(disk.meta, s) /\ Whole(disk, disk.data, conf, s) /\ s \in disk.meta.failed
             => s \in ctx.failed

Parts ==
    /\ Fresh /\ Copied /\ Place /\ Writing /\ Ahead
    /\ Sound(s3, disk.data, conf, registry)
    /\ ~Ran => Sound(disk, disk.data, conf, registry)
    /\ Ready /\ Saved /\ Done

\* Nothing of it is claimed of a checkpoint that has a status without its output.
Coherent == ~torn => Parts

-----------------------------------------------------------------------------
(* Keys, and what shrinks in a checkpoint.                                 *)

LEMMA KeyOf ==
  ASSUME Typed, NEW s \in Cached
  PROVE  /\ stage_cache_key(s) = Key(conf, s) /\ Key(conf, s) \in Keys
         /\ DOMAIN Key(conf, s) = 1..s /\ s \in 1..s
BY KeyTyped, Constants DEF Typed, stage_cache_key, Key, Cached

\* Stages have different keys.
LEMMA KeysDiffer ==
  ASSUME Typed, NEW s \in Cached, NEW u \in Cached, s # u
  PROVE  Key(conf, s) # Key(conf, u)
<1>1. s \in Nat /\ u \in Nat /\ s >= 1 /\ u >= 1
  BY Constants DEF Cached
<1>2. 1..s # 1..u
  BY <1>1
<1> QED
  BY <1>2, KeyOf

\* A checkpoint that serves no more than a sound one, under the same index and
\* metadata, is sound.
LEMMA SoundShrinks ==
  ASSUME NEW c, NEW r, NEW d, NEW own, NEW e, NEW more, Sound(d, own, c, r),
         e.meta = d.meta, \A s \in Cached : e.index[Key(c, s)] = d.index[Key(c, s)],
         \A s \in Cached : Served(e, more, Key(c, s)) \subseteq Served(d, own, Key(c, s))
  PROVE  Sound(e, more, c, r)
<1> USE Constants
<1>1. \A s \in Cached : Whole(e, more, c, s) => Whole(d, own, c, s)
  <2> SUFFICES ASSUME NEW s \in Cached, Whole(e, more, c, s), NEW v \in 2..s,
                      d.meta.res[v] = "completed"
               PROVE  Served(d, own, Key(c, v)) # {}
    BY DEF Whole
  <2>1. v \in Cached
    BY DEF Cached
  <2>2. Served(e, more, Key(c, v)) # {}
    BY DEF Whole
  <2> QED
    BY <2>1, <2>2
<1>2. \A s \in Cached : \A o : Fits(d, own, c, r, s, o) => Fits(e, more, c, r, s, o)
  <2> SUFFICES ASSUME NEW s \in Cached, NEW o, Fits(d, own, c, r, s, o)
               PROVE  Fits(e, more, c, r, s, o)
    OBVIOUS
  <2>1. Before(Cached, s) \subseteq Cached
    BY DEF Before
  <2>2. \A u \in Before(Cached, s) :
          /\ e.meta.res[u] = "none" => o.ins[u] = NoContent
          /\ e.meta.res[u] = "completed" /\ Served(e, more, Key(c, u)) # {}
               => o.ins[u] = e.index[Key(c, u)]
    BY <2>1 DEF Fits
  <2> QED
    BY <1>1, <2>2 DEF Fits
<1> QED
  BY <1>2 DEF Sound

\* No host has outputs of its own once its disk is gone.
LEMMA SoundAlone ==
  ASSUME NEW c, NEW r, NEW d, NEW own, NEW more, Sound(d, own, c, r),
         \/ \A s \in Cached : more[Key(c, s)] = NoOutput
         \/ \A s \in Cached : more[Key(c, s)] = d.data[Key(c, s)]
  PROVE  Sound(d, more, c, r)
<1>1. \A s \in Cached : Served(d, more, Key(c, s)) \subseteq Served(d, own, Key(c, s))
  BY DEF Served
<1> QED
  BY <1>1, SoundShrinks

\* An empty cache is sound.
LEMMA NothingSound ==
  ASSUME NEW c, NEW r, NEW own
  PROVE  Sound(NoCache, own, c, r)
BY Constants DEF Sound, Reached, NoCache, NoMeta

-----------------------------------------------------------------------------
(* New settings, and commits of other runs.                                *)

LEMMA PastGrows ==
  ASSUME conf \in [Cached -> Confs], registry \in Nat,
         NEW c \in [Cached -> Confs], NEW r \in Nat,
         \A s \in Cached : c[s] >= conf[s], r >= registry,
         NEW x, Past(x, conf, registry)
  PROVE  Past(x, c, r)
<1>1. /\ c[Extraction] \in Nat /\ c[Loading] \in Nat
      /\ conf[Extraction] \in Nat /\ conf[Loading] \in Nat
      /\ c[Extraction] >= conf[Extraction] /\ c[Loading] >= conf[Loading]
  BY Constants
<1> QED
  BY <1>1 DEF Past

\* An index that names the delta of the later settings was written under the
\* same ones.
LEMMA NowIsOld ==
  ASSUME Typed, NEW c \in [Cached -> Confs], NEW r \in Nat,
         \A s \in Cached : c[s] >= conf[s], r >= registry,
         Past(Now(c, r), conf, registry)
  PROVE  Now(c, r) = Now(conf, registry) /\ Key(c, Loading) = Key(conf, Loading)
<1>1. /\ c[Extraction] \in Nat /\ c[Loading] \in Nat
      /\ conf[Extraction] \in Nat /\ conf[Loading] \in Nat /\ registry \in Nat
      /\ c[Extraction] >= conf[Extraction] /\ c[Loading] >= conf[Loading]
  BY Constants DEF Typed
<1>2. r <= registry /\ c[Extraction] <= conf[Extraction] /\ c[Loading] <= conf[Loading]
  BY <1>1 DEF Past, Now
<1>3. r = registry /\ c[Extraction] = conf[Extraction] /\ c[Loading] = conf[Loading]
  BY <1>1, <1>2
<1> QED
  BY <1>3 DEF Now, Key, Loading

\* A checkpoint stays sound: nothing is served under settings not used before.
LEMMA SoundGrows ==
  ASSUME Typed, Fresh, NEW c \in [Cached -> Confs], NEW r \in Nat,
         \A s \in Cached : c[s] >= conf[s], r >= registry,
         NEW d \in {disk, s3}, Sound(d, disk.data, conf, registry)
  PROVE  Sound(d, disk.data, c, r)
<1>0. /\ d \in Checkpoint /\ disk \in Checkpoint
      /\ \A s \in Cached : s \in Nat /\ 1..s \subseteq Cached
  BY Constants DEF Typed, Cached
<1>1. \A s \in Cached : Key(c, s) \in Keys
  BY <1>0 DEF Key, Keys
<1>2. \A s \in Cached : Served(d, disk.data, Key(c, s)) # {}
                          => \A u \in 1..s : c[u] = conf[u]
  <2> SUFFICES ASSUME NEW s \in Cached, Served(d, disk.data, Key(c, s)) # {},
                      NEW u \in 1..s
               PROVE  c[u] = conf[u]
    OBVIOUS
  <2>1. d.data[Key(c, s)] # NoOutput \/ disk.data[Key(c, s)] # NoOutput
    BY DEF Served
  <2>2. Key(c, s)[u] <= conf[u]
    BY <1>1, <2>1 DEF Fresh, Key
  <2>3. u \in Cached /\ c[u] \in Nat /\ conf[u] \in Nat /\ c[u] >= conf[u]
    BY <1>0, Constants DEF Typed
  <2> QED
    BY <2>2, <2>3 DEF Key
<1>3. \A s \in Cached : (\A u \in 1..s : c[u] = conf[u])
                          => \A u \in 1..s : Key(c, u) = Key(conf, u)
  <2> SUFFICES ASSUME NEW s \in Cached, \A u \in 1..s : c[u] = conf[u], NEW u \in 1..s
               PROVE  Key(c, u) = Key(conf, u)
    OBVIOUS
  <2>1. \A v \in 1..u : c[v] = conf[v]
    BY <1>0
  <2> QED
    BY <2>1 DEF Key
<1>4. d.index[Key(c, Loading)] = Now(c, r)
        => Now(c, r) = Now(conf, registry) /\ Key(c, Loading) = Key(conf, Loading)
  BY <1>1, NowIsOld, Constants DEF Fresh
<1>5. ASSUME NEW s \in Cached, Reached(d.meta, s), NEW o \in Served(d, disk.data, Key(c, s))
      PROVE  Fits(d, disk.data, c, r, s, o)
  <2>1. \A u \in 1..s : Key(c, u) = Key(conf, u)
    BY <1>2, <1>3, <1>5
  <2>2. s \in 1..s
    BY Constants DEF Cached
  <2>3. Fits(d, disk.data, conf, registry, s, o)
    BY <2>1, <2>2, <1>5 DEF Sound
  <2>4. Before(Cached, s) \subseteq 1..s
    BY Constants DEF Before, Cached
  <2>5. Whole(d, disk.data, c, s) => Whole(d, disk.data, conf, s)
    <3>1. 2..s \subseteq 1..s
      BY <1>0
    <3> QED
      BY <2>1, <3>1 DEF Whole
  <2>6. s # Loading /\ d.meta.res[Loading] = "completed" /\ d.index[Key(c, Loading)] = Now(c, r)
         => o.ins[Loading] = Now(c, r)
    BY <1>4, <2>3 DEF Fits
  <2>7. \A u \in Before(Cached, s) :
         /\ d.meta.res[u] = "none" => o.ins[u] = NoContent
         /\ d.meta.res[u] = "completed" /\ Served(d, disk.data, Key(c, u)) # {}
              => o.ins[u] = d.index[Key(c, u)]
    BY <2>1, <2>3, <2>4 DEF Fits
  <2> QED
    BY <2>3, <2>5, <2>6, <2>7 DEF Fits
<1>6. d.meta.res[Loading] = "completed" /\ d.index[Key(c, Loading)] = Now(c, r)
         => d.meta.delta = Now(c, r)
  BY <1>4 DEF Sound
<1> QED
  BY <1>5, <1>6 DEF Sound

LEMMA BetweenCoheres ==
  ASSUME Typed, Typed', Parts, NewSettings, Reconfigure \/ OtherRun
  PROVE  Parts'
<1>1. /\ UNCHANGED <<setup, disk, s3, ctx, rerunFrom, serial, torn>>
      /\ run.pc = "idle"
      /\ run'.pc = "idle"
  BY IdleTyped DEF Reconfigure, OtherRun, Typed
<1>2. /\ conf \in [Cached -> Confs] /\ conf' \in [Cached -> Confs]
      /\ registry \in Nat /\ registry' \in Nat
      /\ registry' >= registry /\ \A s \in Cached : conf'[s] >= conf[s]
  <2>1. registry' >= registry
    BY DEF Reconfigure, OtherRun, Typed
  <2> QED
    BY <2>1 DEF NewSettings, Typed
<1>3. ~Ran /\ ~Ran' /\ Fresh /\ Copied
  BY <1>1 DEF Parts, Place, Ran
<1>4. Sound(s3', disk'.data, conf', registry') /\ Sound(disk', disk'.data, conf', registry')
  <2>1. Sound(s3, disk.data, conf, registry) /\ Sound(disk, disk.data, conf, registry)
    BY <1>3 DEF Parts
  <2>2. \A d \in {disk, s3} : Sound(d, disk.data, conf', registry')
    BY <1>2, <1>3, <2>1, SoundGrows
  <2> QED
    BY <1>1, <2>2
<1>5. Fresh'
  <2>1. \A x : Past(x, conf, registry) => Past(x, conf', registry')
    BY <1>2, PastGrows
  <2>2. \A k \in Keys : \A u \in DOMAIN k : k[u] <= conf[u] => k[u] <= conf'[u]
    <3> SUFFICES ASSUME NEW k \in Keys, NEW u \in DOMAIN k, k[u] <= conf[u]
                 PROVE  k[u] <= conf'[u]
      OBVIOUS
    <3>1. PICK s \in Cached : k \in [1..s -> Confs]
      BY DEF Keys
    <3>2. u \in Cached /\ k[u] \in Nat
      <4>1. u \in 1..s /\ k[u] \in Confs
        BY <3>1
      <4>2. 1..s \subseteq Cached
        BY Constants DEF Cached
      <4> QED
        BY <4>1, <4>2, Constants
    <3>3. conf[u] \in Nat /\ conf'[u] \in Nat
      BY <1>2, <3>2, Constants
    <3> QED
      BY <1>2, <3>2, <3>3
  <2> QED
    BY <1>1, <1>3, <2>1, <2>2 DEF Fresh
<1>6. Copied' /\ Place' /\ Writing' /\ Ahead' /\ Ready' /\ Saved' /\ Done'
  BY <1>1, <1>3 DEF Copied, Place, Writing, Ahead, Ready, Saved, Done, AtStage
<1> QED
  BY <1>4, <1>5, <1>6 DEF Parts

-----------------------------------------------------------------------------
(* Uploads, and the end of a run.                                          *)

\* What a run has saved of a context whose outputs belong together is sound,
\* whichever index names them, if no other output is served.
LEMMA ContextSound ==
  ASSUME Typed, Composed, run.pc # "data", NEW d, NEW own,
         d.meta = [res |-> ctx.res, failed |-> ctx.failed, delta |-> ctx.delta],
         \A s \in Cached : \A o \in Served(d, own, Key(conf, s)) : o = disk.data[Key(conf, s)],
         d.index \in {disk.index, s3.index}
  PROVE  Sound(d, own, conf, registry)
<1>0. d.meta.res = ctx.res /\ d.meta.failed = ctx.failed /\ d.meta.delta = ctx.delta
  OBVIOUS
<1>1. \A s \in Cached : ctx.res[s] = "completed" =>
        \A o \in Served(d, own, Key(conf, s)) :
          o = ctx.out[s] /\ ctx.out[s].id = d.index[Key(conf, s)]
  BY DEF Composed, Served
<1>2. ctx.res[Loading] = "completed" /\ d.index[Key(conf, Loading)] = Now(conf, registry)
        => ctx.delta = Now(conf, registry)
  BY DEF Composed
<1>3. ASSUME NEW s \in Cached, ctx.res[s] = "completed",
             NEW o \in Served(d, own, Key(conf, s))
      PROVE  Fits(d, own, conf, registry, s, o)
  <2>1. o = ctx.out[s] /\ o.id = d.index[Key(conf, s)]
    BY <1>1, <1>3
  <2>2. /\ \A u \in Before(Cached, s) : o.ins[u] = ctx.out[u].id
        /\ o.part => s \in ctx.failed
    BY <2>1, <1>3 DEF Composed
  <2>3. ASSUME NEW u \in Before(Cached, s)
        PROVE  /\ ctx.res[u] = "none" => o.ins[u] = NoContent
               /\ ctx.res[u] = "completed" /\ Served(d, own, Key(conf, u)) # {}
                    => o.ins[u] = d.index[Key(conf, u)]
    <3>1. u \in Cached /\ u < s
      BY DEF Before
    <3>2. ctx.res[u] = "none" => ctx.out[u] = NoOutput
      BY <1>3, <3>1 DEF Composed
    <3>3. NoOutput.id = NoContent
      BY DEF NoOutput
    <3> QED
      BY <1>1, <2>2, <3>1, <3>2, <3>3
  <2>4. s # Loading /\ ctx.res[Loading] = "completed"
        /\ d.index[Key(conf, Loading)] = Now(conf, registry) => o.ins[Loading] = Now(conf, registry)
    <3>1. s # Loading => Loading \in Before(Cached, s)
      BY Constants DEF Before, Cached, Loading
    <3> QED
      BY <1>2, <2>2, <3>1 DEF Composed
  <2>5. s = Loading => d.meta.delta = o.id
    BY <1>0, <1>3, <2>1 DEF Composed
  <2> QED
    BY <1>0, <2>2, <2>3, <2>4, <2>5 DEF Fits
<1> QED
  BY <1>0, <1>2, <1>3 DEF Sound, Reached

\* What an upload may do to the copy, short of tearing it.
Uploads ==
    \/ UNCHANGED s3
    \/ /\ setup.synced /\ run.pc \notin {"idle", "data"}
       /\ \E data \in SUBSET Changed, index, meta \in BOOLEAN :
            /\ Sent(data, index, meta)
            /\ ~TornCopy(index, meta) \/ (data = Changed /\ index /\ meta)

LEMMA SyncUploads ==
  ASSUME sync_pipeline_to_s3 \/ SyncFails, ~torn', run.pc \notin {"idle", "data"}
  PROVE  Uploads /\ ~torn
<1>1. CASE sync_pipeline_to_s3
  BY <1>1 DEF sync_pipeline_to_s3, Uploads
<1>2. CASE SyncFails
  <2>1. PICK data \in SUBSET Changed, index \in BOOLEAN, meta \in BOOLEAN :
          /\ Sent(data, index, meta)
          /\ torn' = (torn \/ TornCopy(index, meta))
    BY <1>2 DEF SyncFails
  <2>2. ~torn /\ ~TornCopy(index, meta)
    BY <2>1
  <2> QED
    BY <1>2, <2>1, <2>2 DEF SyncFails, Uploads
<1> QED
  BY <1>1, <1>2

\* What is sent is what one of the two sides had.
LEMMA SentParts ==
  ASSUME NEW data \in SUBSET Changed, NEW index \in BOOLEAN, NEW meta \in BOOLEAN,
         Sent(data, index, meta)
  PROVE  /\ \A k \in Keys : s3'.data[k] \in {disk.data[k], s3.data[k]}
         /\ s3'.index = IF index THEN disk.index ELSE s3.index
         /\ s3'.meta = IF meta THEN disk.meta ELSE s3.meta
         /\ data = Changed => \A k \in Keys : s3'.data[k] = disk.data[k]
BY DEF Sent, Changed

\* The copy stays sound, for the host that sent it.
LEMMA UploadSound ==
  ASSUME Typed, Parts, Uploads
  PROVE  /\ Sound(s3', disk.data, conf, registry)
         /\ ~setup.synced => s3' = s3
         /\ \A k \in Keys : s3'.data[k] \in {disk.data[k], s3.data[k]}
         /\ s3'.index \in {disk.index, s3.index}
<1>1. CASE UNCHANGED s3
  BY <1>1 DEF Parts
<1>2. ASSUME setup.synced, run.pc \notin {"idle", "data"},
             NEW data \in SUBSET Changed, NEW index \in BOOLEAN, NEW meta \in BOOLEAN,
             Sent(data, index, meta),
             ~TornCopy(index, meta) \/ (data = Changed /\ index /\ meta)
      PROVE  Sound(s3', disk.data, conf, registry)
  <2>0. \A s \in Cached : Key(conf, s) \in Keys
    BY KeyOf
  <2>1. CASE Ran /\ meta
    <3>1. disk.meta = [res |-> ctx.res, failed |-> ctx.failed, delta |-> ctx.delta] /\ Composed
      BY <2>1 DEF Parts, Saved
    <3>2. s3'.index \in {disk.index, s3.index} /\ s3'.meta = disk.meta
      BY <1>2, <2>1, SentParts
    <3>3. ASSUME NEW s \in Cached, NEW o \in Served(s3', disk.data, Key(conf, s))
          PROVE  o = disk.data[Key(conf, s)]
      <4> DEFINE k == Key(conf, s)
      <4>1. o # NoOutput /\ o.id = s3'.index[k] /\ o \in {s3'.data[k], disk.data[k]}
        BY <3>3 DEF Served
      <4>2. k \in Keys /\ s3'.data[k] \in {disk.data[k], s3.data[k]}
        BY <1>2, <2>0, SentParts
      <4> HIDE DEF k
      <4>3. CASE s3'.data[k] = disk.data[k]
        BY <4>1, <4>3 DEF k
      <4>4. CASE s3'.data[k] # disk.data[k]
        <5>1. k \in Changed
          BY <4>2, <4>4 DEF Changed
        <5>2. ~TornCopy(index, meta)
          BY <1>2, <4>2, <4>4, SentParts
        <5>3. s3'.index[k] # s3'.data[k].id \/ s3'.data[k] = NoOutput
          BY <2>1, <4>4, <5>1, <5>2 DEF TornCopy
        <5> QED
          BY <4>1, <5>3 DEF k
      <4> QED
        BY <4>3, <4>4
    <3> QED
      BY <1>2, <3>1, <3>2, <3>3, ContextSound
  <2>2. CASE Ran /\ ~meta
    <3>1. ~index
      BY <1>2, <2>2 DEF TornCopy
    <3>2. s3'.index = s3.index /\ s3'.meta = s3.meta
      BY <1>2, <2>2, <3>1, SentParts
    <3>3. \A s \in Cached :
            Served(s3', disk.data, Key(conf, s)) \subseteq Served(s3, disk.data, Key(conf, s))
      BY <1>2, <2>0, <3>2, SentParts DEF Served
    <3> QED
      BY <3>2, <3>3, SoundShrinks DEF Parts
  <2>3. CASE ~Ran
    <3>1. disk.data = s3.data /\ disk.index = s3.index
      BY <1>2, <2>3 DEF Parts, Copied
    <3>2. s3'.index = s3.index /\ s3'.meta \in {disk.meta, s3.meta}
      BY <1>2, <3>1, SentParts
    <3>3. \A s \in Cached :
            /\ Served(s3', disk.data, Key(conf, s)) \subseteq Served(s3, disk.data, Key(conf, s))
            /\ Served(s3', disk.data, Key(conf, s)) \subseteq Served(disk, disk.data, Key(conf, s))
      BY <1>2, <2>0, <3>1, <3>2, SentParts DEF Served
    <3>4. Sound(disk, disk.data, conf, registry) /\ Sound(s3, disk.data, conf, registry)
      BY <2>3 DEF Parts
    <3> QED
      BY <3>1, <3>2, <3>3, <3>4, SoundShrinks
  <2> QED
    BY <2>1, <2>2, <2>3
<1>3. CASE ~UNCHANGED s3
  <2>1. PICK data \in SUBSET Changed, index \in BOOLEAN, meta \in BOOLEAN :
          /\ Sent(data, index, meta)
          /\ ~TornCopy(index, meta) \/ (data = Changed /\ index /\ meta)
    BY <1>3 DEF Uploads
  <2>2. setup.synced /\ run.pc \notin {"idle", "data"}
    BY <1>3 DEF Uploads
  <2> QED
    BY <1>2, <2>1, <2>2, SentParts
<1> QED
  BY <1>1, <1>3

LEMMA UploadFresh ==
  ASSUME Typed, Parts, Uploads
  PROVE  \A k \in Keys :
           /\ Past(s3'.index[k], conf, registry)
           /\ s3'.data[k] # NoOutput => \A u \in DOMAIN k : k[u] <= conf[u]
<1>1. \A k \in Keys : s3'.data[k] \in {disk.data[k], s3.data[k]}
                      /\ s3'.index[k] \in {disk.index[k], s3.index[k]}
  BY UploadSound
<1> QED
  BY <1>1 DEF Parts, Fresh

LEMMA NothingPast ==
  ASSUME NEW c, NEW r
  PROVE  Past(NoContent, c, r)
BY DEF Past, NoContent, Delta

\* The end of a run, with an upload or without.
LEMMA EndCoheres ==
  ASSUME Typed, Parts, Uploads, ProcessEnds,
         UNCHANGED <<setup, conf, registry, serial>>, run'.pc = "idle",
         Ran /\ ~setup.synced => run.pc # "data"
  PROVE  Parts'
<1>1. /\ ctx' = NoCtx /\ rerunFrom' = N + 1 /\ ~Ran'
      /\ IF setup.synced THEN disk' = NoCache ELSE disk' = disk
  BY Constants DEF ProcessEnds, Ran
<1>2. \A s \in Cached : Key(conf, s) \in Keys
  BY KeyOf
<1>3. Sound(s3', disk'.data, conf, registry)
  <2>1. disk' = disk \/ \A s \in Cached : disk'.data[Key(conf, s)] = NoOutput
    BY <1>1, <1>2 DEF NoCache
  <2> QED
    BY <2>1, UploadSound, SoundAlone
<1>4. Sound(disk', disk'.data, conf, registry)
  <2>1. CASE setup.synced
    BY <1>1, <2>1, NothingSound
  <2>2. CASE ~setup.synced /\ ~Ran
    BY <1>1, <2>2 DEF Parts
  <2>3. CASE ~setup.synced /\ Ran
    <3>1. /\ disk.meta = [res |-> ctx.res, failed |-> ctx.failed, delta |-> ctx.delta]
          /\ Composed /\ run.pc # "data"
      BY <2>3 DEF Parts, Saved
    <3>2. \A s \in Cached : \A o \in Served(disk, disk.data, Key(conf, s)) :
            o = disk.data[Key(conf, s)]
      BY DEF Served
    <3>3. Sound(disk, disk.data, conf, registry)
      BY <3>1, <3>2, ContextSound
    <3> QED
      BY <1>1, <2>3, <3>3
  <2> QED
    BY <2>1, <2>2, <2>3
<1>5. Fresh'
  <2>1. \A k \in Keys : /\ Past(disk'.index[k], conf, registry)
                        /\ disk'.data[k] # NoOutput => \A u \in DOMAIN k : k[u] <= conf[u]
    <3>1. CASE setup.synced
      <4>1. \A k \in Keys : disk'.index[k] = NoContent /\ disk'.data[k] = NoOutput
        BY <1>1, <3>1 DEF NoCache
      <4> QED
        BY <4>1, NothingPast
    <3>2. CASE ~setup.synced
      BY <1>1, <3>2 DEF Parts, Fresh
    <3> QED
      BY <3>1, <3>2
  <2>2. \A s \in Cached : ctx'.out[s].id = NoContent
    BY <1>1 DEF NoCtx, NoOutput
  <2> QED
    BY <2>1, <2>2, UploadFresh, NothingPast DEF Fresh
<1>6. Copied'
  BY UploadSound DEF Parts, Copied
<1>7. Place' /\ Writing' /\ Ahead' /\ Ready' /\ Saved' /\ Done'
  BY <1>1 DEF Place, Writing, Ahead, Ready, Saved, Done, AtStage
<1> QED
  BY <1>3, <1>4, <1>5, <1>6, <1>7 DEF Parts

LEMMA EndsCohere ==
  ASSUME Typed, Parts, LastUpload \/ CheckpointOnStop \/ Kill, ~torn'
  PROVE  Parts'
<1>1. ProcessEnds /\ UNCHANGED <<setup, conf, registry, serial>> /\ run'.pc = "idle"
  BY IdleTyped DEF LastUpload, CheckpointOnStop, Kill, Typed
<1>2. Uploads /\ (Ran /\ ~setup.synced => run.pc # "data")
  <2>1. CASE LastUpload \/ CheckpointOnStop
    <3>1. sync_pipeline_to_s3 \/ SyncFails
      BY <2>1 DEF LastUpload, CheckpointOnStop
    <3>2. run.pc \in {"last upload", "stopping"}
      BY <2>1 DEF LastUpload, CheckpointOnStop
    <3> QED
      BY <3>1, <3>2, SyncUploads
  <2>2. CASE Kill
    <3>1. CASE torn' = (torn \/ (run.pc = "data" /\ ~setup.synced)) /\ UNCHANGED s3
      BY <3>1 DEF Uploads
    <3>2. CASE /\ setup.synced /\ run.pc \in {"upload", "last upload", "stopping"}
               /\ \E data \in SUBSET Changed, index \in BOOLEAN :
                    /\ index => data = Changed
                    /\ Sent(data, index, FALSE)
                    /\ torn' = (torn \/ TornCopy(index, FALSE))
      <4>1. PICK data \in SUBSET Changed, index \in BOOLEAN :
              Sent(data, index, FALSE) /\ ~TornCopy(index, FALSE)
        BY <3>2
      <4> QED
        BY <3>2, <4>1 DEF Uploads
    <3> QED
      BY <2>2, <3>1, <3>2 DEF Kill
  <2> QED
    BY <2>1, <2>2
<1> QED
  BY <1>1, <1>2, EndCoheres

LEMMA UploadCoheres ==
  ASSUME Contiguous, Typed, Parts, UploadCheckpoint, ~torn'
  PROVE  Parts'
<1>1. /\ run.pc = "upload" /\ (sync_pipeline_to_s3 \/ SyncFails)
      /\ UNCHANGED <<setup, conf, registry, disk, ctx, rerunFrom, stop, serial>>
  BY DEF UploadCheckpoint
<1>2. Uploads
  BY <1>1, SyncUploads
<1>3. /\ Ran /\ Ran' /\ run.win \in Windows /\ run.at \in run.win /\ run.at \in Cached \cup {N}
      /\ ctx.res[run.at] # "none" /\ Composed
      /\ disk.meta = [res |-> ctx.res, failed |-> ctx.failed, delta |-> ctx.delta]
  <2>1. run.at \in Stages
    BY <1>1 DEF Typed, AtStage
  <2>2. run.at \in Cached \cup {N}
    BY <2>1, Constants DEF Stages, Cached
  <2> QED
    BY <1>1, <2>2 DEF Parts, Place, Saved, Ran, AtStage
<1>4. /\ run'.win = run.win
      /\ \/ run'.pc \in {"stopping", "finish"}
         \/ /\ run'.pc = "next" /\ run'.at \in run.win /\ run'.at > run.at
            /\ \A u \in run.win : u > run.at => u >= run'.at
  <2> DEFINE next == start_index(run.win, run.at + 1)
  <2>1. run.win \in SUBSET Stages /\ run.at + 1 \in Nat
    BY <1>1, Constants DEF Typed, Run, AtStage
  <2>2. \/ next.pc = "finish"
        \/ /\ next.pc = "next" /\ next.at \in run.win /\ next.at >= run.at + 1
           /\ \A u \in run.win : u >= run.at + 1 => u >= next.at
    <3> DEFINE s == run.at + 1
    <3> SUFFICES \/ start_index(run.win, s).pc = "finish"
                 \/ /\ start_index(run.win, s).pc = "next"
                    /\ start_index(run.win, s).at \in run.win /\ start_index(run.win, s).at >= s
                    /\ \A u \in run.win : u >= s => u >= start_index(run.win, s).at
      OBVIOUS
    <3>1. s \in Nat
      BY <2>1
    <3> HIDE DEF s
    <3> QED
      BY <2>1, <3>1, StartIndexTyped
  <2>3. /\ run \in Run
        /\ \/ run' = Go("stopping") \/ run' = Go("finish")
           \/ run' = [run EXCEPT !.pc = next.pc, !.at = next.at]
    BY DEF UploadCheckpoint, Typed
  <2> HIDE DEF next
  <2>4. run'.win = run.win
    BY <2>3 DEF Go, Run
  <2>5. \/ run'.pc \in {"stopping", "finish"}
        \/ run'.pc = next.pc /\ run'.at = next.at
    BY <2>3 DEF Go, Run
  <2>6. \A u \in run.win : u \in Nat /\ run.at \in Nat
    BY <1>3, Constants, <2>1
  <2>7. next.pc = "next" => next.at > run.at /\ \A u \in run.win : u > run.at => u >= next.at
    BY <2>2, <2>6
  <2> QED
    BY <2>2, <2>4, <2>5, <2>7
<1>5. Fresh'
  BY <1>1, <1>2, UploadFresh DEF Parts, Fresh
<1>6. Copied'
  BY <1>1, <1>2, <1>3, UploadSound DEF Parts, Copied
<1>7. Place'
  BY <1>1, <1>3, <1>4 DEF Place, AtStage
<1>8. Writing' /\ Ready' /\ Done'
  BY <1>3, <1>4 DEF Writing, Ready, Done
<1>9. Ahead'
  <2> SUFFICES ASSUME run'.pc = "next" PROVE Ahead'
    BY <1>4 DEF Ahead, AtStage
  <2>1. /\ run'.at \in run.win /\ run'.at > run.at
        /\ \A u \in run.win : u > run.at => u >= run'.at
    BY <1>4
  <2>2. run.win \subseteq Nat /\ run.at..run'.at \subseteq run.win
    BY <1>3, <2>1, Constants, WindowsAssumption DEF Contiguous
  <2>3. /\ \A s \in Cached : s < run.at /\ ctx.res[s] = "none" => ctx.out[s] = NoOutput
        /\ \A s \in Stages : s > run.at => ctx.res[s] = "none"
    BY <1>1 DEF Parts, Ahead, AtStage
  <2>4. ASSUME NEW s \in Cached, s < run'.at, ctx.res[s] = "none"
        PROVE  ctx.out[s] = NoOutput
    <3>1. s # run.at
      BY <1>3, <2>4
    <3>2. ~(s > run.at)
      <4> SUFFICES ASSUME s > run.at PROVE FALSE
        OBVIOUS
      <4>1. s \in run.at..run'.at
        BY <1>3, <2>1, <2>2, <2>4, Constants
      <4> QED
        BY <2>1, <2>2, <2>4, <4>1, <1>3, Constants
    <3> QED
      BY <2>2, <2>3, <2>4, <3>1, <3>2, <1>3, Constants
  <2>5. \A s \in Stages : s > run'.at => s > run.at
    BY <1>3, <2>1, <2>2, Constants
  <2>6. run'.at \in Stages
    BY <1>3, <2>1, WindowsAssumption DEF Stages
  <2> QED
    BY <1>1, <2>1, <2>3, <2>4, <2>5, <2>6 DEF Ahead
<1>10. Saved'
  <2>1. Composed'
    <3>1. /\ UNCHANGED <<conf, registry, disk, ctx>> /\ run.pc # "data" /\ run'.pc # "data"
      BY <1>1, <1>4
    <3>2. s3'.index \in {disk.index, s3.index}
      BY <1>2, UploadSound
    <3> QED
      BY <1>3, <3>1, <3>2 DEF Composed
  <2> QED
    BY <1>1, <1>3, <2>1 DEF Saved
<1>11. Sound(s3', disk'.data, conf', registry')
  BY <1>1, <1>2, UploadSound
<1> QED
  BY <1>3, <1>5, <1>6, <1>7, <1>8, <1>9, <1>10, <1>11 DEF Parts

-----------------------------------------------------------------------------
(* The stages.                                                             *)

\* A save touches the results only.
LEMMA SaveRest ==
  ASSUME NEW c \in Context', disk \in Checkpoint, save_pipeline_metadata(c)
  PROVE  /\ ctx'.failed = c.failed /\ ctx'.delta = c.delta /\ ctx'.out = c.out
         /\ disk'.data = disk.data /\ disk'.index = disk.index
         /\ disk'.meta = [res |-> ctx'.res, failed |-> ctx'.failed, delta |-> ctx'.delta]
         /\ ctx'.res = merge_persisted_stage_results(c)
<1> DEFINE res == merge_persisted_stage_results(c)
<1>1. ctx' = [c EXCEPT !.res = res]
      /\ disk' = [disk EXCEPT !.meta = [res |-> res, failed |-> c.failed, delta |-> c.delta]]
  BY DEF save_pipeline_metadata
<1>2. {"res", "failed", "delta", "out"} \subseteq DOMAIN c
      /\ {"data", "index", "meta"} \subseteq DOMAIN disk
  BY DEF Context, Checkpoint
<1> HIDE DEF res
<1>3. /\ ctx'.failed = c.failed /\ ctx'.delta = c.delta /\ ctx'.out = c.out /\ ctx'.res = res
      /\ disk'.data = disk.data /\ disk'.index = disk.index
      /\ disk'.meta = [res |-> res, failed |-> c.failed, delta |-> c.delta]
  BY <1>1, <1>2
<1> QED
  BY <1>3 DEF res

LEMMA Merged ==
  ASSUME NEW c, NEW s \in Stages
  PROVE  merge_persisted_stage_results(c)[s] =
           IF c.res[s] = "none" /\ s <= rerunFrom' /\ Reached(disk.meta, s)
           THEN "completed" ELSE c.res[s]
<1> DEFINE kept == {t \in Stages :
                      /\ disk.meta.res[t] = "completed"
                      /\ t <= rerunFrom'
                      /\ \A u \in 1..t : disk.meta.res[u] \in {"none", "completed"}}
<1>1. merge_persisted_stage_results(c) =
        [t \in Stages |-> IF c.res[t] = "none" /\ t \in kept THEN "completed" ELSE c.res[t]]
  BY Zenon DEF merge_persisted_stage_results
<1>2. s \in kept <=> s <= rerunFrom' /\ Reached(disk.meta, s)
  BY DEF Reached
<1> HIDE DEF kept
<1> QED
  BY <1>1, <1>2

\* A run that has begun a stage, or begins one, saves what it has: a save adds
\* nothing to it.
LEMMA SaveAddsNothing ==
  ASSUME Typed, NEW c \in Context', save_pipeline_metadata(c),
         \A s \in Stages : c.res[s] = "none" /\ s <= rerunFrom' => ~Reached(disk.meta, s)
  PROVE  /\ ctx'.res = c.res /\ ctx'.failed = c.failed
         /\ ctx'.delta = c.delta /\ ctx'.out = c.out
         /\ disk'.data = disk.data /\ disk'.index = disk.index
         /\ disk'.meta = [res |-> ctx'.res, failed |-> ctx'.failed, delta |-> ctx'.delta]
<1>0. disk \in Checkpoint
  BY DEF Typed
<1>1. \A s \in Stages : ctx'.res[s] = c.res[s]
  BY <1>0, SaveRest, Merged
<1>2. DOMAIN ctx'.res = Stages
  BY <1>0, SaveRest DEF merge_persisted_stage_results
<1>3. c.res \in [Stages -> Statuses]
  BY DEF Context, Statuses
<1>4. ctx'.res = [s \in Stages |-> ctx'.res[s]]
  BY <1>0, SaveRest DEF merge_persisted_stage_results
<1>5. ctx'.res = c.res
  BY <1>1, <1>3, <1>4
<1> QED
  BY <1>0, <1>5, SaveRest

LEMMA BeginCoheres ==
  ASSUME Typed, Parts, Begin
  PROVE  Parts'
<1> DEFINE blocked == failed_corpus_stage([ctx EXCEPT !.failed = @ \ {run.at}], run.at)
           status == IF blocked THEN "failed" ELSE "running"
           c == [[ctx EXCEPT !.failed = @ \ {run.at}] EXCEPT !.res[run.at] = status]
<1>1. /\ run.pc = "next" /\ rerunFrom' = mark_rerun(run.at)
      /\ save_pipeline_metadata(c)
      /\ run' = Go(IF blocked THEN "upload" ELSE "run")
      /\ UNCHANGED <<setup, conf, registry, s3, stop, serial, counts, torn>>
  BY DEF Begin
<1>2. run.at \in Stages /\ run.at \in Nat /\ run.at <= N /\ run.at \in run.win
      /\ run.win \in Windows
  BY <1>1, Constants DEF Typed, AtStage, Parts, Place, Stages
<1>3. status \in {"failed", "running"}
  OBVIOUS
<1> HIDE DEF blocked, status
<1>4. /\ c.res = [ctx.res EXCEPT ![run.at] = status]
      /\ c.failed = ctx.failed \ {run.at} /\ c.delta = ctx.delta /\ c.out = ctx.out
      /\ c \in Context'
  <2>1. ctx \in Context /\ Context' = Context
    BY <1>1, TypesStay DEF Typed
  <2>2. status \in Statuses
    BY <1>3 DEF Statuses
  <2> QED
    BY <1>2, <2>1, <2>2 DEF Context
<1> HIDE DEF c
<1>5. Ran' /\ rerunFrom' <= N /\ (~Ran => rerunFrom' = run.at)
  BY <1>1, <1>2, Constants DEF mark_rerun, Ran, Typed
<1>6. Composed /\ Ahead /\ ctx.res \in [Stages -> Statuses]
  BY <1>1 DEF Parts, Ready, Saved, Typed, Context
<1>7. /\ \A s \in Cached : s < run.at /\ ctx.res[s] = "none" => ctx.out[s] = NoOutput
      /\ \A s \in Stages : s > run.at => ctx.res[s] = "none"
  BY <1>1, <1>6 DEF Ahead, AtStage
<1>8. /\ ctx'.res = c.res /\ ctx'.failed = c.failed
      /\ ctx'.delta = c.delta /\ ctx'.out = c.out
      /\ disk'.data = disk.data /\ disk'.index = disk.index
      /\ disk'.meta = [res |-> ctx'.res, failed |-> ctx'.failed, delta |-> ctx'.delta]
  <2>1. ASSUME NEW s \in Stages, c.res[s] = "none", s <= rerunFrom'
        PROVE  ~Reached(disk.meta, s)
    <3>1. s # run.at /\ ctx.res[s] = "none"
      BY <1>2, <1>3, <1>4, <1>6, <2>1
    <3>2. CASE Ran
      BY <3>1, <3>2 DEF Parts, Saved, Reached
    <3>3. CASE ~Ran
      BY <1>1, <1>2, <1>5, <2>1, <3>1, <3>3, Constants DEF Parts, Ready
    <3> QED
      BY <3>2, <3>3
  <2> QED
    BY <1>1, <1>4, <2>1, SaveAddsNothing
<1>9. /\ \A s \in Stages : ctx'.res[s] = IF s = run.at THEN status ELSE ctx.res[s]
      /\ ctx'.res[run.at] \notin {"none", "completed"}
  BY <1>2, <1>3, <1>4, <1>6, <1>8
<1>10. /\ run'.pc \in {"run", "upload"} /\ run'.at = run.at /\ run'.win = run.win
  BY <1>1 DEF Go, Typed, Run
<1>11. Composed'
  <2>1. ASSUME NEW s \in Cached, ctx'.res[s] = "completed"
        PROVE  ctx.res[s] = "completed" /\ s # run.at
    BY <1>9, <2>1, Constants
  <2>2. \A s \in Cached : ctx'.res[s] = "none" => ctx.res[s] = "none"
    BY <1>9, Constants
  <2>3. run.pc # "data" /\ run'.pc # "data" /\ UNCHANGED <<conf, registry, s3>>
    BY <1>1, <1>10
  <2>4. ctx'.failed = ctx.failed \ {run.at} /\ ctx'.delta = ctx.delta /\ ctx'.out = ctx.out
    BY <1>4, <1>8
  <2>5. \A s \in Cached : ctx'.res[s] = "completed" =>
         /\ \A u \in Before(Cached, s) : ctx'.out[s].ins[u] = ctx'.out[u].id
         /\ ctx'.out[s].part => s \in ctx'.failed
         /\ ctx'.out[s] # NoOutput
         /\ ~(s = run'.at /\ run'.pc = "data") => disk'.data[Key(conf', s)] = ctx'.out[s]
    BY <1>6, <1>8, <2>1, <2>3, <2>4 DEF Composed
  <2>6. ctx'.res[Loading] = "completed" =>
         /\ ctx'.delta = ctx'.out[Loading].id
         /\ \A d \in {disk', s3'} :
              d.index[Key(conf', Loading)] = Now(conf', registry') =>
                  ctx'.delta = Now(conf', registry')
    BY <1>6, <1>8, <2>1, <2>3, <2>4, Constants DEF Composed
  <2>7. \A s, u \in Cached : u < s /\ ctx'.res[s] = "completed" /\ ctx'.res[u] = "none"
         => ctx'.out[u] = NoOutput
    BY <1>6, <2>1, <2>2, <2>4 DEF Composed
  <2> QED
    BY <2>5, <2>6, <2>7 DEF Composed
<1>12. Ahead'
  <2>1. run'.pc # "next" /\ ctx'.out = ctx.out
    BY <1>4, <1>8, <1>10
  <2>2. \A s \in Cached : s < run'.at /\ ctx'.res[s] = "none" => ctx'.out[s] = NoOutput
    BY <1>7, <1>9, <1>10, <2>1, Constants
  <2>3. \A s \in Stages : s > run'.at => ctx'.res[s] = "none"
    BY <1>2, <1>7, <1>9, <1>10, Constants
  <2> QED
    BY <2>1, <2>2, <2>3 DEF Ahead
<1>13. Fresh' /\ Copied'
  <2>1. /\ UNCHANGED <<setup, conf, registry, s3>> /\ ctx'.out = ctx.out
        /\ disk'.data = disk.data /\ disk'.index = disk.index
    BY <1>1, <1>4, <1>8
  <2> QED
    BY <1>5, <2>1 DEF Parts, Fresh, Copied
<1>14. Place' /\ Writing' /\ Ready' /\ Done'
  BY <1>2, <1>5, <1>9, <1>10 DEF Place, Writing, Ready, Done, AtStage
<1>15. Saved'
  BY <1>8, <1>11 DEF Saved
<1>16. Sound(s3', disk'.data, conf', registry')
  BY <1>1, <1>8 DEF Parts
<1> QED
  BY <1>5, <1>11, <1>12, <1>13, <1>14, <1>15, <1>16 DEF Parts


LEMMA CompleteCoheres ==
  ASSUME Typed, Parts, NEW part \in BOOLEAN, Complete(part)
  PROVE  Parts'
<1>1. /\ run.pc = "run" /\ UNCHANGED rerunFrom /\ serial' = serial + 1
      /\ run' = [Go(IF run.at \in Cached THEN "data" ELSE "upload")
                   EXCEPT !.done = @ \cup {run.at}]
      /\ part => run.at \in Artifact
      /\ UNCHANGED <<setup, conf, registry, s3, stop, torn>>
  BY DEF Complete
<1>2. PICK c \in Context' :
        /\ save_pipeline_metadata(c)
        /\ c.res = [ctx.res EXCEPT ![run.at] = "completed"]
        /\ c.failed = IF part THEN ctx.failed \cup {run.at} ELSE ctx.failed
        /\ c.delta = ComputedDelta(run.at)
        /\ c.out = [s \in Cached |-> IF s = run.at THEN Produced(s, part) ELSE ctx.out[s]]
  BY CompleteSaves
<1>3. /\ run.at \in Stages /\ run.at \in Nat /\ run.at <= N /\ run.at \in run.win
      /\ run.win \in Windows /\ Ran /\ Ran' /\ Composed
      /\ disk.meta = [res |-> ctx.res, failed |-> ctx.failed, delta |-> ctx.delta]
      /\ ctx.res \in [Stages -> Statuses] /\ ctx.out \in [Cached -> Output]
  BY <1>1, Constants, SMTT(60) DEF Typed, Context, AtStage, Parts, Place, Saved, Stages, Ran
<1>4. /\ \A s \in Cached : s < run.at /\ ctx.res[s] = "none" => ctx.out[s] = NoOutput
      /\ \A s \in Stages : s > run.at => ctx.res[s] = "none"
  BY <1>1 DEF Parts, Ahead, AtStage
<1>5. /\ ctx'.res = c.res /\ ctx'.failed = c.failed
      /\ ctx'.delta = c.delta /\ ctx'.out = c.out
      /\ disk'.data = disk.data /\ disk'.index = disk.index
      /\ disk'.meta = [res |-> ctx'.res, failed |-> ctx'.failed, delta |-> ctx'.delta]
  <2>1. \A s \in Stages : c.res[s] = "none" => ~Reached(disk.meta, s)
    BY <1>2, <1>3 DEF Reached
  <2> QED
    BY <1>2, <2>1, SaveAddsNothing
<1>6. /\ \A s \in Stages : ctx'.res[s] = IF s = run.at THEN "completed" ELSE ctx.res[s]
      /\ \A s \in Cached : ctx'.out[s] = IF s = run.at THEN Produced(s, part) ELSE ctx.out[s]
      /\ ctx'.failed = IF part THEN ctx.failed \cup {run.at} ELSE ctx.failed
      /\ ctx'.delta = ComputedDelta(run.at)
  BY <1>2, <1>3, <1>5
<1>7. /\ run'.pc = (IF run.at \in Cached THEN "data" ELSE "upload")
      /\ run'.at = run.at /\ run'.win = run.win
  BY <1>1 DEF Go, Typed, Run
<1>8. run.at \in Cached =>
        /\ Produced(run.at, part).id =
             IF run.at = Loading THEN Now(conf, registry) ELSE <<serial'>>
        /\ Produced(run.at, part).ins = [u \in Before(Cached, run.at) |-> ctx.out[u].id]
        /\ Produced(run.at, part).part = part
        /\ Produced(run.at, part) # NoOutput
  BY <1>1 DEF Produced, ComputedDelta, Now, NoOutput, NoContent, Delta
<1>9. ASSUME NEW s \in Cached, ctx'.res[s] = "completed", s # run.at
      PROVE  ctx.res[s] = "completed" /\ s < run.at /\ ctx'.out[s] = ctx.out[s]
  BY <1>3, <1>4, <1>6, <1>9, Constants
<1>10. Composed'
  <2>1. ASSUME NEW s \in Cached, ctx'.res[s] = "completed"
        PROVE  /\ \A u \in Before(Cached, s) : ctx'.out[s].ins[u] = ctx'.out[u].id
               /\ ctx'.out[s].part => s \in ctx'.failed
               /\ ctx'.out[s] # NoOutput
               /\ ~(s = run'.at /\ run'.pc = "data")
                    => disk'.data[Key(conf', s)] = ctx'.out[s]
               /\ \A u \in Cached : u < s /\ ctx'.res[u] = "none" => ctx'.out[u] = NoOutput
    <3>1. \A u \in Before(Cached, s) : u \in Cached /\ u < s
      BY DEF Before
    <3>2. CASE s = run.at
      <4>1. \A u \in Cached : u < s => ctx'.out[u] = ctx.out[u] /\ ctx'.res[u] = ctx.res[u]
        <5> SUFFICES ASSUME NEW u \in Cached, u < s
                     PROVE  ctx'.out[u] = ctx.out[u] /\ ctx'.res[u] = ctx.res[u]
          OBVIOUS
        <5>1. u # run.at /\ u \in Stages
          BY <1>3, <3>2, Constants
        <5> QED
          BY <1>6, <5>1
      <4>2. ctx'.out[s] = Produced(run.at, part)
        BY <1>6, <3>2
      <4>3. \A u \in Before(Cached, s) : ctx'.out[s].ins[u] = ctx'.out[u].id
        BY <1>8, <3>1, <3>2, <4>1, <4>2
      <4>4. ctx'.out[s].part => s \in ctx'.failed
        BY <1>6, <1>8, <3>2, <4>2
      <4> QED
        BY <1>4, <1>7, <1>8, <3>2, <4>1, <4>2, <4>3, <4>4
    <3>3. CASE s # run.at
      <4>1. ctx.res[s] = "completed" /\ s < run.at /\ ctx'.out[s] = ctx.out[s]
        BY <1>9, <2>1, <3>3
      <4>2. \A u \in Cached : u < s =>
              /\ ctx'.out[u] = ctx.out[u]
              /\ ctx'.res[u] = ctx.res[u]
        BY <1>3, <1>6, <4>1, Constants
      <4>3. s \in ctx.failed => s \in ctx'.failed
        BY <1>6
      <4>4. disk.data[Key(conf, s)] = ctx.out[s]
        BY <1>1, <1>3, <4>1 DEF Composed
      <4>5. /\ \A u \in Before(Cached, s) : ctx.out[s].ins[u] = ctx.out[u].id
            /\ ctx.out[s].part => s \in ctx.failed
            /\ ctx.out[s] # NoOutput
            /\ \A u \in Cached : u < s /\ ctx.res[u] = "none" => ctx.out[u] = NoOutput
        BY <1>3, <4>1 DEF Composed
      <4> QED
        BY <1>1, <1>5, <3>1, <4>1, <4>2, <4>3, <4>4, <4>5
    <3> QED
      BY <3>2, <3>3
  <2>2. ctx'.res[Loading] = "completed" =>
          /\ ctx'.delta = ctx'.out[Loading].id
          /\ \A d \in {disk', s3'} : d.index[Key(conf', Loading)] = Now(conf', registry')
               => ctx'.delta = Now(conf', registry')
    <3>1. CASE run.at = Loading
      BY <1>1, <1>6, <1>8, <3>1, Constants DEF ComputedDelta, Now
    <3>2. CASE run.at # Loading
      <4>1. /\ ctx'.delta = ctx.delta /\ ctx'.out[Loading] = ctx.out[Loading]
            /\ ctx'.res[Loading] = ctx.res[Loading]
        BY <1>6, <3>2, Constants DEF ComputedDelta
      <4> QED
        BY <1>1, <1>3, <1>5, <4>1 DEF Composed
    <3> QED
      BY <3>1, <3>2
  <2> QED
    BY <2>1, <2>2 DEF Composed
<1>11. Fresh'
  <2>1. \A s \in Cached : Past(ctx'.out[s].id, conf, registry)
    <3> SUFFICES ASSUME NEW s \in Cached PROVE Past(ctx'.out[s].id, conf, registry)
      OBVIOUS
    <3>1. CASE s # run.at
      BY <1>6, <3>1 DEF Parts, Fresh
    <3>2. CASE s = run.at
      <4>1. ctx'.out[s].id \in {Now(conf, registry), <<serial'>>}
        BY <1>6, <1>8, <3>2
      <4>2. Past(Now(conf, registry), conf, registry)
        BY DEF Past, Now, Delta
      <4>3. Past(<<serial'>>, conf, registry)
        BY DEF Past, Delta
      <4> QED
        BY <4>1, <4>2, <4>3
    <3> QED
      BY <3>1, <3>2
  <2> QED
    BY <1>1, <1>5, <2>1 DEF Parts, Fresh
<1>12. Writing'
  <2> SUFFICES ASSUME run.at \in Cached PROVE Writing'
    BY <1>7 DEF Writing
  <2>1. CASE run.at = Loading
    <3>1. ~part
      BY <1>1, <2>1 DEF Artifact, Loading
    <3> QED
      BY <1>1, <1>6, <1>7, <1>8, <2>1, <3>1 DEF Writing
  <2>2. CASE run.at # Loading
    <3>1. \A x \in Contents : x # <<serial'>>
      <4>1. \A x \in Deltas : x # <<serial'>>
        BY DEF Deltas, Delta
      <4>2. \A n \in 1..serial : <<n>> # <<serial'>>
        BY <1>1 DEF Typed
      <4>3. NoContent # <<serial'>>
        BY DEF NoContent
      <4> QED
        BY <4>1, <4>2, <4>3 DEF Contents
    <3>2. \A d \in {disk', s3'} : \A k \in Keys : d.index[k] \in Contents
      BY <1>1, <1>5 DEF Typed, Checkpoint
    <3> QED
      BY <1>6, <1>7, <1>8, <2>2, <3>1, <3>2 DEF Writing
  <2> QED
    BY <2>1, <2>2
<1>13. Ahead'
  <2>1. \A s \in Cached : s < run'.at /\ ctx'.res[s] = "none" => ctx'.out[s] = NoOutput
    BY <1>3, <1>4, <1>6, <1>7, Constants
  <2>2. \A s \in Stages : s > run'.at => ctx'.res[s] = "none"
    BY <1>3, <1>4, <1>6, <1>7, Constants
  <2> QED
    BY <1>7, <2>1, <2>2 DEF Ahead
<1>14. Copied' /\ Place' /\ Ready' /\ Done'
  <2>1. run'.pc \in {"data", "upload"}
    BY <1>7
  <2>2. ctx'.res[run'.at] # "none"
    BY <1>3, <1>6, <1>7
  <2> QED
    BY <1>1, <1>3, <1>7, <2>1, <2>2 DEF Parts, Copied, Place, Ready, Done, AtStage
<1>15. Saved'
  BY <1>5, <1>10 DEF Saved
<1>16. Sound(s3', disk'.data, conf', registry')
  BY <1>1, <1>5 DEF Parts
<1> QED
  BY <1>3, <1>10, <1>11, <1>12, <1>13, <1>14, <1>15, <1>16 DEF Parts

LEMMA FailCoheres ==
  ASSUME Typed, Parts, Fail
  PROVE  Parts'
<1> DEFINE c == [ctx EXCEPT !.res[run.at] = "failed",
                            !.failed = mark_units_failed(@, run.at)]
<1>1. /\ run.pc = "run" /\ UNCHANGED rerunFrom /\ save_pipeline_metadata(c)
      /\ run' = [Go("upload") EXCEPT !.kept = FALSE]
      /\ UNCHANGED <<setup, conf, registry, s3, stop, serial, torn>>
  BY DEF Fail
<1>2. /\ run.at \in Stages /\ run.at \in run.win
      /\ run.win \in Windows /\ Ran /\ Ran' /\ Composed
      /\ disk.meta = [res |-> ctx.res, failed |-> ctx.failed, delta |-> ctx.delta]
      /\ ctx \in Context
  BY <1>1 DEF Typed, AtStage, Parts, Place, Saved, Ran
<1>3. /\ \A s \in Cached : s < run.at /\ ctx.res[s] = "none" => ctx.out[s] = NoOutput
      /\ \A s \in Stages : s > run.at => ctx.res[s] = "none"
  BY <1>1 DEF Parts, Ahead, AtStage
<1>4. /\ c.res = [ctx.res EXCEPT ![run.at] = "failed"]
      /\ ctx.failed \subseteq c.failed /\ c.delta = ctx.delta /\ c.out = ctx.out
      /\ c \in Context'
  <2>1. /\ mark_units_failed(ctx.failed, run.at) \in SUBSET Artifact
        /\ ctx.failed \subseteq mark_units_failed(ctx.failed, run.at)
    BY <1>2 DEF mark_units_failed, Context
  <2>2. Context' = Context
    BY <1>1, TypesStay
  <2> QED
    BY <1>2, <2>1, <2>2 DEF Context, Statuses
<1> HIDE DEF c
<1>5. /\ ctx'.res = c.res /\ ctx'.failed = c.failed
      /\ ctx'.delta = c.delta /\ ctx'.out = c.out
      /\ disk'.data = disk.data /\ disk'.index = disk.index
      /\ disk'.meta = [res |-> ctx'.res, failed |-> ctx'.failed, delta |-> ctx'.delta]
  <2>1. \A s \in Stages : c.res[s] = "none" => ~Reached(disk.meta, s)
    BY <1>2, <1>4 DEF Reached, Context
  <2> QED
    BY <1>1, <1>4, <2>1, SaveAddsNothing
<1>6. \A s \in Stages : ctx'.res[s] = IF s = run.at THEN "failed" ELSE ctx.res[s]
  BY <1>2, <1>4, <1>5 DEF Context
<1>7. run'.pc = "upload" /\ run'.at = run.at /\ run'.win = run.win
  BY <1>1 DEF Go, Typed, Run
<1>8. Composed'
  <2>1. \A s \in Cached : ctx'.res[s] = "completed" => ctx.res[s] = "completed"
    BY <1>6, Constants
  <2>2. \A s \in Cached : ctx'.res[s] = "none" => ctx.res[s] = "none"
    BY <1>6, Constants
  <2>3. run.pc # "data" /\ run'.pc # "data" /\ UNCHANGED <<conf, registry, s3>>
    BY <1>1, <1>7
  <2>4. ctx.failed \subseteq ctx'.failed /\ ctx'.delta = ctx.delta /\ ctx'.out = ctx.out
    BY <1>4, <1>5
  <2>5. \A s \in Cached : ctx'.res[s] = "completed" =>
         /\ \A u \in Before(Cached, s) : ctx'.out[s].ins[u] = ctx'.out[u].id
         /\ ctx'.out[s].part => s \in ctx'.failed
         /\ ctx'.out[s] # NoOutput
         /\ ~(s = run'.at /\ run'.pc = "data") => disk'.data[Key(conf', s)] = ctx'.out[s]
    BY <1>2, <1>5, <2>1, <2>3, <2>4 DEF Composed
  <2>6. ctx'.res[Loading] = "completed" =>
         /\ ctx'.delta = ctx'.out[Loading].id
         /\ \A d \in {disk', s3'} :
              d.index[Key(conf', Loading)] = Now(conf', registry') =>
                  ctx'.delta = Now(conf', registry')
    BY <1>2, <1>5, <2>1, <2>3, <2>4, Constants DEF Composed
  <2>7. \A s, u \in Cached : u < s /\ ctx'.res[s] = "completed" /\ ctx'.res[u] = "none"
         => ctx'.out[u] = NoOutput
    BY <1>2, <2>1, <2>2, <2>4 DEF Composed
  <2> QED
    BY <2>5, <2>6, <2>7 DEF Composed
<1>9. Ahead'
  <2>1. \A s \in Cached : s < run'.at /\ ctx'.res[s] = "none" => ctx'.out[s] = NoOutput
    BY <1>3, <1>4, <1>5, <1>6, <1>7, Constants
  <2>2. \A s \in Stages : s > run'.at => ctx'.res[s] = "none"
    BY <1>2, <1>3, <1>6, <1>7, Constants
  <2> QED
    BY <1>7, <2>1, <2>2 DEF Ahead
<1>10. Fresh' /\ Copied'
  BY <1>1, <1>2, <1>4, <1>5 DEF Parts, Fresh, Copied
<1>11. Place' /\ Writing' /\ Ready' /\ Done'
  BY <1>2, <1>6, <1>7 DEF Place, Writing, Ready, Done, AtStage
<1>12. Saved'
  BY <1>5, <1>8 DEF Saved
<1>13. Sound(s3', disk'.data, conf', registry')
  BY <1>1, <1>5 DEF Parts
<1> QED
  BY <1>2, <1>8, <1>9, <1>10, <1>11, <1>12, <1>13 DEF Parts

\* The copy is sound when the host has a new output for a stage: no index names
\* that of an artifact stage, and that of document_loading is what the delta
\* recorded loads if the index there names it.
LEMMA SoundWithNew ==
  ASSUME Typed, Parts, run.pc = "data", NEW own,
         \A s \in Cached : s # run.at => own[Key(conf, s)] = disk.data[Key(conf, s)],
         own[Key(conf, run.at)] = ctx.out[run.at]
  PROVE  Sound(s3, own, conf, registry)
<1>1. /\ run.at \in Cached /\ Sound(s3, disk.data, conf, registry) /\ Writing
      /\ \A s \in Cached : Key(conf, s) \in Keys
  BY KeyOf DEF Typed, Parts
<1>2. \A s \in Cached : s # run.at =>
        Served(s3, own, Key(conf, s)) = Served(s3, disk.data, Key(conf, s))
  BY DEF Served
<1>3. \A o \in Served(s3, own, Key(conf, run.at)) :
        \/ o \in Served(s3, disk.data, Key(conf, run.at))
        \/ o = ctx.out[run.at] /\ o.id = s3.index[Key(conf, run.at)]
  BY DEF Served
<1>4. CASE run.at # Loading \/ s3.index[Key(conf, Loading)] # Now(conf, registry)
  <2>1. ctx.out[run.at].id # s3.index[Key(conf, run.at)]
    BY <1>1, <1>4 DEF Writing
  <2>2. \A s \in Cached :
          Served(s3, own, Key(conf, s)) \subseteq Served(s3, disk.data, Key(conf, s))
    BY <1>2, <1>3, <2>1
  <2> QED
    BY <1>1, <2>2, SoundShrinks
<1>5. CASE run.at = Loading /\ s3.index[Key(conf, Loading)] = Now(conf, registry)
  <2>1. ctx.out[Loading].id = Now(conf, registry) /\ ~ctx.out[Loading].part
    BY <1>1, <1>5 DEF Writing, Parts
  <2>2. s3.meta.res[Loading] = "completed" => s3.meta.delta = Now(conf, registry)
    BY <1>1, <1>5 DEF Sound
  <2>3. ASSUME Reached(s3.meta, Loading), NEW o \in Served(s3, own, Key(conf, Loading))
        PROVE  Fits(s3, own, conf, registry, Loading, o)
    <3>1. Before(Cached, Loading) = {}
      BY Constants DEF Before, Cached, Loading
    <3>2. s3.meta.res[Loading] = "completed"
      BY <2>3 DEF Reached
    <3>3. CASE o \in Served(s3, disk.data, Key(conf, Loading))
      <4>1. Fits(s3, disk.data, conf, registry, Loading, o)
        BY <1>1, <2>3, <3>3, Constants DEF Sound
      <4>2. Whole(s3, disk.data, conf, Loading)
        BY DEF Whole, Loading
      <4> QED
        BY <3>1, <4>1, <4>2 DEF Fits
    <3>4. CASE o = ctx.out[Loading]
      BY <2>1, <2>2, <3>1, <3>2, <3>4 DEF Fits
    <3> QED
      BY <1>3, <1>5, <3>3, <3>4
  <2>4. ASSUME NEW s \in Cached, s # Loading, Reached(s3.meta, s),
               NEW o \in Served(s3, own, Key(conf, s))
        PROVE  Fits(s3, own, conf, registry, s, o)
    <3>1. Fits(s3, disk.data, conf, registry, s, o)
      BY <1>1, <1>2, <1>5, <2>4 DEF Sound
    <3>2. Whole(s3, own, conf, s) => Whole(s3, disk.data, conf, s)
      <4>1. \A v \in 2..s : v \in Cached /\ v # Loading
        BY <2>4, Constants DEF Cached, Loading
      <4> QED
        BY <1>2, <1>5, <4>1 DEF Whole
    <3>3. \A u \in Before(Cached, s) :
            /\ s3.meta.res[u] = "none" => o.ins[u] = NoContent
            /\ s3.meta.res[u] = "completed" /\ Served(s3, own, Key(conf, u)) # {}
                 => o.ins[u] = s3.index[Key(conf, u)]
      <4> SUFFICES ASSUME NEW u \in Before(Cached, s)
                   PROVE  /\ s3.meta.res[u] = "none" => o.ins[u] = NoContent
                          /\ s3.meta.res[u] = "completed" /\ Served(s3, own, Key(conf, u)) # {}
                               => o.ins[u] = s3.index[Key(conf, u)]
        OBVIOUS
      <4>1. u \in Cached
        BY DEF Before
      <4>2. CASE u = Loading
        BY <1>5, <2>4, <3>1, <4>2 DEF Fits
      <4>3. CASE u # Loading
        BY <1>2, <1>5, <3>1, <4>1, <4>3 DEF Fits
      <4> QED
        BY <4>2, <4>3
    <3> QED
      BY <3>1, <3>2, <3>3 DEF Fits
  <2> QED
    BY <1>1, <2>3, <2>4 DEF Sound
<1> QED
  BY <1>4, <1>5

LEMMA SaveDataCoheres ==
  ASSUME Typed, Parts, SaveData, ~torn'
  PROVE  Parts'
<1>1. /\ run.pc = "data" /\ run.at \in Cached
      /\ disk' = [disk EXCEPT !.data[stage_cache_key(run.at)] = ctx.out[run.at]]
      /\ run' = Go("index")
      /\ UNCHANGED <<setup, conf, registry, s3, ctx, rerunFrom, stop, serial>>
  BY DEF SaveData, Typed
<1>2. \A s \in Cached : Key(conf, s) \in Keys /\ (s # run.at => Key(conf, s) # Key(conf, run.at))
  BY <1>1, KeyOf, KeysDiffer
<1>3. /\ disk'.index = disk.index /\ disk'.meta = disk.meta
      /\ disk'.data = [disk.data EXCEPT ![Key(conf, run.at)] = ctx.out[run.at]]
      /\ DOMAIN disk.data = Keys
  BY <1>1, KeyOf DEF Typed, Checkpoint
<1>4. /\ disk'.data[Key(conf, run.at)] = ctx.out[run.at]
      /\ \A s \in Cached : s # run.at => disk'.data[Key(conf, s)] = disk.data[Key(conf, s)]
  BY <1>1, <1>2, <1>3
<1>5. run'.pc = "index" /\ run'.at = run.at /\ run'.win = run.win
  BY <1>1 DEF Go, Typed, Run
<1>6. Ran /\ Ran' /\ Composed
  BY <1>1 DEF Parts, Place, Saved, Ran
<1>7. Composed'
  <2>1. \A s \in Cached : ctx.res[s] = "completed" => disk'.data[Key(conf, s)] = ctx.out[s]
    BY <1>1, <1>4, <1>6 DEF Composed
  <2> QED
    BY <1>1, <1>3, <1>6, <2>1 DEF Composed
<1>8. Fresh'
  <2>1. \A u \in DOMAIN Key(conf, run.at) : Key(conf, run.at)[u] <= conf[u]
    <3> SUFFICES ASSUME NEW u \in DOMAIN Key(conf, run.at) PROVE Key(conf, run.at)[u] <= conf[u]
      OBVIOUS
    <3>1. u \in 1..run.at /\ Key(conf, run.at)[u] = conf[u]
      BY DEF Key
    <3>2. u \in Cached
      BY <1>1, <3>1, Constants DEF Cached
    <3>3. conf[u] \in Nat
      BY <3>2, Constants DEF Typed
    <3> QED
      BY <3>1, <3>3
  <2>2. \A k \in Keys : disk'.data[k] # NoOutput => \A u \in DOMAIN k : k[u] <= conf[u]
    BY <1>3, <2>1 DEF Parts, Fresh
  <2> QED
    BY <1>1, <1>3, <2>2 DEF Parts, Fresh
<1>9. Copied' /\ Place' /\ Writing' /\ Ahead' /\ Ready' /\ Done'
  BY <1>1, <1>5, <1>6 DEF Parts, Copied, Place, Writing, Ahead, Ready, Done, AtStage
<1>10. Saved'
  BY <1>1, <1>3, <1>6, <1>7 DEF Parts, Saved
<1>11. Sound(s3', disk'.data, conf', registry')
  BY <1>1, <1>4, SoundWithNew
<1> QED
  BY <1>6, <1>7, <1>8, <1>9, <1>10, <1>11 DEF Parts

LEMMA SaveIndexCoheres ==
  ASSUME Typed, Parts, SaveIndex
  PROVE  Parts'
<1>1. /\ run.pc = "index" /\ run.at \in Cached
      /\ UNCHANGED <<setup, conf, registry, s3, ctx, rerunFrom, stop, serial, torn>>
      /\ \/ disk' = disk
         \/ disk' = [disk EXCEPT !.index[stage_cache_key(run.at)] = ctx.out[run.at].id]
  BY DEF SaveIndex, Typed
<1>2. \A s \in Cached : Key(conf, s) \in Keys /\ (s # run.at => Key(conf, s) # Key(conf, run.at))
  BY <1>1, KeyOf, KeysDiffer
<1>3. /\ disk'.data = disk.data /\ disk'.meta = disk.meta
      /\ \/ disk'.index = disk.index
         \/ disk'.index = [disk.index EXCEPT ![Key(conf, run.at)] = ctx.out[run.at].id]
      /\ DOMAIN disk.index = Keys
  BY <1>1, KeyOf DEF Typed, Checkpoint
<1>4. run'.pc \in {"stopping", "upload"} /\ run'.at = run.at /\ run'.win = run.win
  BY DEF SaveIndex, Checkpointed, Go, Typed, Run
<1>5. Ran /\ Ran' /\ Composed
  BY <1>1 DEF Parts, Place, Saved, Ran
<1>6. Composed'
  <2>1. ctx.res[Loading] = "completed" /\ disk'.index[Key(conf, Loading)] = Now(conf, registry)
          => ctx.delta = Now(conf, registry)
    <3>1. disk'.index[Key(conf, Loading)] \in {disk.index[Key(conf, Loading)], ctx.out[Loading].id}
      BY <1>1, <1>2, <1>3, Constants
    <3> QED
      BY <1>5, <3>1 DEF Composed
  <2> QED
    BY <1>1, <1>3, <1>4, <1>5, <2>1 DEF Composed
<1>7. Fresh'
  <2>1. \A k \in Keys : Past(disk'.index[k], conf, registry)
    BY <1>1, <1>3 DEF Parts, Fresh
  <2> QED
    BY <1>1, <1>3, <2>1 DEF Parts, Fresh
<1>8. Copied' /\ Place' /\ Writing' /\ Ahead' /\ Ready' /\ Done'
  BY <1>1, <1>4, <1>5 DEF Parts, Copied, Place, Writing, Ahead, Ready, Done, AtStage
<1>9. Saved'
  BY <1>1, <1>3, <1>5, <1>6 DEF Parts, Saved
<1>10. Sound(s3', disk'.data, conf', registry')
  BY <1>1, <1>3 DEF Parts
<1> QED
  BY <1>5, <1>6, <1>7, <1>8, <1>9, <1>10 DEF Parts

LEMMA FinalizeCoheres ==
  ASSUME Typed, Parts, Finalize
  PROVE  Parts'
<1>1. /\ run.pc = "finish" /\ UNCHANGED rerunFrom /\ save_pipeline_metadata(ctx)
      /\ run' = Go("last upload")
      /\ UNCHANGED <<setup, conf, registry, s3, stop, serial, counts, torn>>
  BY DEF Finalize
<1>2. /\ disk \in Checkpoint /\ ctx \in Context' /\ rerunFrom \in 1..(N + 1)
      /\ ctx.res \in [Stages -> Statuses]
  BY <1>1, TypesStay DEF Typed, Context
<1>3. run'.pc = "last upload" /\ run'.win = run.win
  BY <1>1 DEF Go, Typed, Run
<1>4. /\ ctx'.failed = ctx.failed /\ ctx'.delta = ctx.delta /\ ctx'.out = ctx.out
      /\ disk'.data = disk.data /\ disk'.index = disk.index
      /\ disk'.meta = [res |-> ctx'.res, failed |-> ctx'.failed, delta |-> ctx'.delta]
      /\ ctx'.res = merge_persisted_stage_results(ctx)
  BY <1>1, <1>2, SaveRest
<1>5. Fresh' /\ Copied'
  BY <1>1, <1>4, ZenonT(60) DEF Parts, Fresh, Copied, Ran
<1>6. Place' /\ Writing' /\ Ahead' /\ Ready' /\ Done'
  BY <1>1, <1>3 DEF Parts, Place, Writing, Ahead, Ready, Done, AtStage
<1>7. Sound(s3', disk'.data, conf', registry')
  BY <1>1, <1>4 DEF Parts
<1>8. CASE Ran
  <2>1. Composed /\ disk.meta = [res |-> ctx.res, failed |-> ctx.failed, delta |-> ctx.delta]
    BY <1>8 DEF Parts, Saved
  <2>2. \A s \in Stages : ctx.res[s] = "none" => ~Reached(disk.meta, s)
    BY <2>1 DEF Reached
  <2>3. ctx'.res = ctx.res
    BY <1>1, <1>2, <2>2, SaveAddsNothing
  <2>4. Composed'
    BY <1>1, <1>3, <1>4, <2>1, <2>3, ZenonT(60) DEF Composed
  <2>5. Saved' /\ Ran'
    BY <1>1, <1>4, <1>8, <2>4 DEF Saved, Ran
  <2> QED
    BY <1>5, <1>6, <1>7, <2>5 DEF Parts
<1>9. CASE ~Ran
  <2>1. /\ \A s \in Stages : ctx.res[s] # "none" =>
             ctx.res[s] = "completed" /\ Reached(disk.meta, s)
        /\ ctx.delta = disk.meta.delta
        /\ \A s \in Cached :
             Reached(disk.meta, s) /\ Whole(disk, disk.data, conf, s) /\ s \in disk.meta.failed
               => s \in ctx.failed
    BY <1>1, <1>9 DEF Parts, Done
  <2>2. rerunFrom' = N + 1
    <3>1. rerunFrom \in 1..(N + 1) /\ ~(rerunFrom <= N) /\ rerunFrom' = rerunFrom
      BY <1>1, <1>2, <1>9 DEF Ran
    <3> QED
      BY <3>1, StagesAssumption
  <2>3. \A s \in Stages : ctx'.res[s] = IF Reached(disk.meta, s) THEN "completed" ELSE "none"
    <3> SUFFICES ASSUME NEW s \in Stages
                 PROVE  ctx'.res[s] = IF Reached(disk.meta, s) THEN "completed" ELSE "none"
      OBVIOUS
    <3>1. s <= rerunFrom'
      BY <2>2, Constants DEF Stages
    <3>2. ctx'.res[s] = IF ctx.res[s] = "none" /\ Reached(disk.meta, s)
                        THEN "completed" ELSE ctx.res[s]
      BY <1>4, <3>1, Merged
    <3> QED
      BY <2>1, <3>2
  <2>4. ASSUME NEW s \in Stages, Reached(disk.meta, s), NEW u \in 1..s
        PROVE  u \in Stages /\ disk'.meta.res[u] = disk.meta.res[u]
    <3>1. u \in Stages /\ 1..u \subseteq 1..s
      BY Constants DEF Stages
    <3>2. disk.meta.res[u] \in {"none", "completed"}
      BY <2>4 DEF Reached
    <3>3. Reached(disk.meta, u) <=> disk.meta.res[u] = "completed"
      BY <2>4, <3>1 DEF Reached
    <3> QED
      BY <1>4, <2>3, <3>1, <3>2, <3>3
  <2>5. \A k : Served(disk', disk'.data, k) = Served(disk, disk.data, k)
    BY <1>4 DEF Served
  <2>6. Sound(disk, disk.data, conf, registry)
    BY <1>9 DEF Parts
  <2>7. ASSUME NEW s \in Cached, Reached(disk'.meta, s),
               NEW o \in Served(disk', disk'.data, Key(conf, s))
        PROVE  Fits(disk', disk'.data, conf, registry, s, o)
    <3>1. s \in Stages /\ s \in 1..s /\ Loading \in 1..s
      BY Constants DEF Cached, Loading
    <3>2. Reached(disk.meta, s)
      BY <1>4, <2>3, <2>7, <3>1 DEF Reached
    <3>3. Fits(disk, disk.data, conf, registry, s, o)
      BY <2>5, <2>6, <2>7, <3>2 DEF Sound
    <3>4. \A u \in 1..s : disk'.meta.res[u] = disk.meta.res[u]
      BY <2>4, <3>1, <3>2
    <3>5. Before(Cached, s) \subseteq 1..s /\ 2..s \subseteq 1..s
      BY Constants DEF Before, Cached
    <3>6. Whole(disk', disk'.data, conf, s) <=> Whole(disk, disk.data, conf, s)
      BY <2>5, <3>4, <3>5 DEF Whole
    <3>7. Whole(disk', disk'.data, conf, s) /\ o.part => s \in disk'.meta.failed
      BY <1>4, <2>1, <3>2, <3>3, <3>6 DEF Fits
    <3>8. disk'.meta.delta = disk.meta.delta /\ disk'.index = disk.index
      BY <1>4, <2>1
    <3>9. \A u \in Before(Cached, s) :
            /\ disk'.meta.res[u] = "none" => o.ins[u] = NoContent
            /\ disk'.meta.res[u] = "completed" /\ Served(disk', disk'.data, Key(conf, u)) # {}
                 => o.ins[u] = disk'.index[Key(conf, u)]
      BY <2>5, <3>3, <3>4, <3>5, <3>8 DEF Fits
    <3> QED
      BY <3>1, <3>3, <3>4, <3>7, <3>8, <3>9 DEF Fits
  <2>8. disk'.meta.res[Loading] = "completed"
        /\ disk'.index[Key(conf, Loading)] = Now(conf, registry)
          => disk'.meta.delta = Now(conf, registry)
    <3>1. disk'.meta.res[Loading] = "completed" => disk.meta.res[Loading] = "completed"
      BY <1>4, <2>3, LoadingIsNotLast DEF Reached
    <3> QED
      BY <1>4, <2>1, <2>6, <3>1 DEF Sound
  <2>9. Sound(disk', disk'.data, conf, registry)
    BY <2>7, <2>8 DEF Sound
  <2>10. ~Ran' /\ Saved'
    BY <1>1, <1>9 DEF Saved, Ran
  <2> QED
    BY <1>1, <1>5, <1>6, <1>7, <2>9, <2>10 DEF Parts
<1> QED
  BY <1>8, <1>9

LEMMA StopCoheres ==
  ASSUME Typed, Parts, request_stop
  PROVE  Parts'
<1>1. /\ UNCHANGED <<setup, conf, registry, disk, s3, ctx, rerunFrom, serial, torn>>
      /\ run' = run \/ (run.pc \in {"next", "run", "finish"} /\ run' = Go("stopping"))
  BY DEF request_stop
<1>2. CASE run' = run
  BY <1>1, <1>2 DEF Parts, Fresh, Copied, Place, Writing, Ahead, Ready, Saved, Done,
     Composed, Ran
<1>3. CASE run.pc \in {"next", "run", "finish"} /\ run' = Go("stopping")
  <2>1. run'.pc = "stopping" /\ run'.win = run.win
    BY <1>3 DEF Go, Typed, Run
  <2>2. Composed => Composed'
    BY <1>1, <1>3, <2>1 DEF Composed
  <2>3. Fresh' /\ Copied' /\ Place' /\ Writing' /\ Ahead'
    BY <1>1, <1>3, <2>1 DEF Parts, Fresh, Copied, Place, Writing, Ahead, AtStage, Ran
  <2>4. Ready' /\ Saved' /\ Done' /\ (Ran' <=> Ran)
    BY <1>1, <2>1, <2>2 DEF Parts, Ready, Saved, Done, Ran
  <2> QED
    BY <1>1, <2>3, <2>4 DEF Parts
<1> QED
  BY <1>1, <1>2, <1>3

LEMMA NothingCoheres ==
  ASSUME Parts, UNCHANGED vars
  PROVE  Parts'
BY DEF vars, Parts, Fresh, Copied, Place, Writing, Ahead, Ready, Saved, Done, Composed, Ran

-----------------------------------------------------------------------------
(* The point a resume starts at.                                           *)

\* Nothing before it is unfinished, and what completed before it is restored.
Sane(d, p) ==
    /\ p.start \in Stages
    /\ \A s \in Stages : s < p.start =>
         /\ d.meta.res[s] \in {"none", "completed"}
         /\ d.meta.res[s] = "completed" => s \in p.done

\* It is a stage the run executes, or the stage the checkpoint leaves off at:
\* the last one, one with no result from it on, one that is unfinished, or one
\* whose output is gone.
LeavesOff(d, s) ==
    \/ s = Indexing
    \/ \A u \in Stages : u >= s => d.meta.res[u] = "none"
    \/ d.meta.res[s] \notin {"none", "completed"}
    \/ d.meta.res[s] = "completed" /\ missing_cache_keys(d, s)

Leads(d, w, p) ==
    \/ p.start \in w
    \/ LeavesOff(d, p.start) /\ \A u \in p.done \cap Cached : u < p.start

\* Only completed stages are restored, whatever the checkpoint holds.
LEMMA RestoresCompleted ==
  ASSUME NEW d, NEW w, NEW asked
  PROVE  LET asks == determine_resume_strategy(d, w, asked)
             point == rewind_on_stale_delta(d, w, rewind_to_failed_stage(d, w, asked, asks))
         IN asks.done \subseteq RecordedCompleted(d) /\ point.done \subseteq RecordedCompleted(d)
<1>1. \A p, s : RewindTo(p, s).done \subseteq p.done
  BY DEF RewindTo, Before
<1>2. handle_auto_resume(d).done \subseteq RecordedCompleted(d)
  BY DEF handle_auto_resume, Before
<1>3. handle_explicit_stage_resume(d, asked).done \subseteq RecordedCompleted(d)
  BY DEF handle_explicit_stage_resume, Before
<1>4. \A p : /\ verify_completed_stages_against_cache(d, p).done \subseteq p.done
             /\ rewind_to_unrun_stage(w, p).done \subseteq p.done
             /\ rewind_on_extraction_change(d, w, p).done \subseteq p.done
             /\ rewind_to_failed_stage(d, w, asked, p).done \subseteq p.done
             /\ rewind_on_stale_delta(d, w, p).done \subseteq p.done
  BY <1>1 DEF verify_completed_stages_against_cache, rewind_to_unrun_stage,
     rewind_on_extraction_change, rewind_to_failed_stage, rewind_on_stale_delta
<1>5. determine_resume_strategy(d, w, asked).done \subseteq RecordedCompleted(d)
  <2>1. CASE asked # 0
    BY <1>3, <2>1 DEF determine_resume_strategy
  <2>2. CASE asked = 0
    <3> DEFINE auto == handle_auto_resume(d)
               backed == verify_completed_stages_against_cache(d, auto)
               past == rewind_to_unrun_stage(w, backed)
    <3>1. /\ auto.done \subseteq RecordedCompleted(d) /\ backed.done \subseteq auto.done
          /\ past.done \subseteq backed.done
          /\ rewind_on_extraction_change(d, w, past).done \subseteq past.done
      BY <1>2, <1>4
    <3>2. determine_resume_strategy(d, w, asked) = rewind_on_extraction_change(d, w, past)
      BY <2>2 DEF determine_resume_strategy
    <3> HIDE DEF auto, backed, past
    <3> QED
      BY <3>1, <3>2
  <2> QED
    BY <2>1, <2>2
<1> HIDE DEF determine_resume_strategy
<1> QED
  BY <1>4, <1>5

\* The order of the stages.
LEMMA StageOrder ==
  /\ \A a, b \in Stages : a < b => a <= b /\ a # b
  /\ \A a, b, c \in Stages : a < b /\ b <= c => a < c
<1> SUFFICES ASSUME NEW a \in Stages, NEW b \in Stages, NEW c \in Stages
             PROVE  /\ a < b => a <= b /\ a # b
                    /\ a < b /\ b <= c => a < c
  OBVIOUS
<1>1. a \in Nat /\ b \in Nat /\ c \in Nat
  BY Constants
<1> QED
  BY <1>1

\* Going back keeps what holds before.
LEMMA RewindSane ==
  ASSUME NEW d, NEW p, Sane(d, p), Unbacked(d, p) = {}, NEW s \in Stages, s <= p.start
  PROVE  /\ Sane(d, RewindTo(p, s)) /\ Unbacked(d, RewindTo(p, s)) = {}
         /\ RewindTo(p, s).start = s
         /\ \A u \in RewindTo(p, s).done : u < s
<1>1. RewindTo(p, s).start = s /\ RewindTo(p, s).done = Before(p.done, s)
  BY DEF RewindTo
<1>2. \A u \in Stages : u < s => u < p.start
  BY StageOrder DEF Sane
<1> QED
  BY <1>1, <1>2 DEF Sane, Unbacked, Before

LEMMA AutoPoint ==
  ASSUME NEW d, Recorded(d) # {}
  PROVE  LET p == handle_auto_resume(d) IN
         /\ Sane(d, p) /\ p.done \subseteq RecordedCompleted(d)
         /\ LeavesOff(d, p.start) /\ \A u \in p.done : u <= p.start
         /\ \A u \in p.done \cap Cached : u < p.start
<1> DEFINE unfinished == Recorded(d) \ RecordedCompleted(d)
           last == Max(Recorded(d))
           p == handle_auto_resume(d)
<1>1. /\ Recorded(d) \subseteq Stages /\ RecordedCompleted(d) \subseteq Stages
      /\ \A s \in Stages : /\ s \in Recorded(d) <=> d.meta.res[s] # "none"
                           /\ s \in RecordedCompleted(d) <=> d.meta.res[s] = "completed"
  BY DEF Recorded, RecordedCompleted
<1>2. CASE unfinished # {}
  <2>1. Min(unfinished) \in unfinished /\ \A x \in unfinished : Min(unfinished) <= x
    <3>1. unfinished \in SUBSET Nat
      BY <1>1, Constants
    <3> QED
      BY <1>2, <3>1, MinIn
  <2>2. p = [start |-> Min(unfinished), done |-> Before(RecordedCompleted(d), Min(unfinished))]
    BY <1>2 DEF handle_auto_resume
  <2> DEFINE m == Min(unfinished)
  <2>3. /\ m \in Stages /\ d.meta.res[m] \notin {"none", "completed"}
        /\ \A x \in Stages : x < m => x \notin unfinished
    BY <1>1, <2>1, Constants
  <2>4. p.start = m /\ p.done = Before(RecordedCompleted(d), m)
    BY <2>2
  <2> HIDE DEF m, p
  <2>5. \A s \in Stages : s < m => d.meta.res[s] \in {"none", "completed"}
    BY <1>1, <2>3
  <2>6. Sane(d, p)
    BY <1>1, <2>3, <2>4, <2>5 DEF Sane, Before
  <2>7. LeavesOff(d, p.start)
    BY <2>3, <2>4 DEF LeavesOff
  <2>8. \A u \in p.done : u < m /\ u <= m /\ u \in RecordedCompleted(d)
    BY <1>1, <2>3, <2>4, StageOrder DEF Before
  <2> QED
    BY <2>4, <2>6, <2>7, <2>8 DEF p
<1>3. CASE unfinished = {}
  <2>1. last \in Recorded(d) /\ \A x \in Recorded(d) : x <= last
    BY <1>1, MaxIn
  <2>2. p = [start |-> IF last = Indexing THEN last ELSE last + 1,
             done |-> RecordedCompleted(d)]
    BY <1>3 DEF handle_auto_resume
  <2> HIDE DEF p, last
  <2>3. \A s \in Stages : d.meta.res[s] \in {"none", "completed"}
    BY <1>1, <1>3
  <2>4. /\ p.start = IF last = Indexing THEN last ELSE last + 1
        /\ p.done = RecordedCompleted(d)
    BY <2>2
  <2>5. last \in Nat /\ last \in 1..N
    BY <1>1, <2>1, Constants DEF Stages
  <2>6. p.start \in Stages
    BY <2>4, <2>5, Constants DEF Stages, Indexing
  <2>7. Sane(d, p)
    BY <1>1, <2>3, <2>4, <2>6 DEF Sane
  <2>8. \A u \in RecordedCompleted(d) : u \in Nat /\ u <= last
    BY <1>1, <2>1, Constants DEF Recorded, RecordedCompleted
  <2>9. CASE last = Indexing
    <3>1. \A u \in Cached : u < N
      BY Constants DEF Cached
    <3> QED
      BY <2>4, <2>7, <2>8, <2>9, <3>1 DEF LeavesOff, Indexing, p
  <2>10. CASE last # Indexing
    <3>1. \A u \in Stages : u >= last + 1 => u \notin Recorded(d)
      BY <2>1, <2>5, Constants
    <3>2. LeavesOff(d, p.start)
      BY <1>1, <2>4, <2>10, <3>1 DEF LeavesOff
    <3>3. \A u \in p.done : u < p.start /\ u <= p.start
      BY <2>4, <2>5, <2>8, <2>10
    <3> QED
      BY <2>4, <2>7, <3>2, <3>3 DEF p
  <2> QED
    BY <2>9, <2>10
<1> QED
  BY <1>2, <1>3

LEMMA StrategyPoint ==
  ASSUME NEW d, NEW w \in SUBSET Stages, NEW asked \in {0} \cup w,
         Recorded(d) # {}, Asks(d, asked), ~refuses_unbacked(d, asked)
  PROVE  LET p == determine_resume_strategy(d, w, asked) IN
         Sane(d, p) /\ Unbacked(d, p) = {} /\ Leads(d, w, p)
<1>1. CASE asked # 0
  <2> DEFINE p == handle_explicit_stage_resume(d, asked)
  <2>1. determine_resume_strategy(d, w, asked) = p
    BY <1>1 DEF determine_resume_strategy
  <2>2. p.start = asked /\ asked \in w /\ Unbacked(d, p) = {}
    BY <1>1 DEF handle_explicit_stage_resume, refuses_unbacked
  <2>3. \A s \in Stages : s < asked => d.meta.res[s] = "completed" /\ s \in p.done
    BY DEF Asks, handle_explicit_stage_resume, RecordedCompleted, Before
  <2> HIDE DEF p
  <2> QED
    BY <2>1, <2>2, <2>3 DEF Sane, Leads
<1>2. CASE asked = 0
  <2> DEFINE auto == handle_auto_resume(d)
             backed == verify_completed_stages_against_cache(d, auto)
             past == rewind_to_unrun_stage(w, backed)
             p == rewind_on_extraction_change(d, w, past)
  <2>1. determine_resume_strategy(d, w, asked) = p
    BY <1>2 DEF determine_resume_strategy
  <2>2. /\ Sane(d, auto) /\ auto.done \subseteq RecordedCompleted(d)
        /\ LeavesOff(d, auto.start) /\ \A u \in auto.done : u <= auto.start
        /\ \A u \in auto.done \cap Cached : u < auto.start
    BY AutoPoint
  <2>3. Sane(d, backed) /\ Unbacked(d, backed) = {} /\ Leads(d, w, backed)
    <3> HIDE DEF auto
    <3>1. CASE Unbacked(d, auto) = {}
      BY <2>2, <3>1 DEF verify_completed_stages_against_cache, Leads
    <3>2. CASE Unbacked(d, auto) # {}
      <4> DEFINE m == Min(Unbacked(d, auto))
      <4>1. Unbacked(d, auto) \subseteq auto.done /\ auto.done \subseteq Stages
        BY <2>2 DEF Unbacked, RecordedCompleted
      <4>2. m \in Unbacked(d, auto) /\ \A x \in Unbacked(d, auto) : m <= x
        <5>1. Unbacked(d, auto) \in SUBSET Nat
          BY <4>1, Constants
        <5> QED
          BY <3>2, <5>1, MinIn
      <4>3. backed = RewindTo(auto, m)
        BY <3>2 DEF verify_completed_stages_against_cache
      <4> HIDE DEF m, backed
      <4>4. /\ m \in Stages /\ m <= auto.start
            /\ d.meta.res[m] = "completed" /\ missing_cache_keys(d, m)
        BY <2>2, <4>1, <4>2 DEF Unbacked, RecordedCompleted
      <4>5. backed.start = m /\ backed.done = Before(auto.done, m)
        BY <4>3 DEF RewindTo
      <4>6. \A u \in Stages : u < m => u < auto.start
        BY <2>2, <4>4, StageOrder DEF Sane
      <4>7. Sane(d, backed)
        BY <2>2, <4>4, <4>5, <4>6 DEF Sane, Before
      <4>8. Unbacked(d, backed) = {}
        <5> SUFFICES ASSUME NEW u \in Before(auto.done, m), missing_cache_keys(d, u)
                     PROVE  FALSE
          BY <4>5 DEF Unbacked
        <5>1. u \in Unbacked(d, auto) /\ u < m /\ u \in Nat /\ m \in Nat
          BY <4>1, <4>4, Constants DEF Unbacked, Before
        <5> QED
          BY <4>2, <5>1
      <4>9. Leads(d, w, backed)
        BY <4>4, <4>5 DEF Leads, LeavesOff, Before
      <4> QED
        BY <4>7, <4>8, <4>9
    <3> QED
      BY <3>1, <3>2
  <2>4. Sane(d, past) /\ Unbacked(d, past) = {} /\ Leads(d, w, past)
    <3> DEFINE unrun == Before(w, backed.start) \ backed.done
    <3> HIDE DEF backed
    <3>1. CASE unrun = {}
      BY <2>3, <3>1 DEF rewind_to_unrun_stage
    <3>2. CASE unrun # {}
      <4> DEFINE m == Min(unrun)
      <4>1. m \in unrun
        <5>1. unrun \in SUBSET Nat
          BY Constants DEF Before
        <5> HIDE DEF unrun
        <5> QED
          BY <3>2, <5>1, MinIn
      <4>2. past = RewindTo(backed, m)
        BY <3>2 DEF rewind_to_unrun_stage
      <4>3. m \in w /\ m \in Stages /\ m <= backed.start
        <5>1. m \in w /\ m < backed.start /\ backed.start \in Stages
          BY <2>3, <4>1 DEF Before, Sane
        <5> HIDE DEF m
        <5> QED
          BY <5>1, StageOrder
      <4> HIDE DEF m, past
      <4> QED
        BY <2>3, <4>2, <4>3, RewindSane DEF Leads
    <3> QED
      BY <3>1, <3>2
  <2>5. Sane(d, p) /\ Unbacked(d, p) = {} /\ Leads(d, w, p)
    <3> HIDE DEF past
    <3>1. CASE p = past
      BY <2>4, <3>1
    <3>2. CASE p # past
      <4>1. p = RewindTo(past, Loading) /\ Loading \in w
        BY <3>2 DEF rewind_on_extraction_change
      <4>2. Loading \in Stages /\ Loading <= past.start
        BY <2>4, Constants DEF Sane, Stages, Loading
      <4> HIDE DEF p
      <4> QED
        BY <2>4, <4>1, <4>2, RewindSane DEF Leads
    <3> QED
      BY <3>1, <3>2
  <2> QED
    BY <2>1, <2>5
<1> QED
  BY <1>1, <1>2

\* The point after the last two moves back: either is to a stage enabled.
LEMMA ResumePoint ==
  ASSUME NEW d, NEW w \in SUBSET Stages, NEW asked \in {0} \cup w, NEW asks,
         Sane(d, asks), Unbacked(d, asks) = {},
         ~(delta_is_stale(d, w, rewind_to_failed_stage(d, w, asked, asks)) /\ Loading \notin w)
  PROVE  LET p == rewind_on_stale_delta(d, w, rewind_to_failed_stage(d, w, asked, asks)) IN
         /\ Sane(d, p) /\ Unbacked(d, p) = {}
         /\ p = asks \/ p.start \in w
<1> DEFINE rewound == rewind_to_failed_stage(d, w, asked, asks)
           p == rewind_on_stale_delta(d, w, rewound)
<1>1. Sane(d, rewound) /\ Unbacked(d, rewound) = {} /\ (rewound = asks \/ rewound.start \in w)
  <2> DEFINE failed == FailedBefore(d, w, asks)
  <2>1. CASE asked # 0 \/ failed = {}
    BY <2>1 DEF rewind_to_failed_stage
  <2>2. CASE ~(asked # 0 \/ failed = {})
    <3> DEFINE m == Min(failed)
    <3>1. failed \subseteq w /\ \A u \in failed : u < asks.start
      BY DEF FailedBefore, Before
    <3>2. m \in failed
      <4>1. failed \in SUBSET Nat
        BY <3>1, Constants
      <4> HIDE DEF failed
      <4> QED
        BY <2>2, <4>1, MinIn
    <3>3. rewound = RewindTo(asks, m)
      BY <2>2 DEF rewind_to_failed_stage
    <3> HIDE DEF m, rewound, failed
    <3>4. m \in w /\ m \in Stages /\ m <= asks.start
      BY <3>1, <3>2, StageOrder DEF Sane
    <3> QED
      BY <3>3, <3>4, RewindSane
  <2> QED
    BY <2>1, <2>2
<1>2. Sane(d, p) /\ Unbacked(d, p) = {} /\ (p = rewound \/ p.start \in w)
  <2>1. delta_is_stale(d, w, rewound) => Loading \in w
    OBVIOUS
  <2> HIDE DEF rewound
  <2>2. CASE ~delta_is_stale(d, w, rewound)
    BY <1>1, <2>2 DEF rewind_on_stale_delta
  <2>3. CASE delta_is_stale(d, w, rewound)
    <3>1. p = RewindTo(rewound, Loading) /\ Loading \in w
      BY <2>1, <2>3 DEF rewind_on_stale_delta
    <3>2. Loading \in Stages /\ Loading <= rewound.start
      BY <1>1, Constants DEF Sane, Stages, Loading
    <3> HIDE DEF p
    <3> QED
      BY <1>1, <3>1, <3>2, RewindSane
  <2> QED
    BY <2>2, <2>3
<1> QED
  BY <1>1, <1>2

-----------------------------------------------------------------------------
(* The start of a run, from a sound checkpoint.                            *)

\* What is restored at such a point belongs together.
LEMMA RestoredComposed ==
  ASSUME Typed, NEW d \in Checkpoint, NEW w, NEW p,
         Sound(d, d.data, conf, registry),
         Sane(d, p), Unbacked(d, p) = {}, p.done \subseteq RecordedCompleted(d),
         NEW c, c = restore_pipeline_context(d, w, p)
  PROVE  /\ \A s \in Cached : c.res[s] = "completed" =>
              /\ \A u \in Before(Cached, s) : c.out[s].ins[u] = c.out[u].id
              /\ c.out[s].part => s \in c.failed
              /\ c.out[s] # NoOutput
              /\ d.data[Key(conf, s)] = c.out[s]
         /\ c.res[Loading] = "completed" =>
              /\ c.delta = c.out[Loading].id
              /\ d.index[Key(conf, Loading)] = Now(conf, registry) => c.delta = Now(conf, registry)
         /\ \A s \in Cached : d.meta.res[s] # "completed" => c.out[s] = NoOutput
         /\ \A s \in Stages : c.res[s] = IF s < p.start THEN d.meta.res[s] ELSE "none"
         /\ c.delta = d.meta.delta
         /\ \A s \in d.meta.failed : s < p.start \/ s \in w => s \in c.failed
         /\ \A s \in Cached : c.out[s] # NoOutput => s \in p.done
         /\ \A s \in Cached : c.out[s].id \in {NoContent, d.index[Key(conf, s)]}
<1>1. /\ \A s \in Stages : c.res[s] = IF s < p.start THEN d.meta.res[s] ELSE "none"
      /\ c.failed = drop_unrun_failures(d, w, p) /\ c.delta = d.meta.delta
      /\ \A s \in Cached : c.out[s] = IF s \in p.done THEN load_stage_result(d, s) ELSE NoOutput
  BY DEF restore_pipeline_context
<1>2. \A s \in Cached : load_stage_result(d, s) =
        IF d.index[Key(conf, s)] = d.data[Key(conf, s)].id THEN d.data[Key(conf, s)] ELSE NoOutput
  BY KeyOf DEF load_stage_result
<1>3. \A s \in Cached : d.meta.res[s] # "completed" => c.out[s] = NoOutput
  BY <1>1 DEF RecordedCompleted
<1>4. \A s \in d.meta.failed : s < p.start \/ s \in w => s \in c.failed
  BY <1>1 DEF drop_unrun_failures, Before
<1>5. ASSUME NEW s \in Cached, d.meta.res[s] = "completed", s < p.start
      PROVE  /\ c.out[s] = d.data[Key(conf, s)] /\ c.out[s] # NoOutput
             /\ c.out[s].id = d.index[Key(conf, s)]
             /\ c.out[s] \in Served(d, d.data, Key(conf, s))
  <2>1. s \in p.done
    BY <1>5, Constants DEF Sane
  <2>2. load_stage_result(d, s) # NoOutput
    BY <2>1 DEF Unbacked, missing_cache_keys
  <2> QED
    BY <1>1, <1>2, <2>1, <2>2 DEF Served
<1>6. ASSUME NEW s \in Cached, c.res[s] = "completed"
      PROVE  /\ \A u \in Before(Cached, s) : c.out[s].ins[u] = c.out[u].id
             /\ c.out[s].part => s \in c.failed
             /\ c.out[s] # NoOutput
             /\ d.data[Key(conf, s)] = c.out[s]
             /\ s = Loading => c.delta = c.out[s].id
  <2>1. d.meta.res[s] = "completed" /\ s < p.start /\ s \in Stages /\ p.start \in Stages
    BY <1>1, <1>6, Constants DEF Sane
  <2>2. \A u \in Stages : u <= s => u < p.start
    <3> SUFFICES ASSUME NEW u \in Stages, u <= s PROVE u < p.start
      OBVIOUS
    <3>1. u \in Nat /\ s \in Nat /\ p.start \in Nat
      BY <2>1, Constants
    <3> QED
      BY <2>1, <3>1
  <2>3. Reached(d.meta, s)
    <3>1. \A u \in 1..s : u \in Stages /\ u <= s
      BY <2>1, Constants DEF Stages
    <3> QED
      BY <2>1, <2>2, <3>1 DEF Reached, Sane
  <2>4. Fits(d, d.data, conf, registry, s, c.out[s])
    BY <1>5, <2>1, <2>3 DEF Sound
  <2>5. ASSUME NEW u \in Before(Cached, s)
        PROVE  c.out[s].ins[u] = c.out[u].id
    <3>1. u \in Cached /\ u \in Stages /\ u < p.start
      BY <2>1, <2>2, Constants, StageOrder DEF Before
    <3>2. d.meta.res[u] \in {"none", "completed"}
      BY <3>1 DEF Sane
    <3>3. CASE d.meta.res[u] = "none"
      <4>1. c.out[u].id = NoContent
        BY <1>3, <3>1, <3>3 DEF NoOutput
      <4> QED
        BY <2>4, <3>3, <4>1 DEF Fits
    <3>4. CASE d.meta.res[u] = "completed"
      BY <1>5, <2>4, <3>1, <3>4 DEF Fits
    <3> QED
      BY <3>2, <3>3, <3>4
  <2>6. Whole(d, d.data, conf, s)
    <3> SUFFICES ASSUME NEW v \in 2..s, d.meta.res[v] = "completed"
                 PROVE  Served(d, d.data, Key(conf, v)) # {}
      BY DEF Whole
    <3>1. v \in Cached /\ v \in Stages /\ v <= s
      BY Constants DEF Cached, Stages
    <3> QED
      BY <1>5, <2>2, <3>1
  <2>7. c.out[s].part => s \in c.failed
    BY <1>4, <2>1, <2>4, <2>6 DEF Fits
  <2>8. s = Loading => c.delta = c.out[s].id
    BY <1>1, <2>4 DEF Fits
  <2> QED
    BY <1>5, <2>1, <2>5, <2>7, <2>8
<1>7. c.res[Loading] = "completed" /\ d.index[Key(conf, Loading)] = Now(conf, registry)
        => c.delta = Now(conf, registry)
  <2>1. c.res[Loading] = "completed" => d.meta.res[Loading] = "completed"
    BY <1>1, Constants
  <2> QED
    BY <1>1, <2>1 DEF Sound
<1>8. \A s \in Cached : c.out[s] # NoOutput => s \in p.done
  BY <1>1
<1>9. \A s \in Cached : c.out[s].id \in {NoContent, d.index[Key(conf, s)]}
  BY <1>1, <1>2 DEF NoOutput
<1> QED
  BY <1>1, <1>3, <1>4, <1>6, <1>7, <1>8, <1>9, Constants

\* What holds of the stages between the point and the stage the run begins
\* with, or of those past the point if it begins with none.
LEMMA Skipped ==
  ASSUME Contiguous, Typed, NEW d \in Checkpoint, NEW w \in Windows, NEW p, NEW asks,
         Sane(d, p), Leads(d, w, asks), p = asks \/ p.start \in w,
         check_upstream_complete(d, w, asks), NEW s \in Stages, s >= p.start
  PROVE  /\ \A at \in w : (\A u \in w : u >= p.start => u >= at) /\ s < at =>
              d.meta.res[s] = "none" /\ ~(s \in p.done \cap Cached)
         /\ (\A u \in w : u < p.start) /\ s \in Cached /\ Reached(d.meta, s) =>
              ~Whole(d, d.data, conf, s)
<1>0. /\ p.start \in Stages /\ w # {} /\ w \subseteq Stages
      /\ \A u \in Stages : u \in Nat
  BY WindowsAssumption, Constants DEF Sane, Stages
<1>1. CASE p.start \in w
  <2>1. \A at \in w : (\A u \in w : u >= p.start => u >= at) => at <= p.start
    BY <1>0, <1>1
  <2>2. \A at \in w : s < at => ~(at <= p.start)
    BY <1>0
  <2>3. ~(p.start < p.start)
    BY <1>0
  <2> QED
    BY <1>1, <2>1, <2>2, <2>3
<1>2. CASE p.start \notin w
  <2>1. /\ p = asks /\ LeavesOff(d, p.start)
        /\ \A u \in p.done \cap Cached : u < p.start
    BY <1>2 DEF Leads
  <2>2. ~(s \in p.done \cap Cached)
    BY <1>0, <2>1
  <2>3. ASSUME NEW at \in w, \A u \in w : u >= p.start => u >= at, s < at
        PROVE  d.meta.res[s] = "none"
    <3>1. p.start < at
      BY <1>0, <2>3
    <3>2. Min(w) \in w
      BY <1>0, FirstStage
    <3>3. p.start < Min(w)
      <4> SUFFICES ASSUME ~(p.start < Min(w)) PROVE FALSE
        OBVIOUS
      <4>1. p.start \in Min(w)..at
        BY <1>0, <3>1, <3>2
      <4> QED
        BY <1>2, <3>2, <4>1 DEF Contiguous
    <3>4. d.meta.res[p.start] = "none"
      BY <1>0, <1>2, <2>1, <3>3 DEF check_upstream_complete, Recorded
    <3>5. p.start # Indexing
      BY <1>0, <3>1 DEF Indexing, Stages
    <3> QED
      BY <2>1, <3>4, <3>5 DEF LeavesOff
  <2>4. ASSUME \A u \in w : u < p.start, s \in Cached, Reached(d.meta, s),
               Whole(d, d.data, conf, s)
        PROVE  FALSE
    <3>1. /\ d.meta.res[s] = "completed" /\ p.start \in 1..s
          /\ \A u \in 1..s : d.meta.res[u] \in {"none", "completed"}
      BY <1>0, <2>4 DEF Reached, Stages
    <3>2. p.start \in Cached
      BY <2>4, <3>1, Constants DEF Cached
    <3>3. d.meta.res[p.start] = "completed" /\ missing_cache_keys(d, p.start)
      BY <2>1, <3>1, <3>2, Constants DEF LeavesOff
    <3>4. p.start # Loading
      <4>1. PICK u \in w : TRUE
        BY <1>0
      <4>2. u \in 1..N /\ u < p.start
        BY <1>0, <2>4 DEF Stages
      <4> QED
        BY <4>2, Constants DEF Loading
    <3>5. load_stage_result(d, p.start) = NoOutput
      BY <3>3, <3>4 DEF missing_cache_keys
    <3>6. Served(d, d.data, Key(conf, p.start)) = {}
      BY <3>2, <3>5, KeyOf DEF load_stage_result, Served
    <3>7. p.start \in 2..s
      BY <1>0, <3>1, <3>4 DEF Loading
    <3> QED
      BY <2>4, <3>3, <3>6, <3>7 DEF Whole
  <2> QED
    BY <2>2, <2>3, <2>4
<1> QED
  BY <1>1, <1>2

\* How a run that starts stands to the checkpoint on its host.
Opens(w) ==
    /\ run'.pc \in {"next", "finish"} /\ run'.win = w /\ (run'.pc = "next" => run'.at \in w)
    /\ Composed' /\ Ahead' /\ Done'
    /\ run'.pc = "next" =>
         \A s \in Stages : s < run'.at /\ ctx'.res[s] = "none" => ~Reached(disk'.meta, s)
    /\ \A s \in Cached : Past(ctx'.out[s].id, conf, registry)

LEMMA NewOpens ==
  ASSUME Typed, NEW w \in Windows, NEW s \in w, ctx' = NoCtx, StartAt(w, s, "new"),
         disk'.meta = NoMeta \/ (s = Min(w) /\ Loading \in w)
  PROVE  Opens(w)
<1>1. w \subseteq Stages /\ w # {} /\ \A u \in Stages : u \in Nat
  BY WindowsAssumption, Constants DEF Stages
<1>2. /\ run'.win = w /\ run'.pc = start_index(w, s).pc /\ run'.at = start_index(w, s).at
      /\ run'.pc = "finish" \/ (run'.pc = "next" /\ run'.at \in w)
  BY <1>1, StartAtTyped
<1>3. run'.pc = "next" /\ run'.at \in w /\ \A u \in w : u >= s => u >= run'.at
  <2>1. ~(\A u \in w : u < s)
    BY <1>1
  <2> QED
    BY <1>1, <1>2, <2>1, StartIndexTyped
<1>4. /\ \A t \in Stages : ctx'.res[t] = "none"
      /\ \A t \in Cached : ctx'.out[t] = NoOutput
  BY DEF NoCtx
<1>5. Composed' /\ Ahead' /\ Done'
  <2>1. \A t \in Cached : ctx'.res[t] # "completed"
    BY <1>4, Constants
  <2>2. Composed'
    BY <2>1, Constants DEF Composed
  <2>3. run'.at \in Stages
    BY <1>1, <1>3
  <2>4. Ahead'
    BY <1>4, <2>3 DEF Ahead
  <2> QED
    BY <1>3, <2>2, <2>4 DEF Done
<1>6. \A t \in Stages : t < run'.at => ~Reached(disk'.meta, t)
  <2>1. CASE disk'.meta = NoMeta
    BY <2>1 DEF Reached, NoMeta
  <2>2. CASE s = Min(w) /\ Loading \in w
    <3>1. s <= Loading
      BY <1>1, <2>2, FirstStage
    <3>2. run'.at <= Loading
      <4>1. Loading >= s
        BY <1>1, <2>2, <3>1
      <4> QED
        BY <1>1, <1>3, <2>2, <4>1
    <3>3. run'.at \in Nat /\ \A t \in Stages : t \in Nat /\ t >= 1
      <4>1. run'.at \in Nat
        BY <1>1, <1>3
      <4>2. \A t \in Stages : t \in Nat /\ t >= 1
        BY Constants DEF Stages
      <4> QED
        BY <4>1, <4>2
    <3>4. \A t \in Stages : ~(t < run'.at)
      BY <3>2, <3>3 DEF Loading
    <3> QED
      BY <3>4
  <2> QED
    BY <2>1, <2>2
<1>7. \A t \in Cached : Past(ctx'.out[t].id, conf, registry)
  BY <1>4, NothingPast DEF NoOutput
<1> QED
  BY <1>2, <1>3, <1>5, <1>6, <1>7 DEF Opens

LEMMA ResumeOpens ==
  ASSUME Contiguous, Typed, Fresh, NEW d \in {disk, s3}, Sound(d, d.data, conf, registry),
         UNCHANGED <<conf, registry, s3, rerunFrom>>, disk' = d, d = s3 \/ s3 = NoCache,
         NEW w \in Windows, NEW asked \in {0} \cup w, Asks(d, asked),
         prepare_resume(d, w, asked)
  PROVE  (run' = Idle("refused") /\ UNCHANGED ctx) \/ Opens(w)
<1> DEFINE asks == determine_resume_strategy(d, w, asked)
           rewound == rewind_to_failed_stage(d, w, asked, asks)
           p == rewind_on_stale_delta(d, w, rewound)
           refused == \/ refuses_unbacked(d, asked)
                      \/ ~check_upstream_complete(d, w, asks)
                      \/ refuses_rerun_of_unrun_failures(d, w, asked, asks)
                      \/ delta_is_stale(d, w, rewound) /\ Loading \notin w
<1>1. CASE refused
  BY <1>1 DEF prepare_resume
<1>2. CASE ~refused
  <2>1. /\ ctx' = restore_pipeline_context(d, w, p)
        /\ StartAt(w, p.start, IF asked = 0 THEN "auto" ELSE "asked")
    BY <1>2 DEF prepare_resume
  <2>2. /\ ~refuses_unbacked(d, asked) /\ check_upstream_complete(d, w, asks)
        /\ ~(delta_is_stale(d, w, rewound) /\ Loading \notin w)
    BY <1>2
  <2>3. asks.done \subseteq RecordedCompleted(d) /\ p.done \subseteq RecordedCompleted(d)
    BY RestoresCompleted
  <2>4. d \in Checkpoint /\ w \in SUBSET Stages /\ w # {} /\ \A u \in Stages : u \in Nat
    BY WindowsAssumption, Constants DEF Typed, Stages
  <2>5. /\ run'.win = w /\ run'.pc = start_index(w, p.start).pc
        /\ run'.at = start_index(w, p.start).at
        /\ run'.pc = "finish" \/ (run'.pc = "next" /\ run'.at \in w)
    <3> HIDE DEF p
    <3> QED
      BY <2>1, <2>4, StartAtTyped
  <2>6. CASE Recorded(d) = {}
    <3>1. \A s \in Stages : d.meta.res[s] = "none"
      BY <2>6 DEF Recorded
    <3>2. p.done = {}
      BY <2>3, <3>1 DEF RecordedCompleted
    <3> HIDE DEF asks, rewound, p, refused
    <3>3. /\ \A s \in Stages : ctx'.res[s] = "none" /\ ~Reached(d.meta, s)
          /\ \A s \in Cached : ctx'.out[s] = NoOutput
          /\ ctx'.delta = d.meta.delta
      BY <2>1, <3>1, <3>2 DEF restore_pipeline_context, Reached
    <3>4. Composed' /\ Ahead' /\ Done'
      BY <2>4, <2>5, <3>3, Constants DEF Composed, Ahead, Done
    <3>5. \A s \in Cached : Past(ctx'.out[s].id, conf, registry)
      BY <3>3, NothingPast DEF NoOutput
    <3> QED
      BY <2>5, <3>3, <3>4, <3>5 DEF Opens
  <2>7. CASE Recorded(d) # {}
    <3>1. Sane(d, asks) /\ Unbacked(d, asks) = {} /\ Leads(d, w, asks)
      BY <2>2, <2>4, <2>7, StrategyPoint
    <3>2. /\ Sane(d, p) /\ Unbacked(d, p) = {}
          /\ p = asks \/ p.start \in w
      <4> HIDE DEF asks
      <4> QED
        BY <2>2, <2>4, <3>1, ResumePoint
    <3> HIDE DEF asks, rewound, p, refused
    <3>3. p.start \in Stages /\ p.start \in Nat
      BY <2>4, <3>2 DEF Sane
    <3>4. \/ run'.pc = "finish" /\ \A u \in w : u < p.start
          \/ /\ run'.pc = "next" /\ run'.at \in w /\ run'.at >= p.start
             /\ \A u \in w : u >= p.start => u >= run'.at
      BY <2>4, <2>5, <3>3, StartIndexTyped
    <3>5. /\ \A s \in Cached : ctx'.res[s] = "completed" =>
               /\ \A u \in Before(Cached, s) : ctx'.out[s].ins[u] = ctx'.out[u].id
               /\ ctx'.out[s].part => s \in ctx'.failed
               /\ ctx'.out[s] # NoOutput
               /\ d.data[Key(conf, s)] = ctx'.out[s]
          /\ ctx'.res[Loading] = "completed" =>
               /\ ctx'.delta = ctx'.out[Loading].id
               /\ d.index[Key(conf, Loading)] = Now(conf, registry)
                    => ctx'.delta = Now(conf, registry)
          /\ \A s \in Cached : d.meta.res[s] # "completed" => ctx'.out[s] = NoOutput
          /\ \A s \in Stages : ctx'.res[s] = IF s < p.start THEN d.meta.res[s] ELSE "none"
          /\ ctx'.delta = d.meta.delta
          /\ \A s \in d.meta.failed : s < p.start \/ s \in w => s \in ctx'.failed
          /\ \A s \in Cached : ctx'.out[s] # NoOutput => s \in p.done
          /\ \A s \in Cached : ctx'.out[s].id \in {NoContent, d.index[Key(conf, s)]}
      BY <2>1, <2>3, <2>4, <3>2, RestoredComposed
    <3>6. ASSUME NEW s \in Stages, s >= p.start
          PROVE  /\ run'.pc = "next" /\ s < run'.at =>
                      d.meta.res[s] = "none" /\ ~(s \in p.done \cap Cached)
                 /\ run'.pc = "finish" /\ s \in Cached /\ Reached(d.meta, s) =>
                      ~Whole(d, d.data, conf, s)
      <4>1. /\ \A at \in w : (\A u \in w : u >= p.start => u >= at) /\ s < at =>
                 d.meta.res[s] = "none" /\ ~(s \in p.done \cap Cached)
            /\ (\A u \in w : u < p.start) /\ s \in Cached /\ Reached(d.meta, s) =>
                 ~Whole(d, d.data, conf, s)
        BY <2>2, <2>4, <3>1, <3>2, <3>6, Skipped
      <4> QED
        BY <3>4, <4>1
    <3>7. Composed'
      <4>1. s3.index[Key(conf, Loading)] = Now(conf, registry)
              => d.index[Key(conf, Loading)] = Now(conf, registry)
        <5>1. NoCache.index[Key(conf, Loading)] # Now(conf, registry)
          BY KeyOf, Constants DEF NoCache, NoContent, Now, Delta
        <5> QED
          BY <5>1
      <4>2. \A s, u \in Cached : u < s /\ ctx'.res[s] = "completed" /\ ctx'.res[u] = "none"
              => ctx'.out[u] = NoOutput
        <5> SUFFICES ASSUME NEW s \in Cached, NEW u \in Cached, u < s,
                            ctx'.res[s] = "completed", ctx'.res[u] = "none"
                     PROVE  ctx'.out[u] = NoOutput
          OBVIOUS
        <5>1. s \in Stages /\ u \in Stages /\ s < p.start
          BY <3>5, Constants
        <5>2. u < p.start
          BY <2>4, <3>3, <5>1
        <5> QED
          BY <3>5, <5>1, <5>2
      <4>3. \A x \in {disk', s3'} : x.index[Key(conf, Loading)] = Now(conf, registry)
              => d.index[Key(conf, Loading)] = Now(conf, registry)
        BY <4>1
      <4> QED
        BY <3>5, <4>2, <4>3 DEF Composed
    <3>8. Ahead'
      <4> SUFFICES ASSUME run'.pc = "next" PROVE Ahead'
        BY <3>4 DEF Ahead, AtStage
      <4>1. run'.at \in Nat /\ run'.at \in Stages /\ run'.at >= p.start
        BY <2>4, <3>4
      <4>2. \A s \in Stages : s >= run'.at => ctx'.res[s] = "none"
        BY <2>4, <3>3, <3>5, <4>1
      <4>3. ASSUME NEW s \in Cached, s < run'.at, ctx'.res[s] = "none"
            PROVE  ctx'.out[s] = NoOutput
        <5>1. s \in Stages /\ s \in Nat
          BY <2>4, Constants
        <5>2. CASE s < p.start
          BY <3>5, <4>3, <5>1, <5>2
        <5>3. CASE s >= p.start
          BY <3>5, <3>6, <4>3, <5>1, <5>3
        <5> QED
          BY <3>3, <5>1, <5>2, <5>3
      <4> QED
        BY <2>4, <4>1, <4>2, <4>3 DEF Ahead
    <3>9. run'.pc = "next" =>
            \A s \in Stages : s < run'.at /\ ctx'.res[s] = "none" => ~Reached(d.meta, s)
      <4> SUFFICES ASSUME run'.pc = "next", NEW s \in Stages, s < run'.at, ctx'.res[s] = "none"
                   PROVE  d.meta.res[s] = "none"
        BY DEF Reached
      <4>1. CASE s < p.start
        BY <3>5, <4>1
      <4>2. CASE s >= p.start
        BY <3>6, <4>2
      <4> QED
        BY <2>4, <3>3, <4>1, <4>2
    <3>10. Done'
      <4> SUFFICES ASSUME run'.pc = "finish" PROVE Done'
        BY DEF Done
      <4>1. ASSUME NEW s \in Stages, ctx'.res[s] # "none"
            PROVE  ctx'.res[s] = "completed" /\ Reached(d.meta, s)
        <5>1. s < p.start /\ ctx'.res[s] = d.meta.res[s]
          BY <3>5, <4>1
        <5>2. \A u \in 1..s : u \in Stages /\ u < p.start
          BY <2>4, <3>3, <5>1, Constants DEF Stages
        <5>3. s \in 1..s
          BY Constants DEF Stages
        <5> QED
          BY <3>2, <4>1, <5>1, <5>2, <5>3 DEF Reached, Sane
      <4>2. ASSUME NEW s \in Cached, Reached(d.meta, s), Whole(d, d.data, conf, s),
                   s \in d.meta.failed
            PROVE  s \in ctx'.failed
        <5>1. s \in Stages /\ s \in Nat
          BY <2>4, Constants
        <5>2. ~(s >= p.start)
          BY <3>6, <4>2, <5>1
        <5> QED
          BY <3>3, <3>5, <4>2, <5>1, <5>2
      <4> QED
        BY <3>5, <4>1, <4>2 DEF Done
    <3>11. \A s \in Cached : Past(ctx'.out[s].id, conf, registry)
      BY <3>5, KeyOf, NothingPast DEF Fresh
    <3> QED
      BY <2>5, <3>7, <3>8, <3>9, <3>10, <3>11 DEF Opens
  <2> QED
    BY <2>6, <2>7
<1> QED
  BY <1>1, <1>2

LEMMA StartCoheres ==
  ASSUME Contiguous, Typed, Parts, Start
  PROVE  Parts'
<1>1. /\ run.pc = "idle"
      /\ UNCHANGED <<setup, conf, registry, s3, rerunFrom, stop, serial, torn>>
  BY DEF Start
<1>2. PICK w \in Windows :
        \/ \E asked \in {0} \cup w : run_leased(w, asked, FALSE)
        \/ Loading \in w /\ run_leased(w, 0, TRUE)
  BY DEF Start
<1>3. PICK asked \in {0} \cup w, force \in BOOLEAN :
        run_leased(w, asked, force) /\ (force => Loading \in w /\ asked = 0)
  BY <1>2
<1> DEFINE d == sync_pipeline_from_s3
<1>4. /\ Asks(d, asked) /\ disk' = d
      /\ IF force \/ d.meta = NoMeta
         THEN /\ ctx' = NoCtx
              /\ StartAt(w, IF asked = 0 THEN Min(w) ELSE asked, "new")
         ELSE prepare_resume(d, w, asked)
  BY <1>3 DEF run_leased
<1>5. ~Ran /\ ~Ran' /\ Fresh /\ Copied
  BY <1>1 DEF Parts, Place, Ran
<1>6. /\ d \in {disk, s3} /\ d.data \in {disk.data, s3.data}
      /\ setup.synced => d = s3
      /\ d = s3 \/ s3 = NoCache
  BY <1>5 DEF sync_pipeline_from_s3, Copied
<1>7. Sound(d, d.data, conf, registry) /\ Sound(s3, d.data, conf, registry)
  <2>1. Sound(s3, disk.data, conf, registry) /\ Sound(disk, disk.data, conf, registry)
    BY <1>5 DEF Parts
  <2>2. Sound(s3, s3.data, conf, registry)
    BY <2>1, SoundAlone
  <2> QED
    BY <2>1, <2>2 DEF sync_pipeline_from_s3
<1> HIDE DEF d
<1>8. (run' = Idle("refused") /\ UNCHANGED ctx) \/ Opens(w)
  <2>1. CASE force \/ d.meta = NoMeta
    <3> DEFINE s == IF asked = 0 THEN Min(w) ELSE asked
    <3>1. s \in w
      <4>1. w # {} /\ w \in SUBSET Stages
        BY WindowsAssumption DEF Stages
      <4> QED
        BY <4>1, FirstStage
    <3>2. disk'.meta = NoMeta \/ (s = Min(w) /\ Loading \in w)
      BY <1>3, <1>4, <2>1
    <3>3. ctx' = NoCtx /\ StartAt(w, s, "new")
      BY <1>4, <2>1
    <3> HIDE DEF s
    <3> QED
      BY <3>1, <3>2, <3>3, NewOpens
  <2>2. CASE ~(force \/ d.meta = NoMeta)
    BY <1>1, <1>4, <1>5, <1>6, <1>7, <2>2, ResumeOpens
  <2> QED
    BY <2>1, <2>2
<1>9. Fresh'
  <2>1. \A s \in Cached : Past(ctx'.out[s].id, conf, registry)
    BY <1>5, <1>8 DEF Opens, Fresh
  <2>2. \A k \in Keys :
          /\ Past(disk'.index[k], conf, registry)
          /\ disk'.data[k] # NoOutput => \A u \in DOMAIN k : k[u] <= conf[u]
    BY <1>4, <1>5, <1>6 DEF Fresh
  <2> QED
    BY <1>1, <1>5, <2>1, <2>2 DEF Fresh
<1>10. Copied'
  BY <1>1, <1>4, <1>5, <1>6 DEF Copied
<1>11. Sound(s3', disk'.data, conf', registry') /\ Sound(disk', disk'.data, conf', registry')
  BY <1>1, <1>4, <1>7
<1>12. Saved'
  BY <1>5 DEF Saved
<1>13. CASE run' = Idle("refused")
  <2>1. run'.pc = "idle"
    BY <1>13, IdleTyped DEF Typed
  <2>2. Place' /\ Writing' /\ Ahead' /\ Ready' /\ Done'
    BY <1>5, <2>1 DEF Place, Writing, Ahead, Ready, Done, AtStage
  <2> QED
    BY <1>5, <1>9, <1>10, <1>11, <1>12, <2>2 DEF Parts
<1>14. CASE Opens(w)
  <2>1. Place' /\ Writing'
    BY <1>14 DEF Opens, Place, Writing, AtStage
  <2>2. Ahead' /\ Ready' /\ Done'
    BY <1>14 DEF Opens, Ready
  <2> QED
    BY <1>5, <1>9, <1>10, <1>11, <1>12, <2>1, <2>2 DEF Parts
<1> QED
  BY <1>8, <1>13, <1>14

-----------------------------------------------------------------------------
(* The theorems.                                                           *)

LEMMA InitCoheres == Init => Coherent
<1> SUFFICES ASSUME Init PROVE Parts
  BY DEF Coherent
<1>1. /\ disk = NoCache /\ s3 = NoCache /\ ctx = NoCtx /\ rerunFrom = N + 1
      /\ run.pc = "idle"
  BY DEF Init, NoRun
<1>2. ~Ran
  BY <1>1, Constants DEF Ran
<1>3. Sound(s3, disk.data, conf, registry) /\ Sound(disk, disk.data, conf, registry)
  BY <1>1, NothingSound
<1>4. Fresh
  <2>1. /\ \A k \in Keys : NoCache.index[k] = NoContent /\ NoCache.data[k] = NoOutput
        /\ \A s \in Cached : NoCtx.out[s].id = NoContent
    BY DEF NoCache, NoCtx, NoOutput
  <2> QED
    BY <1>1, <2>1, NothingPast DEF Fresh
<1>5. Copied /\ Place /\ Writing /\ Ahead /\ Ready /\ Saved /\ Done
  BY <1>1, <1>2 DEF Copied, Place, Writing, Ahead, Ready, Saved, Done, AtStage
<1> QED
  BY <1>2, <1>3, <1>4, <1>5 DEF Parts

LEMMA StepCoheres ==
  ASSUME Contiguous, Typed, Typed', Coherent, [Next]_vars, [NewSettings]_vars
  PROVE  Coherent'
<1> SUFFICES ASSUME ~torn' PROVE Parts'
  BY DEF Coherent
<1>1. CASE UNCHANGED vars
  BY <1>1, NothingCoheres DEF vars, Coherent
<1>2. ASSUME Next, NewSettings
      PROVE  Parts'
  <2>1. ~torn
    BY <1>2 DEF Next, Reconfigure, OtherRun, Start, Begin, Complete, Fail, SaveData,
       SaveIndex, UploadCheckpoint, Finalize, LastUpload, request_stop, CheckpointOnStop,
       Kill, sync_pipeline_to_s3, SyncFails
  <2>2. Parts
    BY <2>1 DEF Coherent
  <2>3. CASE Reconfigure \/ OtherRun
    BY <1>2, <2>2, <2>3, BetweenCoheres
  <2>4. CASE Start
    BY <2>2, <2>4, StartCoheres
  <2>5. CASE Begin
    BY <2>2, <2>5, BeginCoheres
  <2>6. CASE \E part \in BOOLEAN : Complete(part)
    BY <2>2, <2>6, CompleteCoheres
  <2>7. CASE Fail
    BY <2>2, <2>7, FailCoheres
  <2>8. CASE SaveData
    BY <2>2, <2>8, SaveDataCoheres
  <2>9. CASE SaveIndex
    BY <2>2, <2>9, SaveIndexCoheres
  <2>10. CASE UploadCheckpoint
    BY <2>2, <2>10, UploadCoheres
  <2>11. CASE Finalize
    BY <2>2, <2>11, FinalizeCoheres
  <2>12. CASE LastUpload \/ CheckpointOnStop \/ Kill
    BY <2>2, <2>12, EndsCohere
  <2>13. CASE request_stop
    BY <2>2, <2>13, StopCoheres
  <2> QED
    BY <1>2, <2>3, <2>4, <2>5, <2>6, <2>7, <2>8, <2>9, <2>10, <2>11, <2>12, <2>13 DEF Next
<1> QED
  BY <1>1, <1>2

\* When the indexing stage runs, it runs on a context whose outputs belong
\* together.
LEMMA IndexingComposed ==
  ASSUME Parts, IndexingRuns
  PROVE  Composed
BY DEF Parts, Place, Saved, IndexingRuns

\* Under windows without gaps and settings that are never changed back, the
\* indexing stage knows every unit a stage failed on: no output that lacks units
\* is restored or used without its stage in failed_text_unit_ids.
THEOREM FailuresAreKnown ==
  ASSUME Contiguous
  PROVE  Spec /\ [][NewSettings]_vars => []FailuresKnown
<1>1. Coherent => FailuresKnown
  <2> SUFFICES ASSUME Parts, IndexingRuns
               PROVE  \A s \in Outputs : ctx.out[s].part => s \in ctx.failed
    BY DEF Coherent, FailuresKnown
  <2> QED
    BY IndexingComposed DEF Composed, Outputs
<1>2. Contiguous /\ Typed /\ Typed' /\ Coherent /\ [Next]_vars /\ [NewSettings]_vars => Coherent'
  BY StepCoheres
<1> QED
  BY <1>1, <1>2, InitTyped, StepTyped, InitCoheres, PTL DEF Spec

\* Under the same conditions the outputs the indexing stage uses were computed
\* from one another and from the run's delta.
THEOREM OutputsAreCoherent ==
  ASSUME Contiguous
  PROVE  Spec /\ [][NewSettings]_vars => []OutputsCohere
<1>1. Coherent => OutputsCohere
  <2> SUFFICES ASSUME Parts, IndexingRuns
               PROVE  /\ \A s \in Outputs, u \in Cached :
                           u < s => ctx.out[s].ins[u] = ctx.out[u].id
                      /\ Loading \in Outputs => ctx.delta = ctx.out[Loading].id
    BY DEF Coherent, OutputsCohere
  <2> QED
    BY IndexingComposed DEF Composed, Outputs, Before
<1>2. Contiguous /\ Typed /\ Typed' /\ Coherent /\ [Next]_vars /\ [NewSettings]_vars => Coherent'
  BY StepCoheres
<1> QED
  BY <1>1, <1>2, InitTyped, StepTyped, InitCoheres, PTL DEF Spec

-----------------------------------------------------------------------------
(* A stop: what a run finished and saved, at each point of it.              *)

\* The checkpoint has the output of a stage to restore.
Serves(d, c, s) == d.data[Key(c, s)] # NoOutput /\ d.index[Key(c, s)] = d.data[Key(c, s)].id

\* Up to stage m no result is unfinished, every stage of the window completed,
\* and what completed can be restored.
Clear(d, c, res, w, m) ==
    \A u \in 1..m :
        /\ res[u] \in {"none", "completed"}
        /\ u \in w => res[u] = "completed"
        /\ u \in Cached /\ res[u] = "completed" => Serves(d, c, u)

\* A delta that no resume in the window goes back to document_loading for.
Current(delta, res, w, c, r) ==
    delta # NoDelta =>
        /\ delta[1] = r
        /\ Loading \in w => delta[2] = c[Extraction]
        /\ res[Loading] = "completed" => delta[3] = c[Loading]

\* A resume in the window starts after the stages up to m.
Leaves(d, c, r, w, m) ==
    Clear(d, c, d.meta.res, w, m) /\ Current(d.meta.delta, d.meta.res, w, c, r)

\* The run was not told where to start, and all it did was saved.
Reliable == run.by # "asked" /\ run.kept

Begun ==
    /\ run.pc = "idle" => ~Ran
    /\ run.pc # "idle" =>
         /\ run.end = "none" /\ run.win \in Windows
         /\ ~Ran => run.done = {}
         /\ Ran => disk.meta = [res |-> ctx.res, failed |-> ctx.failed, delta |-> ctx.delta]
         /\ Ran \/ run.pc = "finish" => \E s \in Stages : ctx.res[s] # "none"
    /\ run.pc \in AtStage => run.at \in run.win /\ (Ran \/ run.pc = "next")
    /\ run.done \subseteq run.win
    /\ \A d \in {disk, s3} : d.meta = NoMeta \/ Recorded(d) # {}

\* What a run that is at a stage has finished and saved.
Following ==
    /\ Clear(disk, conf, ctx.res, run.win, IF run.pc = "upload" THEN run.at ELSE run.at - 1)
    /\ ~WillLoad => Current(ctx.delta, ctx.res, run.win, conf, registry)
    /\ ~Ran => \A s \in Stages : s < run.at /\ ctx.res[s] = "none" => disk.meta.res[s] # "completed"
    /\ \A m \in run.done : m <= run.at /\ (run.pc \in {"next", "run"} => m # run.at)
    /\ run.pc \in {"data", "index"} =>
         ctx.res[run.at] = "completed" /\ ctx.out[run.at].id # NoContent
    /\ run.pc = "index" => disk.data[Key(conf, run.at)] = ctx.out[run.at]

\* What a run leaves is what it finished.
Kept(d) == \A m \in run.done \cap Cached : Leaves(d, conf, registry, run.win, m)

Keeping ==
    /\ Begun
    /\ Reliable =>
         /\ run.pc \in AtStage => Following
         /\ PastStages => Kept(disk)
         /\ run.pc = "idle" /\ run.end = "stopped" => Kept(sync_pipeline_from_s3)

LEMMA ServesLoaded ==
  ASSUME Typed, NEW d, NEW s \in Cached
  PROVE  Serves(d, conf, s) <=> load_stage_result(d, s) # NoOutput
BY KeyOf DEF Serves, load_stage_result

\* What is clear up to a stage is clear up to those before, and stays so while
\* the results and the outputs are those.
LEMMA ClearMoves ==
  ASSUME NEW c, NEW w, NEW d, NEW res, NEW m \in Nat, Clear(d, c, res, w, m),
         NEW e, NEW more, NEW n \in Nat, n <= m,
         \A u \in 1..n : more[u] = res[u],
         \A u \in 1..n : u \in Cached =>
             e.data[Key(c, u)] = d.data[Key(c, u)] /\ e.index[Key(c, u)] = d.index[Key(c, u)]
  PROVE  Clear(e, c, more, w, n)
<1> SUFFICES ASSUME NEW u \in 1..n
             PROVE  /\ more[u] \in {"none", "completed"}
                    /\ u \in w => more[u] = "completed"
                    /\ u \in Cached /\ more[u] = "completed" => Serves(e, c, u)
  BY DEF Clear
<1>1. u \in 1..m
  OBVIOUS
<1>2. /\ res[u] \in {"none", "completed"}
      /\ u \in w => res[u] = "completed"
      /\ u \in Cached /\ res[u] = "completed" => Serves(d, c, u)
  BY <1>1 DEF Clear
<1> QED
  BY <1>2 DEF Serves

-----------------------------------------------------------------------------
(* A resume after a stop.                                                  *)

\* A point past stage m that restores what completed up to it.
Beyond(d, p, m) ==
    /\ p.start \in Nat /\ p.start > m
    /\ p.done \subseteq RecordedCompleted(d)
    /\ \A u \in 1..m : d.meta.res[u] = "completed" => u \in p.done

\* Going back no further than after stage m.
LEMMA RewindBeyond ==
  ASSUME NEW d, NEW p, NEW m \in Nat, Beyond(d, p, m), NEW s \in Nat, s > m
  PROVE  Beyond(d, RewindTo(p, s), m)
<1>1. RewindTo(p, s).start = s /\ RewindTo(p, s).done = Before(p.done, s)
  BY DEF RewindTo
<1>2. \A u \in 1..m : u < s
  OBVIOUS
<1> QED
  BY <1>1, <1>2 DEF Beyond, Before

\* The recorded results give a point past what is clear.
LEMMA AutoBeyond ==
  ASSUME NEW d, NEW c, NEW w, NEW m \in w \cap Cached, Clear(d, c, d.meta.res, w, m)
  PROVE  Beyond(d, handle_auto_resume(d), m)
<1> DEFINE unfinished == Recorded(d) \ RecordedCompleted(d)
           last == Max(Recorded(d))
           p == handle_auto_resume(d)
<1>1. /\ m \in Nat /\ m \in Stages /\ m \in 1..m /\ m < N /\ m >= 1
      /\ \A u \in Stages : u \in Nat /\ u >= 1
      /\ \A u \in 1..m : u \in Stages /\ d.meta.res[u] \in {"none", "completed"}
      /\ d.meta.res[m] = "completed"
  BY Constants DEF Clear, Cached, Stages
<1>2. /\ Recorded(d) \subseteq Stages /\ RecordedCompleted(d) \subseteq Stages
      /\ \A s \in Stages : /\ s \in Recorded(d) <=> d.meta.res[s] # "none"
                           /\ s \in RecordedCompleted(d) <=> d.meta.res[s] = "completed"
  BY DEF Recorded, RecordedCompleted
<1>3. CASE unfinished # {}
  <2>1. Min(unfinished) \in unfinished
    <3>1. unfinished \in SUBSET Nat
      BY <1>1, <1>2
    <3> QED
      BY <1>3, <3>1, MinIn
  <2>2. p = [start |-> Min(unfinished), done |-> Before(RecordedCompleted(d), Min(unfinished))]
    BY <1>3 DEF handle_auto_resume
  <2> DEFINE s == Min(unfinished)
  <2>3. s \in Stages /\ d.meta.res[s] \notin {"none", "completed"}
    BY <1>2, <2>1
  <2>4. p.start = s /\ p.done = Before(RecordedCompleted(d), s)
    BY <2>2
  <2> HIDE DEF s, p
  <2>5. s > m
    BY <1>1, <2>3
  <2>6. \A u \in 1..m : u < s
    BY <1>1, <2>3, <2>5
  <2>7. Beyond(d, p, m)
    BY <1>1, <1>2, <2>3, <2>4, <2>5, <2>6 DEF Beyond, Before
  <2> QED
    BY <2>7 DEF p
<1>4. CASE unfinished = {}
  <2>1. p = [start |-> IF last = Indexing THEN last ELSE last + 1,
             done |-> RecordedCompleted(d)]
    BY <1>4 DEF handle_auto_resume
  <2>2. last \in Stages /\ m <= last
    BY <1>1, <1>2, MaxIn
  <2> HIDE DEF p, last
  <2>3. p.start = (IF last = Indexing THEN last ELSE last + 1) /\ p.done = RecordedCompleted(d)
    BY <2>1
  <2>4. p.start \in Nat /\ p.start > m
    BY <1>1, <2>2, <2>3, Constants DEF Indexing
  <2>5. Beyond(d, p, m)
    BY <1>1, <1>2, <2>3, <2>4 DEF Beyond
  <2> QED
    BY <2>5 DEF p
<1> QED
  BY <1>3, <1>4

\* No output up to a clear stage is missing.
LEMMA NothingMissing ==
  ASSUME Typed, NEW d, NEW w, NEW m, Leaves(d, conf, registry, w, m),
         NEW u \in 1..m, u \in Cached, d.meta.res[u] = "completed"
  PROVE  ~missing_cache_keys(d, u)
<1>1. load_stage_result(d, u) # NoOutput
  BY ServesLoaded DEF Leaves, Clear
<1>2. u = Loading /\ d.meta.delta # NoDelta => d.meta.delta[3] = conf[Loading]
  BY DEF Leaves, Current
<1> QED
  BY <1>1, <1>2 DEF missing_cache_keys

\* No step of the strategy moves the point back to a clear stage.
LEMMA StrategyBeyond ==
  ASSUME Typed, NEW d, NEW w \in SUBSET Stages, NEW m \in w \cap Cached,
         Leaves(d, conf, registry, w, m)
  PROVE  Beyond(d, determine_resume_strategy(d, w, 0), m)
<1> DEFINE auto == handle_auto_resume(d)
           backed == verify_completed_stages_against_cache(d, auto)
           past == rewind_to_unrun_stage(w, backed)
<1>1. determine_resume_strategy(d, w, 0) = rewind_on_extraction_change(d, w, past)
  BY DEF determine_resume_strategy
<1>2. /\ m \in Nat /\ \A u \in Stages : u \in Nat /\ u >= 1
      /\ \A u \in Stages : ~(u > m) => u \in 1..m
      /\ RecordedCompleted(d) \subseteq Stages
      /\ \A u \in RecordedCompleted(d) : d.meta.res[u] = "completed"
  BY Constants DEF Cached, Stages, RecordedCompleted
<1>3. Beyond(d, auto, m)
  BY AutoBeyond DEF Leaves
<1> HIDE DEF auto
<1>4. Beyond(d, backed, m)
  <2>1. CASE Unbacked(d, auto) = {}
    BY <1>3, <2>1 DEF verify_completed_stages_against_cache
  <2>2. CASE Unbacked(d, auto) # {}
    <3> DEFINE s == Min(Unbacked(d, auto))
    <3>1. Unbacked(d, auto) \subseteq RecordedCompleted(d)
      BY <1>3 DEF Unbacked, Beyond
    <3>2. s \in Unbacked(d, auto)
      <4>1. Unbacked(d, auto) \in SUBSET Nat
        BY <1>2, <3>1
      <4> QED
        BY <2>2, <4>1, MinIn
    <3>3. backed = RewindTo(auto, s)
      BY <2>2 DEF verify_completed_stages_against_cache
    <3> HIDE DEF s, backed
    <3>4. s \in Stages /\ d.meta.res[s] = "completed" /\ missing_cache_keys(d, s) /\ s \in Cached
      BY <1>2, <3>1, <3>2 DEF Unbacked, missing_cache_keys
    <3>5. s > m
      BY <1>2, <3>4, NothingMissing
    <3> QED
      BY <1>2, <1>3, <3>3, <3>4, <3>5, RewindBeyond
  <2> QED
    BY <2>1, <2>2
<1> HIDE DEF backed
<1>5. Beyond(d, past, m)
  <2> DEFINE unrun == Before(w, backed.start) \ backed.done
  <2>1. CASE unrun = {}
    BY <1>4, <2>1 DEF rewind_to_unrun_stage
  <2>2. CASE unrun # {}
    <3> DEFINE s == Min(unrun)
    <3>1. unrun \subseteq w
      BY DEF Before
    <3>2. s \in unrun
      <4>1. unrun \in SUBSET Nat
        BY <1>2, <3>1
      <4> HIDE DEF unrun
      <4> QED
        BY <2>2, <4>1, MinIn
    <3>3. past = RewindTo(backed, s)
      BY <2>2 DEF rewind_to_unrun_stage
    <3>4. s \in w /\ s \in Stages /\ s \notin backed.done
      BY <3>1, <3>2
    <3> HIDE DEF s, past, unrun
    <3>5. s > m
      <4> SUFFICES ASSUME ~(s > m) PROVE FALSE
        OBVIOUS
      <4>1. s \in 1..m
        BY <1>2, <3>4
      <4>2. d.meta.res[s] = "completed"
        BY <3>4, <4>1 DEF Leaves, Clear
      <4> QED
        BY <1>4, <3>4, <4>1, <4>2 DEF Beyond
    <3> QED
      BY <1>2, <1>4, <3>3, <3>4, <3>5, RewindBeyond
  <2> QED
    BY <2>1, <2>2
<1> HIDE DEF past
<1>6. rewind_on_extraction_change(d, w, past) = past
  BY DEF rewind_on_extraction_change, Leaves, Current
<1> QED
  BY <1>1, <1>5, <1>6

\* The next run in the same window starts after every stage the last one left
\* finished, when none of them failed on units.
LEMMA ResumesAfter ==
  ASSUME Typed, NEW d, NEW w \in Windows, NEW m \in w \cap Cached,
         Leaves(d, conf, registry, w, m), d.meta.failed = {},
         prepare_resume(d, w, 0), run'.pc = "next"
  PROVE  m < run'.at
<1> DEFINE asks == determine_resume_strategy(d, w, 0)
           rewound == rewind_to_failed_stage(d, w, 0, asks)
           p == rewind_on_stale_delta(d, w, rewound)
<1>1. w \in SUBSET Stages
  BY WindowsAssumption DEF Stages
<1>2. run' = Idle("refused") \/ StartAt(w, p.start, "auto")
  BY DEF prepare_resume
<1>3. StartAt(w, p.start, "auto")
  <2>1. Idle("refused").pc = "idle"
    BY DEF Idle, NoRun
  <2> HIDE DEF p
  <2> QED
    BY <1>2, <2>1
<1>4. Beyond(d, asks, m)
  BY <1>1, StrategyBeyond
<1> HIDE DEF asks
<1>5. rewound = asks
  BY DEF rewind_to_failed_stage, FailedBefore, Before
<1> HIDE DEF rewound
<1>6. p = rewound
  BY DEF rewind_on_stale_delta, delta_is_stale, Leaves, Current
<1> HIDE DEF p
<1>7. p.start > m /\ m \in Nat /\ p.start \in Nat
  BY <1>4, <1>5, <1>6, Constants DEF Beyond
<1> DEFINE left == {u \in w : u >= p.start}
<1>8. run'.pc = start_index(w, p.start).pc /\ run'.at = start_index(w, p.start).at
  BY <1>1, <1>3, StartAtTyped
<1>9. left # {} /\ run'.at = Min(left)
  BY <1>8 DEF start_index
<1>10. left \in SUBSET Nat
  BY <1>1, Constants
<1>11. Min(left) \in left
  BY <1>9, <1>10, MinIn
<1> QED
  BY <1>7, <1>9, <1>10, <1>11

-----------------------------------------------------------------------------
(* A resume that lets a run start.                                         *)

\* It executes again every enabled stage it does not restore, and loads the
\* documents if the extraction settings are new.
Executes(d, w, p) ==
    /\ p.start \in Nat
    /\ \A u \in w : u < p.start => u \in p.done

Reloads(d, w, p) ==
    Loading \in w /\ d.meta.delta # NoDelta /\ d.meta.delta[2] # conf[Extraction]
        => p.start = Loading

LEMMA RewindExecutes ==
  ASSUME NEW d, NEW w \in SUBSET Stages, NEW p, Executes(d, w, p), NEW s \in Nat, s <= p.start
  PROVE  Executes(d, w, RewindTo(p, s))
<1>1. RewindTo(p, s).start = s /\ RewindTo(p, s).done = Before(p.done, s)
  BY DEF RewindTo
<1>2. \A u \in w : u < s => u < p.start
  BY Constants DEF Executes
<1> QED
  BY <1>1, <1>2 DEF Executes, Before

LEMMA StrategyExecutes ==
  ASSUME NEW d, NEW w \in SUBSET Stages, Recorded(d) # {}
  PROVE  LET p == determine_resume_strategy(d, w, 0)
         IN Executes(d, w, p) /\ Reloads(d, w, p)
<1> DEFINE auto == handle_auto_resume(d)
           backed == verify_completed_stages_against_cache(d, auto)
           past == rewind_to_unrun_stage(w, backed)
           p == rewind_on_extraction_change(d, w, past)
<1>1. determine_resume_strategy(d, w, 0) = p
  BY DEF determine_resume_strategy
<1>2. \A u \in Stages : u \in Nat /\ u >= 1
  BY Constants DEF Stages
<1>3. backed.start \in Nat /\ backed.start >= 1
  <2>1. auto.start \in Stages /\ auto.done \subseteq RecordedCompleted(d)
    BY AutoPoint DEF Sane
  <2> HIDE DEF auto
  <2>2. CASE Unbacked(d, auto) = {}
    BY <1>2, <2>1, <2>2 DEF verify_completed_stages_against_cache
  <2>3. CASE Unbacked(d, auto) # {}
    <3> DEFINE s == Min(Unbacked(d, auto))
    <3>1. Unbacked(d, auto) \subseteq Stages
      BY <2>1 DEF Unbacked, RecordedCompleted
    <3>2. s \in Stages
      BY <2>3, <3>1, FirstStage
    <3>3. backed = RewindTo(auto, s)
      BY <2>3 DEF verify_completed_stages_against_cache
    <3> HIDE DEF s, backed
    <3> QED
      BY <1>2, <3>2, <3>3 DEF RewindTo
  <2> QED
    BY <2>2, <2>3
<1> HIDE DEF backed
<1>4. Executes(d, w, past) /\ past.start >= 1
  <2> DEFINE unrun == Before(w, backed.start) \ backed.done
  <2>1. CASE unrun = {}
    BY <1>3, <2>1 DEF rewind_to_unrun_stage, Executes, Before
  <2>2. CASE unrun # {}
    <3> DEFINE s == Min(unrun)
    <3>1. s \in unrun /\ \A x \in unrun : s <= x
      <4>1. unrun \in SUBSET Nat
        BY <1>2 DEF Before
      <4> HIDE DEF unrun
      <4> QED
        BY <2>2, <4>1, MinIn
    <3>2. past = RewindTo(backed, s)
      BY <2>2 DEF rewind_to_unrun_stage
    <3>3. s \in Stages /\ s \in Nat /\ s >= 1 /\ s < backed.start
      BY <1>2, <3>1 DEF Before
    <3> HIDE DEF s, past
    <3>4. ASSUME NEW u \in w, u < s
          PROVE  u \in backed.done
      <4>1. u \in Nat /\ u < backed.start
        BY <1>2, <1>3, <3>3, <3>4
      <4>2. ~(s <= u)
        BY <3>3, <3>4, <4>1
      <4> QED
        BY <3>1, <4>1, <4>2 DEF Before
    <3>5. past.start = s /\ past.done = Before(backed.done, s)
      BY <3>2 DEF RewindTo
    <3> QED
      BY <3>3, <3>4, <3>5 DEF Executes, Before
  <2> QED
    BY <2>1, <2>2
<1> HIDE DEF past
<1>5. CASE p = past
  <2>1. past # RewindTo(past, Loading) => Reloads(d, w, past)
    BY <1>5 DEF rewind_on_extraction_change, Reloads
  <2>2. past = RewindTo(past, Loading) => past.start = Loading
    BY DEF RewindTo
  <2> QED
    BY <1>1, <1>4, <1>5, <2>1, <2>2 DEF Reloads
<1>6. CASE p # past
  <2>1. p = RewindTo(past, Loading)
    BY <1>6 DEF rewind_on_extraction_change
  <2>2. Loading \in Nat /\ Loading <= past.start
    BY <1>4 DEF Loading
  <2>3. p.start = Loading
    BY <2>1 DEF RewindTo
  <2> HIDE DEF p
  <2> QED
    BY <1>1, <1>4, <2>1, <2>2, <2>3, RewindExecutes DEF Reloads
<1> QED
  BY <1>5, <1>6

\* The later moves keep both.
LEMMA RewindsExecute ==
  ASSUME NEW d, NEW w \in SUBSET Stages, NEW asks, asks.start \in Stages,
         Executes(d, w, asks)
  PROVE  LET rewound == rewind_to_failed_stage(d, w, 0, asks)
             p == rewind_on_stale_delta(d, w, rewound)
         IN /\ Executes(d, w, p) /\ p.start <= asks.start /\ p.start >= 1
            /\ p # rewound => delta_is_stale(d, w, rewound)
            /\ delta_is_stale(d, w, rewound) => p.start = Loading
<1> DEFINE rewound == rewind_to_failed_stage(d, w, 0, asks)
           p == rewind_on_stale_delta(d, w, rewound)
           failed == FailedBefore(d, w, asks)
<1>1. \A u \in Stages : u \in Nat /\ u >= 1
  BY Constants DEF Stages
<1>2. Executes(d, w, rewound) /\ rewound.start <= asks.start /\ rewound.start >= 1
  <2>1. CASE failed = {}
    BY <1>1, <2>1 DEF rewind_to_failed_stage
  <2>2. CASE failed # {}
    <3> DEFINE s == Min(failed)
    <3>1. failed \subseteq w /\ \A u \in failed : u < asks.start
      BY DEF FailedBefore, Before
    <3>2. s \in failed
      <4>1. failed \in SUBSET Nat
        BY <1>1, <3>1
      <4> HIDE DEF failed
      <4> QED
        BY <2>2, <4>1, MinIn
    <3>3. rewound = RewindTo(asks, s)
      BY <2>2 DEF rewind_to_failed_stage
    <3> HIDE DEF s, rewound, failed
    <3>4. s \in Nat /\ s >= 1 /\ s <= asks.start
      BY <1>1, <3>1, <3>2
    <3>5. rewound.start = s
      BY <3>3 DEF RewindTo
    <3> QED
      BY <3>3, <3>4, <3>5, RewindExecutes
  <2> QED
    BY <2>1, <2>2
<1> HIDE DEF rewound
<1>3. CASE ~delta_is_stale(d, w, rewound)
  BY <1>2, <1>3 DEF rewind_on_stale_delta, rewound
<1>4. CASE delta_is_stale(d, w, rewound)
  <2>1. p = RewindTo(rewound, Loading) /\ p.start = Loading
    BY <1>4 DEF rewind_on_stale_delta, RewindTo
  <2>2. Loading \in Nat /\ Loading >= 1 /\ Loading <= rewound.start /\ rewound.start \in Nat
    BY <1>2 DEF Loading, Executes
  <2>3. Loading <= asks.start
    BY <1>1, <1>2, <2>2
  <2> HIDE DEF p
  <2>4. Executes(d, w, p)
    BY <1>2, <2>1, <2>2, RewindExecutes
  <2> QED
    BY <1>4, <2>1, <2>2, <2>3, <2>4 DEF p, rewound
<1> QED
  BY <1>3, <1>4

\* A resume that says itself where the run starts: a stage before it that is
\* enabled completed, what completed is restored, and the delta is one that
\* document_loading would not compute otherwise, unless it is about to.
LEMMA AutoFollows ==
  ASSUME Contiguous, Typed, NEW d \in Checkpoint, Recorded(d) # {}, NEW w \in Windows,
         prepare_resume(d, w, 0), run' # Idle("refused")
  PROVE  /\ run'.pc = "finish" => \E s \in Stages : ctx'.res[s] # "none"
         /\ run'.pc = "next" =>
              /\ Clear(d, conf, ctx'.res, w, run'.at - 1)
              /\ run'.at # Loading => Current(ctx'.delta, ctx'.res, w, conf, registry)
              /\ \A s \in Stages : s < run'.at /\ ctx'.res[s] = "none"
                   => d.meta.res[s] # "completed"
<1> DEFINE asks == determine_resume_strategy(d, w, 0)
           rewound == rewind_to_failed_stage(d, w, 0, asks)
           p == rewind_on_stale_delta(d, w, rewound)
<1>1. /\ ctx' = restore_pipeline_context(d, w, p) /\ StartAt(w, p.start, "auto")
      /\ ~refuses_unbacked(d, 0) /\ check_upstream_complete(d, w, asks)
      /\ ~(delta_is_stale(d, w, rewound) /\ Loading \notin w)
  BY DEF prepare_resume
<1>2. /\ w \in SUBSET Stages /\ w # {}
      /\ \A u \in Stages : u \in Nat /\ u >= 1 /\ u \in 1..N
  BY WindowsAssumption, Constants DEF Stages
<1>3. Sane(d, asks) /\ Unbacked(d, asks) = {} /\ Leads(d, w, asks)
  <2>1. Asks(d, 0)
    BY <1>2 DEF Asks
  <2> QED
    BY <1>1, <1>2, <2>1, StrategyPoint
<1>4. Executes(d, w, asks) /\ Reloads(d, w, asks)
  BY <1>2, StrategyExecutes
<1>5. p.done \subseteq RecordedCompleted(d)
  BY RestoresCompleted
<1> HIDE DEF asks
<1>6. Sane(d, p) /\ Unbacked(d, p) = {} /\ (p = asks \/ p.start \in w)
  BY <1>1, <1>2, <1>3, ResumePoint
<1>7. /\ Executes(d, w, p) /\ p.start <= asks.start /\ p.start >= 1
      /\ p # rewound => delta_is_stale(d, w, rewound)
      /\ delta_is_stale(d, w, rewound) => p.start = Loading
  BY <1>3, <1>4, <1>2, RewindsExecute DEF Sane
<1>8. delta_is_stale(d, w, p) => p.start = Loading
  BY <1>7
<1> HIDE DEF rewound, p
<1>9. /\ run'.win = w /\ run'.pc = start_index(w, p.start).pc
      /\ run'.at = start_index(w, p.start).at
  BY <1>1, <1>2, StartAtTyped
<1>10. /\ ctx'.res = [s \in Stages |-> IF s < p.start THEN d.meta.res[s] ELSE "none"]
       /\ ctx'.delta = d.meta.delta
  BY <1>1 DEF restore_pipeline_context
<1>11. p.start \in Stages /\ p.start \in Nat /\ asks.start \in Nat
  BY <1>2, <1>3, <1>6 DEF Sane
<1>12. \/ run'.pc = "finish" /\ \A u \in w : u < p.start
       \/ /\ run'.pc = "next" /\ run'.at \in w /\ run'.at >= p.start
          /\ \A u \in w : u >= p.start => u >= run'.at
  <2>1. LET i == start_index(w, p.start) IN
        \/ i = [pc |-> "finish", at |-> 0] /\ \A u \in w : u < p.start
        \/ /\ i.pc = "next" /\ i.at \in w /\ i.at >= p.start
           /\ \A u \in w : u >= p.start => u >= i.at
           /\ i = [pc |-> "next", at |-> i.at]
    BY <1>2, <1>11, StartIndexTyped
  <2> QED
    BY <1>9, <2>1
<1>13. ASSUME NEW u \in w, u < p.start
       PROVE  u \in p.done /\ ctx'.res[u] = "completed"
  <2>1. u \in p.done
    BY <1>7, <1>13 DEF Executes
  <2>2. d.meta.res[u] = "completed"
    BY <1>5, <2>1 DEF RecordedCompleted
  <2> QED
    BY <1>2, <1>10, <1>13, <2>1, <2>2
<1>14. run'.pc = "finish" => \E s \in Stages : ctx'.res[s] # "none"
  <2> SUFFICES ASSUME run'.pc = "finish" PROVE \E s \in Stages : ctx'.res[s] # "none"
    OBVIOUS
  <2>1. PICK u \in w : u < p.start
    BY <1>2, <1>12
  <2> QED
    BY <1>2, <1>13, <2>1
<1>15. ASSUME run'.pc = "next"
       PROVE  Clear(d, conf, ctx'.res, w, run'.at - 1)
  <2> SUFFICES ASSUME NEW u \in 1..(run'.at - 1)
               PROVE  /\ ctx'.res[u] \in {"none", "completed"}
                      /\ u \in w => ctx'.res[u] = "completed"
                      /\ u \in Cached /\ ctx'.res[u] = "completed" => Serves(d, conf, u)
    BY DEF Clear
  <2>0. run'.at \in 1..N
    BY <1>2, <1>12, <1>15
  <2>1. u \in Stages /\ u \in Nat /\ u < run'.at
    BY <2>0, Constants DEF Stages
  <2>2. CASE u < p.start
    <3>1. ctx'.res[u] = d.meta.res[u] /\ ctx'.res[u] \in {"none", "completed"}
          /\ (ctx'.res[u] = "completed" => u \in p.done)
      BY <1>6, <1>10, <2>1, <2>2 DEF Sane
    <3>2. u \in Cached /\ u \in p.done => Serves(d, conf, u)
      <4> SUFFICES ASSUME u \in Cached, u \in p.done PROVE Serves(d, conf, u)
        OBVIOUS
      <4>1. ~missing_cache_keys(d, u)
        BY <1>6 DEF Unbacked
      <4>2. load_stage_result(d, u) # NoOutput
        BY <4>1 DEF missing_cache_keys
      <4> QED
        BY <4>2, ServesLoaded
    <3> QED
      BY <1>13, <2>2, <3>1, <3>2
  <2>3. CASE u >= p.start
    <3>1. ctx'.res[u] = "none"
      BY <1>10, <1>11, <2>1, <2>3
    <3>2. u \notin w
      BY <1>12, <1>15, <2>0, <2>1, <2>3
    <3> QED
      BY <3>1, <3>2
  <2> QED
    BY <1>11, <2>1, <2>2, <2>3
<1>16. ASSUME run'.pc = "next", run'.at # Loading
       PROVE  Current(ctx'.delta, ctx'.res, w, conf, registry)
  <2> SUFFICES ASSUME d.meta.delta # NoDelta
               PROVE  /\ d.meta.delta[1] = registry
                      /\ Loading \in w => d.meta.delta[2] = conf[Extraction]
                      /\ ctx'.res[Loading] = "completed" => d.meta.delta[3] = conf[Loading]
    BY <1>10 DEF Current
  <2>1. p.start # Loading
    <3> SUFFICES ASSUME p.start = Loading PROVE FALSE
      OBVIOUS
    <3>1. Loading \notin w
      <4>1. Loading \in w => Loading >= run'.at
        BY <1>12, <1>16 DEF Loading
      <4>2. run'.at \in Nat /\ run'.at >= 1
        BY <1>2, <1>12, <1>16
      <4> QED
        BY <1>16, <4>1, <4>2 DEF Loading
    <3>2. p = asks /\ LeavesOff(d, Loading)
      BY <1>3, <1>6, <3>1 DEF Leads
    <3>3. Min(w) \in w
      BY <1>2, FirstStage
    <3>4. Loading < Min(w)
      BY <1>2, <3>1, <3>3 DEF Loading
    <3>5. Loading \notin Recorded(d)
      BY <1>1, <3>1, <3>2, <3>4 DEF check_upstream_complete
    <3>6. d.meta.res[Loading] = "none"
      BY <3>5, Constants DEF Recorded
    <3>7. \A u \in Stages : d.meta.res[u] = "none"
      BY <1>2, <3>2, <3>6, LoadingIsNotLast DEF LeavesOff, Loading
    <3> QED
      BY <3>7 DEF Recorded
  <2>2. p.start > Loading
    BY <1>7, <1>11, <2>1 DEF Loading
  <2>3. d.meta.delta[1] = registry
    <3>1. \E s \in w : s >= p.start
      BY <1>12, <1>16
    <3> QED
      BY <1>8, <2>1, <2>2, <3>1 DEF delta_is_stale
  <2>4. Loading \in w => d.meta.delta[2] = conf[Extraction]
    <3> SUFFICES ASSUME Loading \in w, d.meta.delta[2] # conf[Extraction] PROVE FALSE
      OBVIOUS
    <3>1. asks.start = Loading
      BY <1>4 DEF Reloads
    <3> QED
      BY <1>7, <1>11, <2>2, <3>1 DEF Loading
  <2>5. ctx'.res[Loading] = "completed" => d.meta.delta[3] = conf[Loading]
    <3> SUFFICES ASSUME ctx'.res[Loading] = "completed" PROVE d.meta.delta[3] = conf[Loading]
      OBVIOUS
    <3>1. Loading < p.start /\ d.meta.res[Loading] = "completed"
      BY <1>10, Constants
    <3>2. Loading \in p.done
      BY <1>6, <3>1, Constants DEF Sane
    <3>3. ~missing_cache_keys(d, Loading)
      BY <1>6, <3>2 DEF Unbacked
    <3> QED
      BY <3>3, Constants DEF missing_cache_keys
  <2> QED
    BY <2>3, <2>4, <2>5
<1>17. ASSUME run'.pc = "next", NEW s \in Stages, s < run'.at, ctx'.res[s] = "none"
       PROVE  d.meta.res[s] # "completed"
  <2>1. CASE s < p.start
    BY <1>10, <1>17, <2>1
  <2>2. CASE s >= p.start
    BY <1>1, <1>3, <1>6, <1>12, <1>17, <2>2, Skipped
  <2> QED
    BY <1>2, <1>11, <2>1, <2>2
<1> QED
  BY <1>14, <1>15, <1>16, <1>17

\* A run asked to start at a stage starts at one that is enabled.
LEMMA AskedRuns ==
  ASSUME NEW d, Recorded(d) # {}, NEW w \in Windows, NEW asked \in w, Asks(d, asked),
         prepare_resume(d, w, asked), run' # Idle("refused")
  PROVE  run'.pc = "next"
<1> DEFINE asks == determine_resume_strategy(d, w, asked)
           rewound == rewind_to_failed_stage(d, w, asked, asks)
           p == rewind_on_stale_delta(d, w, rewound)
<1>1. /\ \E by : StartAt(w, p.start, by)
      /\ ~refuses_unbacked(d, asked)
      /\ ~(delta_is_stale(d, w, rewound) /\ Loading \notin w)
  BY DEF prepare_resume
<1>2. w \in SUBSET Stages /\ asked # 0 /\ \A u \in w : u \in Nat
  BY WindowsAssumption, Constants DEF Stages
<1>3. Sane(d, asks) /\ Unbacked(d, asks) = {}
  BY <1>1, <1>2, StrategyPoint
<1>4. asks.start = asked
  BY <1>2 DEF determine_resume_strategy, handle_explicit_stage_resume
<1> HIDE DEF asks
<1>5. p = asks \/ p.start \in w
  BY <1>1, <1>2, <1>3, ResumePoint
<1>6. p.start \in w
  BY <1>4, <1>5
<1> HIDE DEF p
<1>7. {u \in w : u >= p.start} # {}
  BY <1>2, <1>6
<1>8. start_index(w, p.start).pc = "next"
  BY <1>7 DEF start_index
<1> QED
  BY <1>1, <1>8 DEF StartAt

-----------------------------------------------------------------------------
(* The steps, and what a run has finished.                                 *)

\* How a run stands once it started.
Starts(w) ==
    /\ run'.win = w /\ run'.done = {} /\ run'.end = "none"
    /\ run'.pc = "finish" \/ (run'.pc = "next" /\ run'.at \in w)
    /\ run'.pc = "finish" => \E s \in Stages : ctx'.res[s] # "none"
    /\ Reliable' /\ run'.pc = "next" => Following'

LEMMA StartAtStarts ==
  ASSUME NEW w \in Windows, NEW s, NEW by \in {"new", "auto", "asked"}, StartAt(w, s, by)
  PROVE  /\ run'.win = w /\ run'.done = {} /\ run'.end = "none" /\ run'.by = by /\ run'.kept
         /\ run'.pc = "finish" \/ (run'.pc = "next" /\ run'.at \in w)
<1>1. w \in SUBSET Stages
  BY WindowsAssumption DEF Stages
<1>2. run'.pc = "finish" \/ (run'.pc = "next" /\ run'.at \in w)
  BY <1>1, StartAtTyped
<1> QED
  BY <1>2 DEF StartAt

LEMMA NewStarts ==
  ASSUME NEW w \in Windows, NEW s \in w, ctx' = NoCtx, StartAt(w, s, "new"),
         s = Min(w) \/ s = Loading, disk'.meta = NoMeta \/ Loading \in w
  PROVE  Starts(w)
<1>1. w \in SUBSET Stages /\ w # {} /\ \A u \in Stages : u \in Nat /\ u >= 1
  BY WindowsAssumption, Constants DEF Stages
<1>2. /\ run'.win = w /\ run'.done = {} /\ run'.end = "none" /\ run'.by = "new" /\ run'.kept
  BY StartAtStarts
<1>3. run'.pc = start_index(w, s).pc /\ run'.at = start_index(w, s).at
  BY <1>1, StartAtTyped
<1>4. run'.pc = "next" /\ run'.at \in w /\ \A u \in w : u >= s => u >= run'.at
  <2>1. ~(\A u \in w : u < s)
    BY <1>1
  <2> QED
    BY <1>1, <1>3, <2>1, StartIndexTyped
<1>5. ASSUME NEW u \in w PROVE ~(u < run'.at)
  <2>1. s <= u
    <3>1. CASE s = Min(w)
      BY <1>1, <3>1, FirstStage
    <3>2. CASE s = Loading
      BY <1>1, <3>2 DEF Loading
    <3> QED
      BY <3>1, <3>2
  <2>2. run'.at \in Nat /\ u \in Nat /\ s \in Nat
    BY <1>1, <1>4
  <2> QED
    BY <1>4, <2>1, <2>2
<1>6. \A u \in Stages : ctx'.res[u] = "none"
  BY DEF NoCtx
<1>7. Clear(disk', conf', ctx'.res, w, run'.at - 1)
  <2> SUFFICES ASSUME NEW u \in 1..(run'.at - 1)
               PROVE  u \in Stages /\ u \notin w
    BY <1>6 DEF Clear
  <2>1. run'.at \in Stages
    BY <1>1, <1>4
  <2>2. u \in Stages /\ u < run'.at
    BY <2>1, Constants DEF Stages
  <2> QED
    BY <1>5, <2>2
<1>8. Current(ctx'.delta, ctx'.res, w, conf', registry')
  BY DEF NoCtx, Current
<1>9. \A u \in Stages : u < run'.at => disk'.meta.res[u] # "completed"
  <2>1. CASE disk'.meta = NoMeta
    BY <2>1 DEF NoMeta
  <2>2. CASE Loading \in w
    <3>1. ~(Loading < run'.at) /\ run'.at \in Nat
      BY <1>1, <1>4, <1>5, <2>2
    <3> QED
      BY <1>1, <3>1 DEF Loading
  <2> QED
    BY <2>1, <2>2
<1>10. Following'
  BY <1>2, <1>4, <1>7, <1>8, <1>9 DEF Following
<1> QED
  BY <1>2, <1>4, <1>10 DEF Starts

LEMMA ResumeStarts ==
  ASSUME Contiguous, Typed, NEW d \in Checkpoint, Recorded(d) # {}, NEW w \in Windows,
         NEW asked \in {0} \cup w, Asks(d, asked), prepare_resume(d, w, asked),
         UNCHANGED <<conf, registry>>, disk' = d, run' # Idle("refused")
  PROVE  Starts(w)
<1> DEFINE by == IF asked = 0 THEN "auto" ELSE "asked"
<1>1. \E s : StartAt(w, s, by)
  BY DEF prepare_resume
<1>2. /\ run'.win = w /\ run'.done = {} /\ run'.end = "none" /\ run'.by = by /\ run'.kept
      /\ run'.pc = "finish" \/ (run'.pc = "next" /\ run'.at \in w)
  BY <1>1, StartAtStarts
<1>3. CASE asked = 0
  <2>1. /\ run'.pc = "finish" => \E s \in Stages : ctx'.res[s] # "none"
        /\ run'.pc = "next" =>
             /\ Clear(d, conf, ctx'.res, w, run'.at - 1)
             /\ run'.at # Loading => Current(ctx'.delta, ctx'.res, w, conf, registry)
             /\ \A s \in Stages : s < run'.at /\ ctx'.res[s] = "none"
                  => d.meta.res[s] # "completed"
    BY <1>3, AutoFollows
  <2>2. run'.pc = "next" => Following'
    BY <1>2, <2>1 DEF Following, WillLoad
  <2> QED
    BY <1>2, <2>1, <2>2 DEF Starts
<1>4. CASE asked # 0
  <2>1. run'.pc = "next"
    BY <1>4, AskedRuns
  <2>2. ~Reliable'
    BY <1>2, <1>4 DEF Reliable
  <2> QED
    BY <1>2, <2>1, <2>2 DEF Starts
<1> QED
  BY <1>3, <1>4

LEMMA StartKeeps ==
  ASSUME Contiguous, Typed, Keeping, Start
  PROVE  Keeping'
<1>1. /\ run.pc = "idle"
      /\ UNCHANGED <<setup, conf, registry, s3, rerunFrom, stop, serial, torn>>
  BY DEF Start
<1>2. PICK w \in Windows :
        \/ \E asked \in {0} \cup w : run_leased(w, asked, FALSE)
        \/ Loading \in w /\ run_leased(w, 0, TRUE)
  BY DEF Start
<1>3. PICK asked \in {0} \cup w, force \in BOOLEAN :
        run_leased(w, asked, force) /\ (force => Loading \in w /\ asked = 0)
  BY <1>2
<1> DEFINE d == sync_pipeline_from_s3
<1>4. /\ Asks(d, asked) /\ disk' = d
      /\ IF force \/ d.meta = NoMeta
         THEN /\ ctx' = NoCtx
              /\ StartAt(w, IF asked = 0 THEN Min(w) ELSE asked, "new")
         ELSE prepare_resume(d, w, asked)
  BY <1>3 DEF run_leased
<1>5. d \in {disk, s3} /\ d \in Checkpoint
  BY DEF sync_pipeline_from_s3, Typed
<1> HIDE DEF d
<1>6. ~Ran' /\ \A x \in {disk', s3'} : x.meta = NoMeta \/ Recorded(x) # {}
  BY <1>1, <1>4, <1>5 DEF Keeping, Begun, Ran
<1>7. w \in SUBSET Stages /\ w # {} /\ \A u \in Stages : u \in Nat /\ u >= 1
  BY WindowsAssumption, Constants DEF Stages
<1>8. run' = Idle("refused") \/ Starts(w)
  <2>1. CASE force \/ d.meta = NoMeta
    <3> DEFINE s == IF asked = 0 THEN Min(w) ELSE asked
    <3>1. Min(w) \in w
      BY <1>7, FirstStage
    <3>2. asked # 0 => asked = Loading
      <4> SUFFICES ASSUME asked # 0, asked # Loading PROVE FALSE
        OBVIOUS
      <4>1. d.meta = NoMeta
        BY <1>3, <2>1
      <4>2. Loading \in Stages /\ Loading < asked
        BY <1>7, Constants DEF Loading
      <4>3. d.meta.res[Loading] = "completed"
        BY <1>4, <4>2 DEF Asks
      <4> QED
        BY <4>1, <4>2, <4>3 DEF NoMeta
    <3>3. s \in w /\ (s = Min(w) \/ s = Loading)
      BY <3>1, <3>2
    <3>4. disk'.meta = NoMeta \/ Loading \in w
      BY <1>3, <1>4, <2>1
    <3>5. ctx' = NoCtx /\ StartAt(w, s, "new")
      BY <1>4, <2>1
    <3> HIDE DEF s
    <3> QED
      BY <3>3, <3>4, <3>5, NewStarts
  <2>2. CASE ~(force \/ d.meta = NoMeta)
    <3>1. Recorded(d) # {}
      BY <1>5, <2>2 DEF Keeping, Begun
    <3> QED
      BY <1>1, <1>4, <1>5, <2>2, <3>1, ResumeStarts
  <2> QED
    BY <2>1, <2>2
<1>9. CASE run' = Idle("refused")
  <2>1. run'.pc = "idle" /\ run'.end = "refused" /\ run'.done = {} /\ run'.win = {}
    BY <1>9 DEF Idle, NoRun
  <2> QED
    BY <1>6, <2>1 DEF Keeping, Begun, AtStage, PastStages
<1>10. CASE Starts(w)
  <2>1. run'.pc \in {"next", "finish"} /\ run'.pc # "idle"
    BY <1>10 DEF Starts
  <2>2. Begun'
    BY <1>6, <1>10, <2>1 DEF Begun, Starts, AtStage
  <2> QED
    BY <1>10, <2>1, <2>2 DEF Keeping, Starts, AtStage, PastStages, Kept
<1> QED
  BY <1>8, <1>9, <1>10

\* A save records the results of the run.
LEMMA SaveRecords ==
  ASSUME Typed, NEW c \in Context', save_pipeline_metadata(c),
         NEW s \in Stages, c.res[s] # "none"
  PROVE  /\ ctx'.res[s] # "none" /\ Recorded(disk') # {} /\ disk'.meta # NoMeta
         /\ disk'.data = disk.data /\ disk'.index = disk.index
         /\ disk'.meta = [res |-> ctx'.res, failed |-> ctx'.failed, delta |-> ctx'.delta]
<1>1. disk \in Checkpoint
  BY DEF Typed
<1>2. ctx'.res[s] # "none"
  BY <1>1, SaveRest, Merged
<1>3. /\ disk'.data = disk.data /\ disk'.index = disk.index
      /\ disk'.meta = [res |-> ctx'.res, failed |-> ctx'.failed, delta |-> ctx'.delta]
  BY <1>1, SaveRest
<1>4. disk'.meta.res[s] # "none"
  BY <1>2, <1>3
<1>5. NoMeta.res[s] = "none"
  BY DEF NoMeta
<1> QED
  BY <1>2, <1>3, <1>4, <1>5 DEF Recorded

\* What a stage that begins saves.
LEMMA BeginSaves ==
  ASSUME Typed, Begin
  PROVE  \E c \in Context', status \in {"running", "failed"} :
           /\ save_pipeline_metadata(c)
           /\ c.res = [ctx.res EXCEPT ![run.at] = status]
           /\ c.delta = ctx.delta
           /\ run' = Go(IF status = "failed" THEN "upload" ELSE "run")
           /\ status = "failed" => run.at = Indexing /\ ctx.res[Loading] = "failed"
<1> DEFINE blocked == failed_corpus_stage([ctx EXCEPT !.failed = @ \ {run.at}], run.at)
           status == IF blocked THEN "failed" ELSE "running"
           c == [[ctx EXCEPT !.failed = @ \ {run.at}] EXCEPT !.res[run.at] = status]
<1>1. /\ run.pc = "next" /\ save_pipeline_metadata(c)
      /\ run' = Go(IF blocked THEN "upload" ELSE "run")
      /\ UNCHANGED <<registry, serial>>
  BY DEF Begin
<1>2. run.at \in Stages
  BY <1>1 DEF Typed, AtStage
<1>3. ctx \in Context /\ Context' = Context
  BY <1>1, TypesStay DEF Typed
<1>4. blocked => run.at = Indexing /\ ctx.res[Loading] = "failed"
  <2>1. [ctx EXCEPT !.failed = @ \ {run.at}].res = ctx.res
    BY <1>3 DEF Context
  <2> QED
    BY <2>1 DEF failed_corpus_stage
<1>5. status \in {"running", "failed"} /\ (status = "failed" <=> blocked)
  OBVIOUS
<1> HIDE DEF blocked, status
<1>6. status \in Statuses
  BY <1>5 DEF Statuses
<1>7. c.res = [ctx.res EXCEPT ![run.at] = status] /\ c.delta = ctx.delta /\ c \in Context'
  BY <1>2, <1>3, <1>6 DEF Context
<1> HIDE DEF c
<1> QED
  BY <1>1, <1>4, <1>5, <1>7

LEMMA BeginKeeps ==
  ASSUME Typed, Keeping, Begin
  PROVE  Keeping'
<1>1. /\ run.pc = "next" /\ rerunFrom' = mark_rerun(run.at)
      /\ UNCHANGED <<setup, conf, registry, s3, stop, serial, counts, torn>>
  BY DEF Begin
<1>2. PICK c \in Context', status \in {"running", "failed"} :
        /\ save_pipeline_metadata(c)
        /\ c.res = [ctx.res EXCEPT ![run.at] = status]
        /\ c.delta = ctx.delta
        /\ run' = Go(IF status = "failed" THEN "upload" ELSE "run")
        /\ status = "failed" => run.at = Indexing /\ ctx.res[Loading] = "failed"
  BY BeginSaves
<1>3. /\ run.at \in Stages /\ run.at \in 1..N /\ run.at \in run.win /\ Begun
      /\ ctx.res \in [Stages -> Statuses] /\ run.win \in Windows
      /\ run.end = "none" /\ run.done \subseteq run.win
  BY <1>1, Constants DEF Keeping, Begun, Typed, Context, AtStage, Stages
<1>4. Ran' /\ (~Ran => rerunFrom' = run.at)
  BY <1>1, <1>3, Constants DEF mark_rerun, Ran, Typed
<1>5. \A s \in Stages : c.res[s] = IF s = run.at THEN status ELSE ctx.res[s]
  BY <1>2, <1>3
<1>6. /\ ctx'.res[run.at] # "none" /\ Recorded(disk') # {} /\ disk'.meta # NoMeta
      /\ disk'.data = disk.data /\ disk'.index = disk.index
      /\ disk'.meta = [res |-> ctx'.res, failed |-> ctx'.failed, delta |-> ctx'.delta]
  BY <1>2, <1>3, <1>5, SaveRecords
<1>7. /\ run'.pc = (IF status = "failed" THEN "upload" ELSE "run")
      /\ run'.at = run.at /\ run'.win = run.win /\ run'.done = run.done
      /\ run'.end = run.end /\ run'.by = run.by /\ run'.kept = run.kept
  BY <1>2 DEF Go, Typed, Run
<1>8. Begun'
  BY <1>1, <1>3, <1>4, <1>6, <1>7 DEF Begun, AtStage
<1>9. ASSUME Reliable' PROVE Following' /\ run'.pc = "run"
  <2>1. Following
    BY <1>1, <1>7, <1>9 DEF Keeping, Reliable, AtStage
  <2>2. Clear(disk, conf, ctx.res, run.win, run.at - 1)
    BY <1>1, <2>1 DEF Following
  <2>3. status = "running" /\ run'.pc = "run"
    <3> SUFFICES ASSUME status = "failed" PROVE FALSE
      BY <1>2, <1>7
    <3>1. Loading \in 1..(run.at - 1) /\ ctx.res[Loading] = "failed"
      BY <1>2, Constants DEF Loading, Indexing
    <3> QED
      BY <2>2, <3>1 DEF Clear
  <2>4. ctx'.res = c.res /\ ctx'.delta = c.delta
    <3>1. ASSUME NEW s \in Stages, c.res[s] = "none", s <= rerunFrom'
          PROVE  ~Reached(disk.meta, s)
      <4>1. s # run.at /\ ctx.res[s] = "none"
        BY <1>2, <1>5, <3>1
      <4>2. CASE Ran
        BY <1>1, <1>3, <4>1, <4>2 DEF Begun, Reached
      <4>3. CASE ~Ran
        <5>1. s < run.at
          BY <1>3, <1>4, <3>1, <4>1, <4>3, Constants
        <5> QED
          BY <2>1, <4>1, <4>3, <5>1 DEF Following, Reached
      <4> QED
        BY <4>2, <4>3
    <3> QED
      BY <1>2, <3>1, SaveAddsNothing
  <2>5. Clear(disk', conf', ctx'.res, run'.win, run'.at - 1)
    <3>1. run.at - 1 \in Nat /\ \A u \in 1..(run.at - 1) : ctx'.res[u] = ctx.res[u]
      BY <1>3, <1>5, <2>4, Constants DEF Stages
    <3> QED
      BY <1>1, <1>6, <1>7, <2>2, <3>1, ClearMoves
  <2>6. ~WillLoad' => Current(ctx'.delta, ctx'.res, run'.win, conf', registry')
    <3> SUFFICES ASSUME ~WillLoad'
                 PROVE  Current(ctx'.delta, ctx'.res, run'.win, conf', registry')
      OBVIOUS
    <3>1. run.at # Loading
      BY <1>7, <2>3 DEF WillLoad
    <3>2. Current(ctx.delta, ctx.res, run.win, conf, registry)
      BY <2>1, <3>1 DEF Following, WillLoad
    <3>3. ctx'.res[Loading] = ctx.res[Loading] /\ ctx'.delta = ctx.delta
      BY <1>2, <1>5, <2>4, <3>1, Constants
    <3> QED
      BY <1>1, <1>7, <3>2, <3>3 DEF Current
  <2>7. \A m \in run'.done : m <= run'.at /\ m # run'.at
    BY <1>1, <1>7, <2>1 DEF Following
  <2> QED
    BY <1>4, <1>7, <2>3, <2>5, <2>6, <2>7 DEF Following
<1> QED
  BY <1>7, <1>8, <1>9 DEF Keeping, PastStages

LEMMA CompleteKeeps ==
  ASSUME Typed, Keeping, NEW part \in BOOLEAN, Complete(part)
  PROVE  Keeping'
<1>1. /\ run.pc = "run" /\ UNCHANGED rerunFrom
      /\ run' = [Go(IF run.at \in Cached THEN "data" ELSE "upload")
                   EXCEPT !.done = @ \cup {run.at}]
      /\ UNCHANGED <<setup, conf, registry, s3, stop, torn>>
  BY DEF Complete
<1>2. PICK c \in Context' :
        /\ save_pipeline_metadata(c)
        /\ c.res = [ctx.res EXCEPT ![run.at] = "completed"]
        /\ c.delta = ComputedDelta(run.at)
        /\ c.out = [s \in Cached |-> IF s = run.at THEN Produced(s, part) ELSE ctx.out[s]]
  BY CompleteSaves
<1>3. /\ run.at \in Stages /\ run.at \in 1..N /\ run.at \in run.win /\ Ran /\ Begun
      /\ ctx.res \in [Stages -> Statuses] /\ run.win \in Windows
      /\ disk.meta = [res |-> ctx.res, failed |-> ctx.failed, delta |-> ctx.delta]
      /\ run.end = "none" /\ run.done \subseteq run.win
  BY <1>1, Constants DEF Keeping, Begun, Typed, Context, AtStage, Stages
<1>4. \A s \in Stages : c.res[s] = IF s = run.at THEN "completed" ELSE ctx.res[s]
  BY <1>2, <1>3
<1>5. /\ ctx'.res = c.res /\ ctx'.delta = c.delta /\ ctx'.out = c.out
      /\ disk'.data = disk.data /\ disk'.index = disk.index
  <2>1. \A s \in Stages : c.res[s] = "none" => ~Reached(disk.meta, s)
    BY <1>3, <1>4 DEF Reached
  <2> QED
    BY <1>2, <2>1, SaveAddsNothing
<1>6. /\ ctx'.res[run.at] # "none" /\ Recorded(disk') # {}
      /\ disk'.meta = [res |-> ctx'.res, failed |-> ctx'.failed, delta |-> ctx'.delta]
  BY <1>2, <1>3, <1>4, SaveRecords
<1>7. /\ run'.pc = (IF run.at \in Cached THEN "data" ELSE "upload")
      /\ run'.at = run.at /\ run'.win = run.win /\ run'.done = run.done \cup {run.at}
      /\ run'.end = run.end /\ run'.by = run.by /\ run'.kept = run.kept
  BY <1>1 DEF Go, Typed, Run
<1>8. Begun'
  BY <1>1, <1>3, <1>6, <1>7 DEF Begun, AtStage, Ran
<1>9. ASSUME Reliable' PROVE Following'
  <2>1. Following
    BY <1>1, <1>7, <1>9 DEF Keeping, Reliable, AtStage
  <2>2. Clear(disk, conf, ctx.res, run.win, run.at - 1)
    BY <1>1, <2>1 DEF Following
  <2>3. Clear(disk', conf', ctx'.res, run'.win, run'.at - 1)
    <3>1. run.at - 1 \in Nat /\ \A u \in 1..(run.at - 1) : ctx'.res[u] = ctx.res[u]
      BY <1>3, <1>4, <1>5, Constants DEF Stages
    <3> QED
      BY <1>1, <1>5, <1>7, <2>2, <3>1, ClearMoves
  <2>4. run'.pc = "upload" => Clear(disk', conf', ctx'.res, run'.win, run'.at)
    <3> SUFFICES ASSUME run.at \notin Cached, NEW u \in 1..run.at
                 PROVE  /\ ctx'.res[u] \in {"none", "completed"}
                        /\ u \in run'.win => ctx'.res[u] = "completed"
                        /\ u \in Cached /\ ctx'.res[u] = "completed" => Serves(disk', conf', u)
      BY <1>7 DEF Clear
    <3>1. CASE u = run.at
      BY <1>3, <1>4, <1>5, <3>1
    <3>2. CASE u # run.at
      <4>1. u \in 1..(run'.at - 1)
        BY <1>3, <1>7, <3>2
      <4> QED
        BY <2>3, <4>1 DEF Clear
    <3> QED
      BY <3>1, <3>2
  <2>5. Current(ctx'.delta, ctx'.res, run'.win, conf', registry')
    <3>1. CASE run.at = Loading
      BY <1>1, <1>2, <1>5, <3>1 DEF ComputedDelta, Delta, Current
    <3>2. CASE run.at # Loading
      <4>1. Current(ctx.delta, ctx.res, run.win, conf, registry)
        BY <2>1, <3>2 DEF Following, WillLoad
      <4>2. ctx'.res[Loading] = ctx.res[Loading] /\ ctx'.delta = ctx.delta
        BY <1>2, <1>4, <1>5, <3>2, Constants DEF ComputedDelta
      <4> QED
        BY <1>1, <1>7, <4>1, <4>2 DEF Current
    <3> QED
      BY <3>1, <3>2
  <2>6. \A m \in run'.done : m <= run'.at
    BY <1>3, <1>7, <2>1 DEF Following
  <2>7. run.at \in Cached => ctx'.res[run.at] = "completed" /\ ctx'.out[run.at].id # NoContent
    BY <1>2, <1>3, <1>4, <1>5 DEF Produced, ComputedDelta, Delta, NoContent
  <2> QED
    BY <1>1, <1>3, <1>7, <2>3, <2>4, <2>5, <2>6, <2>7 DEF Following, Ran
<1> QED
  BY <1>7, <1>8, <1>9 DEF Keeping, PastStages

LEMMA FailKeeps ==
  ASSUME Typed, Keeping, Fail
  PROVE  Keeping'
<1> DEFINE c == [ctx EXCEPT !.res[run.at] = "failed",
                            !.failed = mark_units_failed(@, run.at)]
<1>1. /\ run.pc = "run" /\ UNCHANGED rerunFrom /\ save_pipeline_metadata(c)
      /\ run' = [Go("upload") EXCEPT !.kept = FALSE]
      /\ UNCHANGED <<setup, conf, registry, s3, stop, serial, torn>>
  BY DEF Fail
<1>2. /\ run.at \in Stages /\ run.at \in run.win /\ Ran /\ Begun
      /\ run.win \in Windows /\ run.end = "none" /\ run.done \subseteq run.win
  BY <1>1 DEF Keeping, Begun, Typed, AtStage
<1>3. c \in Context' /\ c.res[run.at] # "none"
  <2>1. ctx \in Context /\ Context' = Context
    BY <1>1, TypesStay DEF Typed
  <2>2. mark_units_failed(ctx.failed, run.at) \in SUBSET Artifact
    BY <2>1 DEF mark_units_failed, Context
  <2> QED
    BY <1>2, <2>1, <2>2 DEF Context, Statuses
<1> HIDE DEF c
<1>4. /\ ctx'.res[run.at] # "none" /\ Recorded(disk') # {}
      /\ disk'.meta = [res |-> ctx'.res, failed |-> ctx'.failed, delta |-> ctx'.delta]
  BY <1>1, <1>2, <1>3, SaveRecords
<1>5. /\ run'.pc = "upload" /\ run'.at = run.at /\ run'.win = run.win
      /\ run'.done = run.done /\ run'.end = run.end /\ ~run'.kept
  BY <1>1 DEF Go, Typed, Run
<1>6. Begun'
  BY <1>1, <1>2, <1>4, <1>5 DEF Begun, AtStage, Ran
<1> QED
  BY <1>5, <1>6 DEF Keeping, Reliable

\* A run that is at a stage has saved what it finished.
LEMMA FollowingKept ==
  ASSUME Typed, Begun, Following, run.pc \in {"next", "run", "upload"}
  PROVE  Kept(disk)
<1> SUFFICES ASSUME NEW m \in run.done \cap Cached
             PROVE  Leaves(disk, conf, registry, run.win, m)
  BY DEF Kept
<1>1. run.at \in Nat /\ m \in Nat /\ m >= 1
  <2>1. run.at \in Stages
    BY DEF Typed, AtStage
  <2>2. m \in Stages
    BY Constants
  <2> QED
    BY <2>1, <2>2, Constants DEF Stages
<1>2. Ran /\ disk.meta = [res |-> ctx.res, failed |-> ctx.failed, delta |-> ctx.delta]
  BY DEF Begun
<1>3. m <= run.at /\ (run.pc \in {"next", "run"} => m # run.at)
  BY DEF Following
<1>4. ~WillLoad
  BY <1>1, <1>3 DEF WillLoad, Loading
<1>5. Current(ctx.delta, ctx.res, run.win, conf, registry)
  BY <1>4 DEF Following
<1>6. Clear(disk, conf, ctx.res, run.win, m)
  <2> DEFINE reach == IF run.pc = "upload" THEN run.at ELSE run.at - 1
  <2>1. reach \in Nat /\ m <= reach
    BY <1>1, <1>3
  <2>2. Clear(disk, conf, ctx.res, run.win, reach)
    BY DEF Following
  <2> HIDE DEF reach
  <2> QED
    BY <1>1, <2>1, <2>2, ClearMoves
<1> QED
  BY <1>2, <1>5, <1>6 DEF Leaves

LEMMA SaveDataKeeps ==
  ASSUME Typed, Keeping, SaveData
  PROVE  Keeping'
<1>1. /\ run.pc = "data"
      /\ UNCHANGED <<setup, conf, registry, s3, ctx, rerunFrom, stop, serial>>
      /\ \/ /\ disk' = [disk EXCEPT !.data[stage_cache_key(run.at)] = ctx.out[run.at]]
            /\ run' = Go("index")
         \/ run' = [Checkpointed EXCEPT !.kept = FALSE] /\ UNCHANGED disk
  BY DEF SaveData
<1>2. /\ run.at \in Cached /\ run.at \in 1..N /\ run.at \in run.win /\ Ran /\ Begun
      /\ run.win \in Windows /\ run.end = "none" /\ run.done \subseteq run.win
  BY <1>1, Constants DEF Keeping, Begun, Typed, AtStage, Stages
<1>3. /\ run'.at = run.at /\ run'.win = run.win /\ run'.done = run.done
      /\ run'.end = run.end /\ run'.by = run.by
      /\ run'.pc \in {"index", "upload", "stopping"}
      /\ (run'.pc = "index" /\ run'.kept = run.kept) \/ ~run'.kept
  BY <1>1 DEF Go, Checkpointed, Typed, Run
<1>4. disk'.meta = disk.meta
  BY <1>1 DEF Typed, Checkpoint
<1>5. Begun'
  <2>1. Recorded(disk') = Recorded(disk) /\ Recorded(s3') = Recorded(s3)
    BY <1>1, <1>4 DEF Recorded
  <2> QED
    BY <1>1, <1>2, <1>3, <1>4, <2>1 DEF Begun, AtStage, Ran
<1>6. ASSUME Reliable' PROVE Following' /\ run'.pc = "index"
  <2>1. run'.kept /\ run'.pc = "index" /\ run'.kept = run.kept
    BY <1>3, <1>6 DEF Reliable
  <2>2. Following
    BY <1>1, <1>3, <1>6, <2>1 DEF Keeping, Reliable, AtStage
  <2>3. disk' = [disk EXCEPT !.data[Key(conf, run.at)] = ctx.out[run.at]]
    <3>1. [Checkpointed EXCEPT !.kept = FALSE].kept = FALSE
      BY DEF Checkpointed, Go, Typed, Run
    <3> QED
      BY <1>1, <1>2, <2>1, <3>1, KeyOf
  <2>4. /\ disk'.index = disk.index /\ disk'.data[Key(conf, run.at)] = ctx.out[run.at]
        /\ \A k \in Keys : k # Key(conf, run.at) => disk'.data[k] = disk.data[k]
    BY <1>2, <2>3, KeyOf DEF Typed, Checkpoint
  <2>5. Clear(disk', conf', ctx'.res, run'.win, run'.at - 1)
    <3>1. Clear(disk, conf, ctx.res, run.win, run.at - 1) /\ run.at - 1 \in Nat
      BY <1>1, <1>2, <2>2 DEF Following
    <3>2. \A u \in 1..(run.at - 1) : u \in Cached =>
            disk'.data[Key(conf, u)] = disk.data[Key(conf, u)]
      <4> SUFFICES ASSUME NEW u \in 1..(run.at - 1), u \in Cached
                   PROVE  disk'.data[Key(conf, u)] = disk.data[Key(conf, u)]
        OBVIOUS
      <4>1. u # run.at
        BY <1>2
      <4> QED
        BY <1>2, <2>4, <4>1, KeysDiffer, KeyOf
    <3> QED
      BY <1>1, <1>3, <2>4, <3>1, <3>2, ClearMoves
  <2> QED
    BY <1>1, <1>2, <1>3, <2>1, <2>2, <2>4, <2>5 DEF Following, WillLoad, Ran
<1> QED
  BY <1>3, <1>5, <1>6 DEF Keeping, PastStages

LEMMA SaveIndexKeeps ==
  ASSUME Typed, Keeping, SaveIndex
  PROVE  Keeping'
<1>1. /\ run.pc = "index"
      /\ UNCHANGED <<setup, conf, registry, s3, ctx, rerunFrom, stop, serial, torn>>
      /\ \/ /\ disk' = [disk EXCEPT !.index[stage_cache_key(run.at)] = ctx.out[run.at].id]
            /\ run' = Checkpointed
         \/ run' = [Checkpointed EXCEPT !.kept = FALSE] /\ UNCHANGED disk
  BY DEF SaveIndex
<1>2. /\ run.at \in Cached /\ run.at \in 1..N /\ run.at \in run.win /\ Ran /\ Begun
      /\ run.win \in Windows /\ run.end = "none" /\ run.done \subseteq run.win
      /\ disk.meta = [res |-> ctx.res, failed |-> ctx.failed, delta |-> ctx.delta]
  BY <1>1, Constants DEF Keeping, Begun, Typed, AtStage, Stages
<1>3. /\ run'.at = run.at /\ run'.win = run.win /\ run'.done = run.done
      /\ run'.end = run.end /\ run'.by = run.by
      /\ run'.pc \in {"upload", "stopping"}
      /\ run'.kept => run.kept /\ run' = Checkpointed
  BY <1>1 DEF Go, Checkpointed, Typed, Run
<1>4. disk'.meta = disk.meta
  BY <1>1 DEF Typed, Checkpoint
<1>5. Begun'
  <2>1. Recorded(disk') = Recorded(disk) /\ Recorded(s3') = Recorded(s3)
    BY <1>1, <1>4 DEF Recorded
  <2> QED
    BY <1>1, <1>2, <1>3, <1>4, <2>1 DEF Begun, AtStage, Ran
<1>6. ASSUME Reliable'
      PROVE  /\ Following /\ Clear(disk', conf', ctx'.res, run'.win, run'.at)
             /\ Current(ctx'.delta, ctx'.res, run'.win, conf', registry')
  <2>1. run'.kept /\ run.kept
    BY <1>3, <1>6 DEF Reliable
  <2>2. Following
    BY <1>1, <1>3, <1>6, <2>1 DEF Keeping, Reliable, AtStage
  <2>3. disk' = [disk EXCEPT !.index[Key(conf, run.at)] = ctx.out[run.at].id]
    <3>1. [Checkpointed EXCEPT !.kept = FALSE].kept = FALSE
      BY DEF Checkpointed, Go, Typed, Run
    <3> QED
      BY <1>1, <1>2, <2>1, <3>1, KeyOf
  <2>4. /\ disk'.data = disk.data /\ disk'.index[Key(conf, run.at)] = ctx.out[run.at].id
        /\ \A k \in Keys : k # Key(conf, run.at) => disk'.index[k] = disk.index[k]
    BY <1>2, <2>3, KeyOf DEF Typed, Checkpoint
  <2>5. Clear(disk', conf', ctx'.res, run'.win, run'.at - 1)
    <3>1. Clear(disk, conf, ctx.res, run.win, run.at - 1) /\ run.at - 1 \in Nat
      BY <1>1, <1>2, <2>2 DEF Following
    <3>2. \A u \in 1..(run.at - 1) : u \in Cached =>
            disk'.index[Key(conf, u)] = disk.index[Key(conf, u)]
      <4> SUFFICES ASSUME NEW u \in 1..(run.at - 1), u \in Cached
                   PROVE  disk'.index[Key(conf, u)] = disk.index[Key(conf, u)]
        OBVIOUS
      <4>1. u # run.at
        BY <1>2
      <4> QED
        BY <1>2, <2>4, <4>1, KeysDiffer, KeyOf
    <3> QED
      BY <1>1, <1>3, <2>4, <3>1, <3>2, ClearMoves
  <2>6. Serves(disk', conf', run.at) /\ ctx'.res[run.at] = "completed"
    <3>1. /\ ctx.res[run.at] = "completed" /\ ctx.out[run.at].id # NoContent
          /\ disk.data[Key(conf, run.at)] = ctx.out[run.at]
      BY <1>1, <2>2 DEF Following
    <3>2. NoOutput.id = NoContent
      BY DEF NoOutput
    <3> QED
      BY <1>1, <2>4, <3>1, <3>2 DEF Serves
  <2>7. Clear(disk', conf', ctx'.res, run'.win, run'.at)
    <3> SUFFICES ASSUME NEW u \in 1..run.at
                 PROVE  /\ ctx'.res[u] \in {"none", "completed"}
                        /\ u \in run'.win => ctx'.res[u] = "completed"
                        /\ u \in Cached /\ ctx'.res[u] = "completed" => Serves(disk', conf', u)
      BY <1>3 DEF Clear
    <3>1. CASE u = run.at
      BY <2>6, <3>1
    <3>2. CASE u # run.at
      <4>1. u \in 1..(run'.at - 1)
        BY <1>2, <1>3, <3>2
      <4> QED
        BY <2>5, <4>1 DEF Clear
    <3> QED
      BY <3>1, <3>2
  <2> QED
    BY <1>1, <1>3, <2>2, <2>7 DEF Following, WillLoad
<1>7. Reliable' /\ run'.pc \in AtStage => Following'
  BY <1>1, <1>2, <1>3, <1>6 DEF Following, WillLoad, AtStage, Ran
<1>8. Reliable' /\ PastStages' => Kept(disk)'
  <2> SUFFICES ASSUME Reliable', NEW m \in run'.done \cap Cached
               PROVE  Leaves(disk', conf', registry', run'.win, m)
    BY DEF Kept
  <2>1. /\ Following /\ Clear(disk', conf', ctx'.res, run'.win, run'.at)
        /\ Current(ctx'.delta, ctx'.res, run'.win, conf', registry')
    BY <1>6
  <2>2. m \in Nat /\ m <= run'.at /\ run'.at \in Nat
    BY <1>2, <1>3, <2>1, Constants DEF Following
  <2>3. Clear(disk', conf', ctx'.res, run'.win, m)
    BY <2>1, <2>2, ClearMoves
  <2> QED
    BY <1>1, <1>2, <1>4, <2>1, <2>3 DEF Leaves
<1> QED
  BY <1>3, <1>5, <1>7, <1>8 DEF Keeping

\* An upload to S3 leaves it the metadata it had or the host's.
LEMMA UploadBegun ==
  ASSUME Begun, sync_pipeline_to_s3 \/ SyncFails
  PROVE  s3'.meta = NoMeta \/ Recorded(s3') # {}
<1>1. s3'.meta \in {s3.meta, disk.meta}
  BY DEF sync_pipeline_to_s3, SyncFails, Sent
<1> QED
  BY <1>1 DEF Begun, Recorded

LEMMA UploadKeeps ==
  ASSUME Contiguous, Typed, Keeping, UploadCheckpoint
  PROVE  Keeping'
<1> DEFINE next == start_index(run.win, run.at + 1)
<1>1. /\ run.pc = "upload" /\ (sync_pipeline_to_s3 \/ SyncFails)
      /\ run' = IF stop THEN Go("stopping")
                ELSE IF should_stop_pipeline THEN Go("finish")
                ELSE [run EXCEPT !.pc = next.pc, !.at = next.at]
      /\ UNCHANGED <<setup, conf, registry, disk, ctx, rerunFrom, stop, serial>>
  BY DEF UploadCheckpoint
<1>2. /\ run.at \in Nat /\ run.at \in run.win /\ Ran /\ Begun
      /\ run.win \in Windows /\ run.win \in SUBSET Stages
      /\ run.end = "none" /\ run.done \subseteq run.win
      /\ \A u \in run.win : u \in Nat
  BY <1>1, Constants, WindowsAssumption DEF Keeping, Begun, Typed, AtStage, Stages
<1>3. \/ next = [pc |-> "finish", at |-> 0]
      \/ /\ next.pc = "next" /\ next.at \in run.win /\ next.at = run.at + 1
         /\ next = [pc |-> "next", at |-> next.at]
  <2>1. \/ next = [pc |-> "finish", at |-> 0]
        \/ /\ next.pc = "next" /\ next.at \in run.win /\ next.at >= run.at + 1
           /\ \A u \in run.win : u >= run.at + 1 => u >= next.at
           /\ next = [pc |-> "next", at |-> next.at]
    <3>1. run.at + 1 \in Nat
      BY <1>2
    <3> QED
      BY <1>2, <3>1, StartIndexTyped, ZenonT(60)
  <2> HIDE DEF next
  <2>2. ASSUME next.at \in run.win, next.at >= run.at + 1,
               \A u \in run.win : u >= run.at + 1 => u >= next.at
        PROVE  next.at = run.at + 1
    <3>1. run.at + 1 \in run.at..next.at
      BY <1>2, <2>2
    <3>2. run.at + 1 \in run.win
      BY <1>2, <2>2, <3>1 DEF Contiguous
    <3> QED
      BY <1>2, <2>2, <3>2
  <2> QED
    BY <2>1, <2>2
<1> HIDE DEF next
<1>4. /\ run'.win = run.win /\ run'.done = run.done
      /\ run'.end = run.end /\ run'.by = run.by /\ run'.kept = run.kept
      /\ \/ run'.pc \in {"stopping", "finish"}
         \/ run'.pc = "next" /\ run'.at = run.at + 1 /\ run'.at \in run.win
  BY <1>1, <1>3 DEF Go, Typed, Run
<1>5. Begun'
  <2>1. s3'.meta = NoMeta \/ Recorded(s3') # {}
    BY <1>1, <1>2, UploadBegun
  <2>2. disk'.meta = NoMeta \/ Recorded(disk') # {}
    BY <1>1, <1>2 DEF Begun
  <2> QED
    BY <1>1, <1>2, <1>4, <2>1, <2>2 DEF Begun, AtStage, Ran
<1>6. ASSUME Reliable' PROVE Following /\ Kept(disk)
  <2>1. Following
    BY <1>1, <1>4, <1>6 DEF Keeping, Reliable, AtStage
  <2> QED
    BY <1>1, <1>2, <2>1, FollowingKept
<1>7. Reliable' /\ PastStages' => Kept(disk)'
  BY <1>1, <1>4, <1>6 DEF Kept
<1>8. Reliable' /\ run'.pc \in AtStage => Following'
  <2> SUFFICES ASSUME Reliable', run'.pc = "next" PROVE Following'
    BY <1>4 DEF AtStage
  <2>1. run'.at = run.at + 1 /\ Following
    BY <1>4, <1>6
  <2>2. Clear(disk', conf', ctx'.res, run'.win, run'.at - 1)
    <3>1. run'.at - 1 = run.at
      BY <1>2, <2>1
    <3> QED
      BY <1>1, <1>4, <2>1, <3>1 DEF Following
  <2>3. Current(ctx'.delta, ctx'.res, run'.win, conf', registry')
    BY <1>1, <1>4, <2>1 DEF Following, WillLoad
  <2>4. \A m \in run'.done : m <= run'.at /\ m # run'.at
    BY <1>1, <1>2, <1>4, <2>1 DEF Following
  <2> QED
    BY <1>1, <1>2, <2>2, <2>3, <2>4 DEF Following, Ran
<1> QED
  BY <1>4, <1>5, <1>7, <1>8 DEF Keeping

\* What a checkpoint leaves is left by one with the same metadata and outputs.
LEMMA LeavesMoves ==
  ASSUME Typed, NEW d, NEW e, NEW w, NEW m \in Cached, Leaves(d, conf, registry, w, m),
         e.meta = d.meta,
         \A s \in Cached : e.data[Key(conf, s)] = d.data[Key(conf, s)]
                           /\ e.index[Key(conf, s)] = d.index[Key(conf, s)]
  PROVE  Leaves(e, conf, registry, w, m)
<1>1. m \in Nat /\ m <= m
  BY Constants DEF Cached
<1>2. Clear(e, conf, e.meta.res, w, m)
  BY <1>1, ClearMoves DEF Leaves
<1> QED
  BY <1>2 DEF Leaves

LEMMA FinalizeKeeps ==
  ASSUME Typed, Keeping, Finalize
  PROVE  Keeping'
<1>1. /\ run.pc = "finish" /\ save_pipeline_metadata(ctx) /\ run' = Go("last upload")
      /\ UNCHANGED <<setup, conf, registry, s3, rerunFrom, stop, serial, counts, torn>>
  BY DEF Finalize
<1>2. /\ Begun /\ run.win \in Windows /\ run.end = "none" /\ run.done \subseteq run.win
      /\ ctx \in Context'
  BY <1>1, TypesStay DEF Keeping, Begun, Typed
<1>3. PICK s \in Stages : ctx.res[s] # "none"
  BY <1>1, <1>2 DEF Begun
<1>4. /\ ctx'.res[s] # "none" /\ Recorded(disk') # {}
      /\ disk'.data = disk.data /\ disk'.index = disk.index
      /\ disk'.meta = [res |-> ctx'.res, failed |-> ctx'.failed, delta |-> ctx'.delta]
  BY <1>1, <1>2, <1>3, SaveRecords
<1>5. /\ run'.pc = "last upload" /\ run'.win = run.win /\ run'.done = run.done
      /\ run'.end = run.end /\ run'.by = run.by /\ run'.kept = run.kept
  BY <1>1 DEF Go, Typed, Run
<1>6. Begun'
  BY <1>1, <1>2, <1>4, <1>5 DEF Begun, AtStage, Ran
<1>7. Reliable' => Kept(disk)'
  <2> SUFFICES ASSUME Reliable', NEW m \in run.done \cap Cached
               PROVE  Leaves(disk', conf, registry, run.win, m)
    BY <1>1, <1>5 DEF Kept
  <2>1. Leaves(disk, conf, registry, run.win, m)
    BY <1>1, <1>5 DEF Keeping, Reliable, PastStages, Kept
  <2>2. disk.meta = [res |-> ctx.res, failed |-> ctx.failed, delta |-> ctx.delta]
    BY <1>1, <1>2 DEF Begun
  <2>3. disk'.meta = disk.meta
    <3>1. \A t \in Stages : ctx.res[t] = "none" => ~Reached(disk.meta, t)
      BY <2>2 DEF Reached
    <3>2. ctx'.res = ctx.res /\ ctx'.failed = ctx.failed /\ ctx'.delta = ctx.delta
      BY <1>1, <1>2, <3>1, SaveAddsNothing
    <3> QED
      BY <1>4, <2>2, <3>2
  <2> QED
    BY <1>4, <2>1, <2>3, LeavesMoves
<1> QED
  BY <1>5, <1>6, <1>7 DEF Keeping, AtStage

\* How a run ends: its host's checkpoint is in S3 if it was stopped.
LEMMA EndsSo ==
  ASSUME LastUpload \/ CheckpointOnStop \/ Kill
  PROVE  \E end \in {"stopped", "failed", "completed", "killed"} :
           /\ run' = Idle(end) /\ ProcessEnds
           /\ end = "stopped" => PastStages /\ sync_pipeline_to_s3
           /\ s3'.meta \in {s3.meta, disk.meta}
           /\ UNCHANGED <<setup, conf, registry>>
<1>1. sync_pipeline_to_s3 \/ SyncFails => s3'.meta \in {s3.meta, disk.meta}
  BY DEF sync_pipeline_to_s3, SyncFails, Sent
<1>2. CASE LastUpload
  BY <1>1, <1>2 DEF LastUpload, PastStages
<1>3. CASE CheckpointOnStop
  BY <1>1, <1>3 DEF CheckpointOnStop, PastStages
<1>4. CASE Kill
  <2>1. s3'.meta = s3.meta
    <3>1. UNCHANGED s3 \/ \E data, index : Sent(data, index, FALSE)
      BY <1>4 DEF Kill
    <3>2. \A data, index : Sent(data, index, FALSE) => s3'.meta = s3.meta
      BY DEF Sent
    <3> QED
      BY <3>1, <3>2
  <2>2. run' = Idle("killed") /\ ProcessEnds /\ UNCHANGED <<setup, conf, registry>>
    BY <1>4 DEF Kill
  <2> QED
    BY <2>1, <2>2
<1> QED
  BY <1>2, <1>3, <1>4

LEMMA EndsKeep ==
  ASSUME Typed, Keeping, LastUpload \/ CheckpointOnStop \/ Kill
  PROVE  Keeping'
<1>1. PICK end \in {"stopped", "failed", "completed", "killed"} :
        /\ run' = Idle(end) /\ ProcessEnds
        /\ end = "stopped" => PastStages /\ sync_pipeline_to_s3
        /\ s3'.meta \in {s3.meta, disk.meta}
        /\ UNCHANGED <<setup, conf, registry>>
  BY EndsSo
<1>2. /\ run'.pc = "idle" /\ run'.end = end
      /\ end # "stopped" => run'.done = {}
      /\ end = "stopped" => /\ run'.done = run.done /\ run'.win = run.win
                            /\ run'.by = run.by /\ run'.kept = run.kept
  BY <1>1 DEF Idle, NoRun, Typed, Run
<1>3. Begun'
  <2>1. run'.done \subseteq run'.win
    BY <1>1, <1>2 DEF Keeping, Begun
  <2>2. ~Ran'
    BY <1>1, Constants DEF ProcessEnds, Ran
  <2>3. disk'.meta \in {NoMeta, disk.meta}
    BY <1>1 DEF ProcessEnds, NoCache
  <2>4. \A d \in {disk', s3'} : d.meta = NoMeta \/ Recorded(d) # {}
    BY <1>1, <2>3 DEF Keeping, Begun, Recorded
  <2> QED
    BY <1>2, <2>1, <2>2, <2>4 DEF Begun, AtStage
<1>4. ASSUME Reliable', end = "stopped" PROVE Kept(sync_pipeline_from_s3)'
  <2> DEFINE d == IF setup.synced THEN s3' ELSE disk
  <2>1. sync_pipeline_from_s3' = d
    BY <1>1 DEF sync_pipeline_from_s3, ProcessEnds
  <2>2. /\ d.meta = disk.meta
        /\ \A s \in Cached : d.data[Key(conf, s)] = disk.data[Key(conf, s)]
                             /\ d.index[Key(conf, s)] = disk.index[Key(conf, s)]
    <3>1. CASE setup.synced
      <4>1. /\ s3'.data = [k \in Keys |-> IF k \in Changed THEN disk.data[k] ELSE s3.data[k]]
            /\ s3'.index = disk.index /\ s3'.meta = disk.meta
        BY <1>1, <1>4, <3>1 DEF sync_pipeline_to_s3, Sent
      <4>2. \A k \in Keys : s3'.data[k] = disk.data[k]
        BY <4>1 DEF Changed
      <4> QED
        BY <3>1, <4>1, <4>2, KeyOf
    <3>2. CASE ~setup.synced
      BY <3>2
    <3> QED
      BY <3>1, <3>2
  <2> HIDE DEF d
  <2>3. Kept(disk)
    BY <1>1, <1>2, <1>4 DEF Keeping, Reliable
  <2>4. \A m \in run.done \cap Cached : Leaves(d, conf, registry, run.win, m)
    BY <2>2, <2>3, LeavesMoves DEF Kept
  <2> QED
    BY <1>1, <1>2, <1>4, <2>1, <2>4 DEF Kept
<1> QED
  BY <1>2, <1>3, <1>4 DEF Keeping, AtStage, PastStages

LEMMA StopKeeps ==
  ASSUME Typed, Keeping, request_stop
  PROVE  Keeping'
<1>1. /\ run.pc \notin {"idle", "stopping"}
      /\ run' = IF run.pc \in {"next", "run", "finish"} THEN Go("stopping") ELSE run
      /\ UNCHANGED <<setup, conf, registry, disk, s3, ctx, rerunFrom, serial, torn>>
  BY DEF request_stop
<1>2. CASE run.pc \notin {"next", "run", "finish"}
  BY <1>1, <1>2 DEF Keeping, Begun, Following, WillLoad, Kept, Reliable, Ran, PastStages,
     sync_pipeline_from_s3, Recorded
<1>3. CASE run.pc \in {"next", "run", "finish"}
  <2>1. /\ run'.pc = "stopping" /\ run'.win = run.win /\ run'.done = run.done
        /\ run'.end = run.end /\ run'.by = run.by /\ run'.kept = run.kept
    BY <1>1, <1>3 DEF Go, Typed, Run
  <2>2. Begun'
    BY <1>1, <1>3, <2>1 DEF Keeping, Begun, AtStage, Ran, Recorded
  <2>3. Reliable' => Kept(disk)
    <3>1. CASE run.pc = "finish"
      BY <2>1, <3>1 DEF Keeping, Reliable, PastStages
    <3>2. CASE run.pc \in {"next", "run"}
      <4>1. Reliable' => Following
        BY <2>1, <3>2 DEF Keeping, Reliable, AtStage
      <4> QED
        BY <3>2, <4>1, FollowingKept DEF Keeping
    <3> QED
      BY <1>3, <3>1, <3>2
  <2> QED
    BY <1>1, <2>1, <2>2, <2>3 DEF Keeping, AtStage, Kept
<1> QED
  BY <1>2, <1>3

LEMMA BetweenKeeps ==
  ASSUME Keeping, Reconfigure \/ OtherRun
  PROVE  Keeping'
<1>1. /\ run.pc = "idle" /\ run' = Idle("none")
      /\ UNCHANGED <<disk, s3, rerunFrom>>
  BY DEF Reconfigure, OtherRun
<1>2. run'.pc = "idle" /\ run'.end = "none" /\ run'.done = {}
  BY <1>1 DEF Idle, NoRun
<1>3. Begun'
  BY <1>1, <1>2 DEF Keeping, Begun, AtStage, Ran, Recorded
<1> QED
  BY <1>2, <1>3 DEF Keeping, AtStage, PastStages

LEMMA InitKeeps == Init => Keeping
<1> SUFFICES ASSUME Init PROVE Keeping
  OBVIOUS
<1>1. run = NoRun /\ disk = NoCache /\ s3 = NoCache /\ rerunFrom = N + 1
  BY DEF Init
<1>2. run.pc = "idle" /\ run.end = "none" /\ run.done = {} /\ ~Ran
  BY <1>1, Constants DEF NoRun, Ran
<1>3. NoCache.meta = NoMeta
  BY DEF NoCache
<1> QED
  BY <1>1, <1>2, <1>3 DEF Keeping, Begun, AtStage, PastStages

LEMMA StepKeeps ==
  ASSUME Contiguous, Typed, Keeping, [Next]_vars
  PROVE  Keeping'
<1>1. CASE UNCHANGED vars
  BY <1>1 DEF vars, Keeping, Begun, Following, WillLoad, Kept, Reliable, Ran, PastStages,
     sync_pipeline_from_s3, Recorded
<1>2. CASE Reconfigure \/ OtherRun
  BY <1>2, BetweenKeeps
<1>3. CASE Start
  BY <1>3, StartKeeps
<1>4. CASE Begin
  BY <1>4, BeginKeeps
<1>5. CASE \E part \in BOOLEAN : Complete(part)
  BY <1>5, CompleteKeeps
<1>6. CASE Fail
  BY <1>6, FailKeeps
<1>7. CASE SaveData
  BY <1>7, SaveDataKeeps
<1>8. CASE SaveIndex
  BY <1>8, SaveIndexKeeps
<1>9. CASE UploadCheckpoint
  BY <1>9, UploadKeeps
<1>10. CASE Finalize
  BY <1>10, FinalizeKeeps
<1>11. CASE LastUpload \/ CheckpointOnStop \/ Kill
  BY <1>11, EndsKeep
<1>12. CASE request_stop
  BY <1>12, StopKeeps
<1> QED
  BY <1>1, <1>2, <1>3, <1>4, <1>5, <1>6, <1>7, <1>8, <1>9, <1>10, <1>11, <1>12 DEF Next

\* Every step that starts a run after a stop starts it after what was finished.
LEMMA StopKept ==
  ASSUME Typed, Keeping, [Next]_vars,
         run.end = "stopped", run.by # "asked",
         run'.pc = "next", run'.by = "auto", run'.win = run.win,
         sync_pipeline_from_s3.meta.failed = {}, run.kept,
         NEW s \in run.done \cap Cached
  PROVE  s < run'.at
<1>1. run.pc = "idle" /\ Kept(sync_pipeline_from_s3)
  BY DEF Keeping, Begun, Reliable
<1>2. Start
  <2>1. ~UNCHANGED vars
    BY <1>1 DEF vars
  <2>2. \A end : Idle(end).pc = "idle"
    <3>1. "pc" \in DOMAIN run
      BY DEF Typed, Run
    <3> QED
      BY <3>1 DEF Idle, NoRun
  <2>3. ~(Reconfigure \/ OtherRun)
    BY <2>2 DEF Reconfigure, OtherRun
  <2> QED
    BY <1>1, <2>1, <2>3 DEF Next, Begin, Complete, Fail, SaveData, SaveIndex,
       UploadCheckpoint, Finalize, LastUpload, request_stop, CheckpointOnStop, Kill
<1>3. PICK w \in Windows : \E asked, force : run_leased(w, asked, force)
  BY <1>2 DEF Start
<1>4. PICK asked, force : run_leased(w, asked, force)
  BY <1>3
<1> DEFINE d == sync_pipeline_from_s3
<1>5. Leaves(d, conf, registry, run.win, s) /\ s \in run.win
  BY <1>1 DEF Kept, Keeping, Begun
<1>6. prepare_resume(d, w, asked) /\ asked = 0 /\ run.win = w
  <2>1. \A n, by : StartAt(w, n, by) => run'.by = by /\ run'.win = w
    BY DEF StartAt
  <2>2. Idle("refused").pc = "idle"
    BY DEF Idle, NoRun
  <2>3. ~(ctx' = NoCtx /\ StartAt(w, IF asked = 0 THEN Min(w) ELSE asked, "new"))
    BY <2>1
  <2>4. prepare_resume(d, w, asked)
    BY <1>4, <2>3 DEF run_leased
  <2>5. \E n : StartAt(w, n, IF asked = 0 THEN "auto" ELSE "asked")
    BY <2>2, <2>4 DEF prepare_resume
  <2> QED
    BY <2>1, <2>4, <2>5
<1> HIDE DEF d
<1>7. prepare_resume(d, w, 0) /\ s \in w \cap Cached /\ d.meta.failed = {}
  BY <1>5, <1>6 DEF d
<1> QED
  BY <1>5, <1>6, <1>7, ResumesAfter

\* Under windows without gaps, the run that follows a stop with the same stages
\* and settings starts after every stage the stopped run finished, whatever
\* earlier runs left torn.
THEOREM StoppedRunsKeepWork ==
  ASSUME Contiguous
  PROVE  Spec => StopKeepsWork
<1>1. Contiguous /\ Typed /\ Keeping /\ [Next]_vars => Keeping'
  BY StepKeeps
<1>2. Typed /\ Keeping /\ [Next]_vars =>
        [ /\ run.end = "stopped" /\ run.by # "asked"
          /\ run'.pc = "next" /\ run'.by = "auto" /\ run'.win = run.win
          /\ sync_pipeline_from_s3.meta.failed = {} /\ run.kept
          => \A s \in run.done \cap Cached : s < run'.at ]_vars
  BY StopKept
<1> QED
  BY <1>1, <1>2, InitTyped, StepTyped, InitKeeps, PTL DEF Spec, StopKeepsWork
=============================================================================
