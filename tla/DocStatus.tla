----------------------------- MODULE DocStatus -----------------------------
(***************************************************************************)
(* The registry record of a document and what an incremental run computes  *)
(* from the records: the diff of the corpus (DocumentDelta.classify,       *)
(* detect_delta) and the processing attempts that isolate the document     *)
(* which kills the runs (domain/ingestion/attempts.py).                    *)
(*                                                                         *)
(* One registry scope and one index suffix.  A document without a record   *)
(* has the record NoRecord (status "none").  Left out of a record: its     *)
(* path, scope, suffix and timestamps, written_by (read by a resume only)  *)
(* and retry_count (only reported, no decision reads it).                  *)
(***************************************************************************)
EXTENDS Integers, FiniteSets

CONSTANTS
    Docs,         \* document ids; numbers, as runs take them in sorted order
    Hashes,       \* content hashes of the documents' versions
    Settings,     \* extraction settings fingerprints
    Chunks,       \* a text unit is a document's chunk
    ChunksOf,     \* the chunks of each version of a document's content
    MaxFailures   \* indexing.max_document_failures

Pending == "pending"   \* PENDING_CONTENT_HASH
None == "none"         \* an optional field that is not set
Gone == "gone"         \* the corpus does not hold the document

\* "A text unit belongs to one document": its id derives from the
\* document's registry key.
Unit == Docs \X Chunks
UnitsOf(d, h) == {d} \X ChunksOf[h]

ASSUME DocStatusAssumption ==
    /\ Docs \subseteq Nat
    /\ IsFiniteSet(Docs)
    /\ {Pending, None, Gone} \cap Hashes = {}
    /\ None \notin Settings
    /\ ChunksOf \in [Hashes -> SUBSET Chunks]
    /\ MaxFailures \in Nat \ {0}

Status == {"none", "pending", "processed", "failed", "quarantined"}

\* attempt_batch is at least 1 when set: 0 stands for an attempt not open.
Record ==
    [status: Status,
     content_hash: Hashes \cup {Pending},
     text_unit_ids: SUBSET Unit,
     claims_missing: BOOLEAN,          \* error_info is _CLAIMS_MISSING
     failure_count: Nat,
     extraction_fingerprint: Settings \cup {None},
     attempt_count: Nat,
     attempted_hash: Hashes \cup {None},
     attempt_batch: Nat,
     crash_batch: Nat]

NoRecord ==
    [status |-> "none", content_hash |-> Pending, text_unit_ids |-> {},
     claims_missing |-> FALSE, failure_count |-> 0,
     extraction_fingerprint |-> None, attempt_count |-> 0,
     attempted_hash |-> None, attempt_batch |-> 0, crash_batch |-> 0]

HasRecord(r) == r.status # "none"

-----------------------------------------------------------------------------
(* Processing attempts (domain/ingestion/attempts.py).                     *)

\* Mutant: an attempt left open by a dead run is not counted.
SettledForgetsOpen(r, h) ==
    IF r.attempted_hash = h
    THEN [deaths |-> r.attempt_count, batch |-> r.crash_batch]
    ELSE [deaths |-> 0, batch |-> 0]

\* The deaths of the record's attempts at content h and the batch of the
\* last one; an attempt still open is a death, as its run never closed it.
SettledAttempts(r, h) ==
    IF r.attempted_hash # h
    THEN [deaths |-> 0, batch |-> 0]
    ELSE IF r.attempt_batch # 0
         THEN [deaths |-> r.attempt_count + 1, batch |-> r.attempt_batch]
         ELSE [deaths |-> r.attempt_count, batch |-> r.crash_batch]

OpenedAttempt(r, h, batch) ==
    LET settled == SettledAttempts(r, h)
    IN  [r EXCEPT !.attempt_count = settled.deaths,
                  !.crash_batch = settled.batch,
                  !.attempted_hash = h,
                  !.attempt_batch = batch,
                  !.failure_count =
                      IF h \in {r.content_hash, r.attempted_hash} THEN @ ELSE 0]

\* Mutant: closing takes back a death that was never counted.
CloseTakesBack(r) == [r EXCEPT !.attempt_batch = 0, !.attempt_count = @ - 1]

ClosedAttempt(r) == [r EXCEPT !.attempt_batch = 0]

\* A run that ended without a text unit to record for the document counts
\* as a death of the document alone.
UnproductiveAttempt(r, h) ==
    [r EXCEPT !.attempt_count = (IF r.attempted_hash = h THEN @ ELSE 0) + 1,
              !.crash_batch = 1,
              !.attempted_hash = h,
              !.attempt_batch = 0]

\* The first half, rounded up, of a set of documents in sorted order.
FirstHalf(group) ==
    {d \in group : 2 * Cardinality({e \in group : e < d}) < Cardinality(group)}

\* Mutant: every suspect is quarantined, alone or not.
PlanQuarantinesAll(delta, registry, hashOf, limit) ==
    LET suspects == {d \in delta.changed :
                        SettledAttempts(registry[d], hashOf[d]).deaths >= limit}
    IN  [delta EXCEPT !.changed = @ \ suspects, !.quarantined = suspects]

\* Quarantine the suspects that died alone, else process half of those that
\* died in the smallest batch and defer every other document.
PlanAttempts(delta, registry, hashOf, limit) ==
    LET settled(d) == SettledAttempts(registry[d], hashOf[d])
        suspects == {d \in delta.changed : settled(d).deaths >= limit}
        alone == {d \in suspects : settled(d).batch = 1}
        \* e died in a smaller batch than d, or as small and more often
        before(e, d) ==
            \/ settled(e).batch < settled(d).batch
            \/ /\ settled(e).batch = settled(d).batch
               /\ settled(e).deaths > settled(d).deaths
        group == {d \in suspects : \A e \in suspects : ~before(e, d)}
        batch == FirstHalf(group)
    IN  IF suspects = {} THEN delta
        ELSE IF alone # {}
        THEN [delta EXCEPT !.changed = @ \ alone, !.quarantined = alone]
        ELSE [delta EXCEPT !.new = @ \cap batch, !.changed = @ \cap batch]

-----------------------------------------------------------------------------
(* The diff (domain/models/document.py, domain/ingestion/delta_detector.py) *)

SettingsChanged(stored, run) == stored \notin {None, run}

\* Every document the run read against its record.  A file the run could
\* not read (unread) is neither classified nor deleted.
Classify(registry, hashOf, unread, fp) ==
    LET incoming == {d \in Docs : hashOf[d] # Gone} \ unread
        known == {d \in incoming : HasRecord(registry[d])}
    IN  [new |-> incoming \ known,
         changed |-> {d \in known :
                         \/ registry[d].content_hash # hashOf[d]
                         \/ registry[d].status = "failed"
                         \/ SettingsChanged(registry[d].extraction_fingerprint, fp)},
         deleted |-> {d \in Docs \ incoming : HasRecord(registry[d])} \ unread,
         quarantined |-> {}]

\* Quarantined documents that read unchanged and that the limit, raised
\* since, no longer quarantines are processed again.
ReleaseQuarantined(delta, registry, hashOf, unread, limit) ==
    LET released == {d \in Docs \ unread :
                        /\ registry[d].status = "quarantined"
                        /\ registry[d].content_hash = hashOf[d]
                        /\ registry[d].attempt_count < limit}
    IN  [delta EXCEPT !.changed = @ \cup released]

\* The content failed MaxFailures consecutive runs at these settings.
Exhausted(r, h, fp) ==
    /\ r.status = "failed"
    /\ r.content_hash = h
    /\ r.failure_count >= MaxFailures
    /\ ~SettingsChanged(r.extraction_fingerprint, fp)

StopRetryingExhausted(delta, registry, hashOf, fp) ==
    [delta EXCEPT !.changed = {d \in @ : ~Exhausted(registry[d], hashOf[d], fp)}]

\* What the run does with each document: new, changed, deleted or
\* quarantined; a document in none of these is unchanged, deferred, not
\* retried or unread, and the run leaves it alone.
DetectDelta(registry, hashOf, unread, fp, limit) ==
    LET classified == Classify(registry, hashOf, unread, fp)
        released == ReleaseQuarantined(classified, registry, hashOf, unread, limit)
        planned == PlanAttempts(released, registry, hashOf, limit)
    IN  StopRetryingExhausted(planned, registry, hashOf, fp)

ToProcess(delta) == delta.new \cup delta.changed

-----------------------------------------------------------------------------
(* Records the incremental indexer writes (application/ingestion/           *)
(* incremental.py).                                                         *)

\* The write-ahead record: the stored text units and the ones the run is
\* about to write, under a content hash no content has.
PendingRecord(r, planned) ==
    [r EXCEPT !.status = "pending",
              !.content_hash = Pending,
              !.claims_missing = FALSE,
              !.failure_count = 0,
              !.text_unit_ids = @ \cup planned]

\* Whether r records content h failed at the settings fp.
SameFailure(r, h, fp) ==
    /\ r.status = "failed"
    /\ r.content_hash = h
    /\ ~SettingsChanged(r.extraction_fingerprint, fp)

QuarantinedRecord(r, fp, kept) ==
    LET attempted == IF r.attempted_hash = None THEN r.content_hash
                     ELSE r.attempted_hash
        settled == SettledAttempts(r, attempted)
    IN  [r EXCEPT !.status = "quarantined",
                  !.content_hash = attempted,
                  !.claims_missing = FALSE,
                  !.text_unit_ids = IF kept THEN @ ELSE {},
                  !.attempt_count = settled.deaths,
                  !.crash_batch = settled.batch,
                  !.attempt_batch = 0,
                  !.extraction_fingerprint = fp]

\* A document whose stage failed on it before the indexing stage.
ItemFailureRecord(r, h, fp) ==
    [r EXCEPT !.status = "failed",
              !.content_hash = h,
              !.claims_missing = FALSE,
              !.failure_count = (IF SameFailure(r, h, fp) THEN @ ELSE 0) + 1,
              !.extraction_fingerprint = fp,
              !.attempt_count = 0,
              !.attempted_hash = None,
              !.attempt_batch = 0,
              !.crash_batch = 0]
=============================================================================
