------------------------ MODULE IncrementalIndexing ------------------------
(***************************************************************************)
(* Incremental indexing runs over a changing corpus: the document registry *)
(* and the stores, across runs that finish, fail part way, are stopped or  *)
(* die between any two steps (application/ingestion/incremental.py).       *)
(*                                                                         *)
(* A run diffs the corpus against the registry, opens an attempt on every  *)
(* document it processes, extracts them, records them PENDING (the write-  *)
(* ahead), removes what the changed and deleted documents stated before,   *)
(* writes the new items, and only then records the documents PROCESSED or  *)
(* FAILED.  Nothing makes the registry and the stores change together: the *)
(* order of the writes is all that lets the next run repair a broken one.  *)
(*                                                                         *)
(* One run at a time writes a namespace (module NamespaceLease).  A stored *)
(* item (a text unit, or an entity, relationship or claim) cites the text  *)
(* units it was stated in: `stored` holds the pairs <<item, text unit>>.   *)
(* Communities and reports, the re-keying of merged items and the reset    *)
(* are not in this module.                                                 *)
(***************************************************************************)
EXTENDS DocStatus

CONSTANTS
    Entities,      \* items documents share: entities, relationships, claims
    Killers,       \* <<document, hash>>: content whose processing kills the run
    KillStep,      \* the step they kill it at: "extract" or "commit"
    Limits,        \* the values indexing.max_document_attempts takes
    MaxFailurePct, \* indexing.max_failure_rate, in percent
    MaxEdits,      \* bound on changes of the corpus and of the settings
    MaxFaults      \* bound on failures of a run, for model checking

Item == Unit \cup Entities

ASSUME IndexingAssumption ==
    /\ Entities \cap Unit = {}
    /\ Killers \subseteq Docs \X Hashes
    /\ KillStep \in {"extract", "commit"}
    /\ Limits # {} /\ Limits \subseteq Nat \ {0}
    /\ MaxFailurePct \in 0..100
    /\ MaxEdits \in Nat /\ MaxFaults \in Nat
    /\ IsFiniteSet(Chunks) /\ IsFiniteSet(Entities)

VARIABLES
    corpus,       \* the content hash of each document now, or Gone
    settings,     \* the extraction settings now
    registry,     \* the registry's record of each document
    stored,       \* what the stores hold: <<item, text unit it cites>>
    indexed,      \* what the commit that recorded a document wrote for it
    pc,           \* the run's next step
    delta,        \* context.incremental_delta
    hashOf,       \* context.incremental_fingerprints
    fingerprint,  \* context.incremental_extraction_fingerprint
    prior,        \* IncrementalIndexer._prior
    extracted,    \* the items the run's stages made of its documents
    outcome,      \* the run's failures, by document
    edits,        \* changes of the corpus and the settings so far
    faults        \* failures so far

runVars == <<delta, hashOf, fingerprint, prior, extracted, outcome>>
vars == <<corpus, settings, registry, stored, indexed, pc, runVars, edits, faults>>

Steps == {"idle", "open", "extract", "mark", "remove", "strip", "forget",
          "commit", "record", "close"}

NoDelta == [new |-> {}, changed |-> {}, deleted |-> {}, quarantined |-> {}]
NoOutcome == [unproductive |-> {}, failed |-> {}, counted |-> {},
              claims |-> {}, unwritten |-> {}, recorded |-> TRUE]
Outcome == [unproductive: SUBSET Docs, failed: SUBSET Docs,
            counted: SUBSET Docs, claims: SUBSET Docs,
            unwritten: SUBSET Docs, recorded: BOOLEAN]

Init ==
    /\ corpus \in [Docs -> Hashes \cup {Gone}]
    /\ settings \in Settings
    /\ registry = [d \in Docs |-> NoRecord]
    /\ stored = {}
    /\ indexed = [d \in Docs |-> {}]
    /\ pc = "idle"
    /\ delta = NoDelta
    /\ hashOf = [d \in Docs |-> Gone]
    /\ fingerprint = None
    /\ prior = [d \in Docs |-> NoRecord]
    /\ extracted = {}
    /\ outcome = NoOutcome
    /\ edits = 0
    /\ faults = 0

-----------------------------------------------------------------------------
(* The environment.                                                        *)

Edit ==
    /\ edits < MaxEdits
    /\ edits' = edits + 1
    /\ \E d \in Docs, h \in Hashes \cup {Gone} :
          /\ h # corpus[d]
          /\ corpus' = [corpus EXCEPT ![d] = h]
    /\ UNCHANGED <<settings, registry, stored, indexed, pc, runVars, faults>>

ChangeSettings ==
    /\ edits < MaxEdits
    /\ edits' = edits + 1
    /\ settings' \in Settings \ {settings}
    /\ UNCHANGED <<corpus, registry, stored, indexed, pc, runVars, faults>>

\* A step may fail: every failure counts against MaxFaults.
Fault == faults < MaxFaults /\ faults' = faults + 1
NoFault == UNCHANGED faults

Todo == ToProcess(delta)

\* Processing a document of Killers ends the process.
Deadly == pc = KillStep /\ \E d \in Todo : <<d, hashOf[d]>> \in Killers

\* The run's own variables once no run is going on.
Forget ==
    /\ delta' = NoDelta
    /\ hashOf' = [d \in Docs |-> Gone]
    /\ fingerprint' = None
    /\ prior' = [d \in Docs |-> NoRecord]
    /\ extracted' = {}
    /\ outcome' = NoOutcome

\* A run ends in the process through "close", or dies on the spot.
Ends ==
    \/ pc' = "close" /\ UNCHANGED runVars
    \/ pc' = "idle" /\ Forget

\* The records of some of the documents were written before the run ended:
\* put_many writes in batches, delete one record at a time.
WrittenInPart(next) ==
    \E done \in SUBSET {d \in Docs : next[d] # registry[d]} :
        registry' = [d \in Docs |-> IF d \in done THEN next[d] ELSE registry[d]]

-----------------------------------------------------------------------------
(* Document loading: the diff and the attempts.                            *)

\* filter_to_delta: `unread` are the corpus files that failed to load.
FilterToDelta ==
    /\ pc = "idle"
    /\ \E unread \in SUBSET {d \in Docs : corpus[d] # Gone} : \E limit \in Limits :
          /\ IF unread = {} THEN NoFault ELSE Fault
          /\ hashOf' = [d \in Docs |-> IF d \in unread THEN Gone ELSE corpus[d]]
          /\ delta' = DetectDelta(registry, hashOf', unread, settings, limit)
    /\ fingerprint' = settings
    /\ pc' = "open"
    /\ UNCHANGED <<corpus, settings, registry, stored, indexed, prior,
                   extracted, outcome, edits>>

Opened ==
    [d \in Docs |->
        IF d \in Todo
        THEN OpenedAttempt(IF HasRecord(registry[d]) THEN registry[d]
                           ELSE [NoRecord EXCEPT !.status = "pending"],
                           hashOf[d], Cardinality(Todo))
        ELSE registry[d]]

OpenAttempts ==
    /\ pc = "open"
    /\ registry' = Opened
    /\ pc' = "extract"
    /\ UNCHANGED <<corpus, settings, stored, indexed, runVars, edits, faults>>

OpenAttemptsCut ==
    /\ pc = "open" /\ Fault
    /\ WrittenInPart(Opened)
    /\ Ends
    /\ UNCHANGED <<corpus, settings, stored, indexed, edits>>

-----------------------------------------------------------------------------
(* The stages between loading and indexing, which write to no store.       *)

\* A stage that failed on all its units ends the run; it failed on the
\* documents of `own` for an error of their own (record_item_failures).
StageFails ==
    /\ pc = "extract" /\ Fault
    /\ \E own \in SUBSET Todo :
          registry' =
              [d \in Docs |->
                  IF d \in own
                  THEN ItemFailureRecord(registry[d], hashOf[d], fingerprint)
                  ELSE registry[d]]
    /\ pc' = "close"
    /\ UNCHANGED <<corpus, settings, stored, indexed, runVars, edits>>

\* The text units of the extracted items that belong to document d.
Planned(items, d) == {i[2] : i \in {j \in items : j[2][1] = d}}

\* What the stages may make of a version: its text units, and any of the
\* entities stated in any of them (the model's answer is not fixed).
Extractions(docs) ==
    LET units == UNION {UnitsOf(d, hashOf[d]) : d \in docs}
    IN  {{<<u, u>> : u \in units} \cup said : said \in SUBSET (Entities \X units)}

Ahead(items) ==
    [d \in Docs |->
        IF d \in Todo THEN PendingRecord(registry[d], Planned(items, d))
        ELSE registry[d]]

\* The stages end: some documents give no lineage, some of their units
\* failed (for an error of the document's own or not), or only claims did.
Extracted ==
    \E unproductive \in SUBSET Todo : \E failed \in SUBSET Todo :
    \E claims \in SUBSET Todo : \E counted \in SUBSET failed :
       /\ unproductive \cap (failed \cup claims) = {}
       /\ failed \cap claims = {}
       /\ IF unproductive \cup failed \cup claims = {} THEN NoFault ELSE Fault
       /\ outcome' = [NoOutcome EXCEPT !.unproductive = unproductive,
                                       !.failed = failed,
                                       !.counted = counted,
                                       !.claims = claims]
       /\ extracted' \in Extractions(Todo \ unproductive)

\* index_delta up to its first store write: write_ahead.
WriteAhead ==
    /\ pc = "extract" /\ ~Deadly
    /\ Extracted
    /\ prior' = registry
    /\ registry' = Ahead(extracted')
    /\ pc' = "mark"
    /\ UNCHANGED <<corpus, settings, stored, indexed, delta, hashOf,
                   fingerprint, edits>>

WriteAheadCut ==
    /\ pc = "extract" /\ ~Deadly /\ Fault
    /\ \E docs \in SUBSET Todo : \E items \in Extractions(docs) :
          WrittenInPart(Ahead(items))
    /\ Ends
    /\ UNCHANGED <<corpus, settings, stored, indexed, edits>>

-----------------------------------------------------------------------------
(* Removing what changed, deleted and quarantined documents stated.        *)

\* A quarantined document whose attempts died before the indexing stage
\* keeps its indexed version.
Kept == {d \in delta.quarantined :
            /\ registry[d].status # "pending"
            /\ registry[d].text_unit_ids # {}}

MarkedDeleted ==
    [d \in Docs |->
        IF d \in delta.deleted /\ registry[d].status # "pending"
        THEN PendingRecord(registry[d], {}) ELSE registry[d]]

MarkDeleted ==
    /\ pc = "mark"
    /\ registry' = MarkedDeleted
    /\ pc' = "remove"
    /\ UNCHANGED <<corpus, settings, stored, indexed, runVars, edits, faults>>

MarkDeletedCut ==
    /\ pc = "mark" /\ Fault
    /\ WrittenInPart(MarkedDeleted)
    /\ Ends
    /\ UNCHANGED <<corpus, settings, stored, indexed, edits>>

\* The text units to remove, from the records before this run's own.
ObsoleteUnits ==
    UNION ({prior[d].text_unit_ids : d \in delta.changed}
             \cup {registry[d].text_unit_ids :
                      d \in delta.deleted \cup (delta.quarantined \ Kept)})

CitesOf(i) == {p[2] : p \in {q \in stored : q[1] = i}}
StoredItems == {p[1] : p \in stored}
Doomed == {i \in StoredItems : CitesOf(i) \subseteq ObsoleteUnits}
Shared == {i \in StoredItems \ Doomed : CitesOf(i) \cap ObsoleteUnits # {}}

\* After a failed removal the run commits only when no document changed.
RemovalFails == pc' = IF delta.changed # {} THEN "close" ELSE "commit"

\* remove_text_units first deletes the items citing nothing else: those in
\* `left` are not deleted, and a deletion reported failed may have been.
RemoveDoomed ==
    /\ pc = "remove"
    /\ \E left \in SUBSET Doomed : \E fails \in BOOLEAN :
          /\ left # {} => fails
          /\ stored' = {p \in stored : p[1] \in left \/ p[1] \notin Doomed}
          /\ IF fails THEN Fault /\ RemovalFails
             ELSE NoFault /\ pc' = "strip"
    /\ UNCHANGED <<corpus, settings, registry, indexed, delta, hashOf,
                   fingerprint, prior, extracted, outcome, edits>>

\* Then it strips the shared ones of the removed text units.
StripShared ==
    /\ pc = "strip"
    /\ \E left \in SUBSET Shared : \E fails \in BOOLEAN :
          /\ left # {} => fails
          /\ stored' = {p \in stored : p[2] \notin ObsoleteUnits \/ p[1] \in left}
          /\ IF fails THEN Fault /\ RemovalFails
             ELSE NoFault /\ pc' = "forget"
    /\ UNCHANGED <<corpus, settings, registry, indexed, delta, hashOf,
                   fingerprint, prior, extracted, outcome, edits>>

\* The process ends while the removal is going on.
RemovalCut ==
    /\ pc \in {"remove", "strip"} /\ Fault
    /\ \E left \in SUBSET (IF pc = "remove" THEN Doomed ELSE Shared) :
          stored' = {p \in stored :
                        \/ p[1] \in left
                        \/ IF pc = "remove" THEN p[1] \notin Doomed
                           ELSE p[2] \notin ObsoleteUnits}
    /\ Ends
    /\ UNCHANGED <<corpus, settings, registry, indexed, edits>>

Forgotten ==
    [d \in Docs |->
        IF d \in delta.deleted THEN NoRecord
        ELSE IF d \in delta.quarantined
        THEN QuarantinedRecord(registry[d], fingerprint, d \in Kept)
        ELSE registry[d]]

\* The removal succeeded: the deleted documents' records go and the
\* quarantined ones are recorded.
ForgetRemoved ==
    /\ pc = "forget"
    /\ registry' = Forgotten
    /\ pc' = "commit"
    /\ UNCHANGED <<corpus, settings, stored, indexed, runVars, edits, faults>>

ForgetRemovedCut ==
    /\ pc = "forget" /\ Fault
    /\ WrittenInPart(Forgotten)
    /\ Ends
    /\ UNCHANGED <<corpus, settings, stored, indexed, edits>>

-----------------------------------------------------------------------------
(* The commit and what it records.                                         *)

ExtractedItems == {p[1] : p \in extracted}

\* _delta_writes_succeeded, with every item of one index type.
WritesSucceeded(failures) ==
    \/ failures = {}
    \/ /\ failures # ExtractedItems
       /\ 100 * Cardinality(failures)
             <= MaxFailurePct * Cardinality(ExtractedItems)

\* artifact_owners: the documents whose text units a failed item cites.
OwnersOf(failures) == {p[2][1] : p \in {q \in extracted : q[1] \in failures}}

\* Each item is merged with its stored copy and written.  A write reported
\* failed may have been applied; a failure without an id is everyone's.
Commit ==
    /\ pc = "commit" /\ ~Deadly
    /\ \E failures \in SUBSET ExtractedItems : \E applied \in SUBSET failures :
       \E attributed \in BOOLEAN :
          /\ failures = {} => attributed
          /\ IF failures = {} THEN NoFault ELSE Fault
          /\ stored' = stored \cup {p \in extracted : \/ p[1] \notin failures
                                                      \/ p[1] \in applied}
          /\ outcome' = [outcome EXCEPT
                !.recorded = WritesSucceeded(failures),
                !.unwritten = IF attributed THEN OwnersOf(failures)
                              ELSE Todo \ outcome.unproductive]
    /\ pc' = "record"
    /\ UNCHANGED <<corpus, settings, registry, indexed, delta, hashOf,
                   fingerprint, prior, extracted, edits>>

CommitCut ==
    /\ pc = "commit" /\ Fault
    /\ \E applied \in SUBSET ExtractedItems :
          stored' = stored \cup {p \in extracted : p[1] \in applied}
    /\ Ends
    /\ UNCHANGED <<corpus, settings, registry, indexed, edits>>

\* Claims alone missing: the document is recorded FAILED once.
ClaimsRetried(d) ==
    /\ d \in outcome.claims
    /\ ~(/\ SameFailure(prior[d], hashOf[d], fingerprint)
         /\ prior[d].claims_missing)

\* Mutant: a document whose writes failed is recorded PROCESSED.
FailedExtractionOnly(d) == d \in outcome.failed
HasFailed(d) == d \in outcome.failed \/ d \in outcome.unwritten

ProcessedRecord(d) ==
    [NoRecord EXCEPT
        !.status = IF HasFailed(d) \/ ClaimsRetried(d) THEN "failed"
                   ELSE "processed",
        !.content_hash = hashOf[d],
        !.claims_missing = ~HasFailed(d) /\ ClaimsRetried(d),
        !.failure_count =
            IF ~HasFailed(d) THEN 0
            ELSE (IF SameFailure(prior[d], hashOf[d], fingerprint)
                  THEN prior[d].failure_count ELSE 0)
                 + (IF d \in outcome.counted THEN 1 ELSE 0),
        !.extraction_fingerprint = fingerprint,
        !.text_unit_ids = UnitsOf(d, hashOf[d])]

Recorded ==
    [d \in Docs |->
        IF d \notin Todo THEN registry[d]
        ELSE IF d \in outcome.unproductive
        THEN UnproductiveAttempt(registry[d], hashOf[d])
        ELSE ProcessedRecord(d)]

RecordProcessed ==
    /\ pc = "record"
    /\ registry' = IF outcome.recorded THEN Recorded ELSE registry
    /\ indexed' = [d \in Docs |->
                      IF registry'[d] # registry[d]
                      THEN {p \in extracted : p[2][1] = d} ELSE indexed[d]]
    /\ pc' = "close"
    /\ UNCHANGED <<corpus, settings, stored, runVars, edits, faults>>

RecordProcessedCut ==
    /\ pc = "record" /\ outcome.recorded /\ Fault
    /\ WrittenInPart(Recorded)
    /\ indexed' = [d \in Docs |->
                      IF registry'[d] # registry[d]
                      THEN {p \in extracted : p[2][1] = d} ELSE indexed[d]]
    /\ Ends
    /\ UNCHANGED <<corpus, settings, stored, edits>>

-----------------------------------------------------------------------------
(* How a run ends.                                                         *)

Closed ==
    [d \in Docs |->
        IF /\ d \in Todo
           /\ registry[d].attempt_batch # 0
           /\ registry[d].attempted_hash = hashOf[d]
        THEN ClosedAttempt(registry[d]) ELSE registry[d]]

CloseAttempts ==
    /\ pc = "close"
    /\ registry' = Closed
    /\ pc' = "idle" /\ Forget
    /\ UNCHANGED <<corpus, settings, stored, indexed, edits, faults>>

\* Best effort: the run ends whether or not its attempts were closed.
CloseAttemptsCut ==
    /\ pc = "close" /\ Fault
    /\ WrittenInPart(Closed)
    /\ pc' = "idle" /\ Forget
    /\ UNCHANGED <<corpus, settings, stored, indexed, edits>>

\* A stage raises, the lease is lost or the run is stopped.
Stop ==
    /\ pc \notin {"idle", "close"} /\ Fault
    /\ pc' = "close"
    /\ UNCHANGED <<corpus, settings, registry, stored, indexed, runVars, edits>>

Die ==
    /\ pc # "idle"
    /\ IF Deadly THEN NoFault ELSE Fault
    /\ pc' = "idle" /\ Forget
    /\ UNCHANGED <<corpus, settings, registry, stored, indexed, edits>>

-----------------------------------------------------------------------------
(* The specification.                                                      *)

\* The steps of a run that meets no failure of its environment.
RunStep ==
    \/ FilterToDelta \/ OpenAttempts \/ WriteAhead \/ MarkDeleted
    \/ RemoveDoomed \/ StripShared \/ ForgetRemoved \/ Commit
    \/ RecordProcessed \/ CloseAttempts
    \/ Deadly /\ Die

Failure ==
    \/ OpenAttemptsCut \/ StageFails \/ WriteAheadCut \/ MarkDeletedCut
    \/ RemovalCut \/ ForgetRemovedCut \/ CommitCut \/ RecordProcessedCut
    \/ CloseAttemptsCut \/ Stop
    \/ ~Deadly /\ Die

Next == RunStep \/ Failure \/ Edit \/ ChangeSettings

\* Runs keep being started, and a run that is not stopped and does not die
\* goes on.
Spec == Init /\ [][Next]_vars
FairSpec == Spec /\ WF_vars(RunStep)

-----------------------------------------------------------------------------
(* Properties.                                                             *)

StoredOf(d) == {p \in stored : p[2][1] = d}
Text(d, h) == {<<u, u>> : u \in UnitsOf(d, h)}

\* The type of every variable.
TypeOK ==
    /\ corpus \in [Docs -> Hashes \cup {Gone}]
    /\ settings \in Settings
    /\ registry \in [Docs -> Record]
    /\ stored \subseteq Item \X Unit
    /\ indexed \in [Docs -> SUBSET (Item \X Unit)]
    /\ pc \in Steps
    /\ delta \in [new: SUBSET Docs, changed: SUBSET Docs,
                  deleted: SUBSET Docs, quarantined: SUBSET Docs]
    /\ hashOf \in [Docs -> Hashes \cup {Gone}]
    /\ fingerprint \in Settings \cup {None}
    /\ prior \in [Docs -> Record]
    /\ extracted \subseteq Item \X Unit
    /\ outcome \in Outcome
    /\ edits \in 0..MaxEdits
    /\ faults \in 0..MaxFaults

\* No store ever holds an item of a text unit that the registry does not
\* name: whatever a run wrote before it broke off, a later removal finds it
\* (write_ahead: "removing it then finds every artifact this run may have
\* written").
NoOrphans ==
    \A p \in stored : p[2] \in registry[p[2][1]].text_unit_ids

\* A document recorded PROCESSED is in the stores with exactly what its
\* commit extracted, its whole text included: no write missing, nothing of
\* an earlier version left.  The next diff calls it unchanged, so nothing
\* would ever repair it (IncrementalIndexer.record).
ProcessedExact ==
    \A d \in Docs : registry[d].status = "processed" =>
        /\ StoredOf(d) = indexed[d]
        /\ Text(d, registry[d].content_hash) \subseteq indexed[d]

\* Only content whose processing kills runs is quarantined, as long as
\* nothing else makes them fail (attempts.py: "a culprit never takes innocent
\* documents with it").
OnlyCulprits ==
    faults = 0 => \A d \in Docs : registry[d].status = "quarantined" =>
        <<d, registry[d].content_hash>> \in Killers

\* The registry and the stores agree with the corpus: each document is
\* indexed at its content, or given up for a reason the registry shows.
Settled ==
    \A d \in Docs :
        LET r == registry[d]
        IN  IF corpus[d] = Gone THEN ~HasRecord(r) /\ StoredOf(d) = {}
            ELSE /\ r.content_hash = corpus[d]
                 /\ \/ r.status \in {"processed", "quarantined"}
                       /\ ~SettingsChanged(r.extraction_fingerprint, settings)
                    \/ Exhausted(r, corpus[d], settings)

\* Once the corpus and the settings rest and failures stop, the runs bring
\* the registry and the stores to the corpus and leave them there: nothing
\* is deferred, retried or skipped for ever.
Converges == <>[]Settled

\* What a document is to a reader of the registry.
Mode ==
    [d \in Docs |-> IF ~HasRecord(registry[d]) THEN "absent"
                   ELSE IF registry[d].status = "processed" THEN "clean"
                   ELSE "dirty"]
Contents == [d \in Docs |-> StoredOf(d)]
Index == INSTANCE DocumentIndex WITH mode <- Mode, content <- Contents

\* The runs implement the write-ahead index: whatever fails, a store write
\* touches only documents the registry shows dirty, and a document leaves
\* the registry only with nothing of it stored.
ImplementsIndex == Index!Spec
=============================================================================
