----------------------------- MODULE FullBuild -----------------------------
(***************************************************************************)
(* Incremental runs next to resets (indexing.reset): runs that process the *)
(* whole corpus, replace the content of the stores and then the records of *)
(* the registry.                                                           *)
(*                                                                         *)
(* A reset records its documents, and those it drops, PENDING; builds each *)
(* vector index aside and swaps the alias onto it; writes the graph over   *)
(* the stored one and sweeps what it did not write; records its documents; *)
(* and only then deletes the records of the dropped ones.  It opens no     *)
(* attempt.  It may fail, be stopped or die between any two of these, and  *)
(* the runs after it have only the registry to find what it left.          *)
(*                                                                         *)
(* The copies of an entity in the vector index and in the graph are two    *)
(* items.  The confirmations, several suffixes, communities and reports,   *)
(* the extraction store and the annotations are not in this module.        *)
(***************************************************************************)
EXTENDS IncrementalIndexing

CONSTANTS
    GraphItems,   \* the entities and relationships of the graph store
    EmptyResets,  \* whether every document a reset reads may be quarantined
    MaxResets     \* bound on the resets, for model checking

ASSUME FullBuildAssumption ==
    /\ GraphItems \subseteq Entities
    /\ EmptyResets \in BOOLEAN
    /\ MaxResets \in Nat

VARIABLES
    done,    \* the index types the reset has dealt with
    resets   \* resets started so far

resetVars == <<done, resets>>
allVars == <<vars, resetVars>>

ResetSteps == {"build", "rebuild", "sweep", "rerecord", "clear"}

\* The graph is written whole ("graph") or in part ("kept"): then what it
\* held before is kept beside the new items.
Done == {"units", "vectors", "graph", "kept"}

FullInit == Init /\ done = {} /\ resets = 0

\* A reset ends, in the process or with it.
ResetEnds == pc' = "idle" /\ Forget /\ done' = {}

-----------------------------------------------------------------------------
(* Loading.                                                                *)

QuarantinedOnReset(r, h, limit) ==
    /\ r.status = "quarantined"
    /\ r.content_hash = h
    /\ r.attempt_count >= limit

\* Every document read is new, but the quarantined ones, which are skipped.
ResetFilter ==
    /\ pc = "idle" /\ resets < MaxResets
    /\ resets' = resets + 1
    /\ \E unread \in SUBSET {d \in Docs : corpus[d] # Gone} : \E limit \in Limits :
          LET read == {d \in Docs : corpus[d] # Gone} \ unread
              skipped == {d \in read :
                             QuarantinedOnReset(registry[d], corpus[d], limit)}
          IN  /\ read # {}
              /\ skipped = read => EmptyResets
              /\ IF unread = {} THEN NoFault ELSE Fault
              /\ hashOf' = [d \in Docs |-> IF d \in read THEN corpus[d] ELSE Gone]
              /\ delta' = [NoDelta EXCEPT !.new = read \ skipped]
    /\ fingerprint' = settings
    /\ pc' = "build"
    /\ UNCHANGED <<corpus, settings, registry, stored, indexed, prior,
                   extracted, outcome, edits, done>>

-----------------------------------------------------------------------------
(* The stages, and the records of a rebuild about to start.                *)

\* A build with documents must give a text unit and an item of the graph.
Substantial ==
    Todo # {} => /\ extracted' # {}
                 /\ GraphItems # {} => \E p \in extracted' : p[1] \in GraphItems

\* The documents recorded PROCESSED that the corpus, as read, does not hold.
Dropped == {d \in Docs : hashOf[d] = Gone /\ registry[d].status = "processed"}

\* Mutant: the dropped documents stay PROCESSED while they are replaced.
RebuildAheadOfRead(items) == Ahead(items)

\* The records before the first write to a store.
RebuildAhead(items) ==
    [d \in Docs |-> IF d \in Dropped THEN PendingRecord(registry[d], {})
                   ELSE Ahead(items)[d]]

ResetWriteAhead ==
    /\ pc = "build"
    /\ Extracted /\ Substantial
    /\ prior' = registry
    /\ registry' = RebuildAhead(extracted')
    /\ pc' = "rebuild"
    /\ UNCHANGED <<corpus, settings, stored, indexed, delta, hashOf,
                   fingerprint, edits, resetVars>>

ResetWriteAheadCut ==
    /\ pc = "build" /\ Fault
    /\ \E docs \in SUBSET Todo : \E items \in Extractions(docs) :
          WrittenInPart(RebuildAhead(items))
    /\ ResetEnds
    /\ UNCHANGED <<corpus, settings, stored, indexed, edits, resets>>

-----------------------------------------------------------------------------
(* The rebuild (index_all_data): the index types are written side by side. *)

ItemsOf(type) ==
    CASE type = "units"   -> Unit
      [] type = "vectors" -> Entities \ GraphItems
      [] type = "graph"   -> GraphItems
Built(type) == ExtractedItems \cap ItemsOf(type)

\* A type the deployment never builds has no index to replace.
VectorTypes == {"units"} \cup (IF Entities = GraphItems THEN {} ELSE {"vectors"})

\* With nothing to write the rebuild knows no suffix to replace.
Replaces == extracted # {}

\* The stores once `written` items of a type replaced the stored `old` ones.
Replaced(old, written) ==
    {p \in stored : p[1] \notin old} \cup {p \in extracted : p[1] \in written}

\* One index type's share of _delta_writes_succeeded.
TypeSucceeded(items, failures) ==
    \/ failures = {}
    \/ /\ failures # items
       /\ 100 * Cardinality(failures) <= MaxFailurePct * Cardinality(items)

\* The documents to blame for failed writes: all of them when a failure
\* carries no id.
Blamed(failures, attributed) ==
    IF attributed THEN OwnersOf(failures) ELSE Todo \ outcome.unproductive

\* A new index is filled and the alias swapped onto it, unless none of its
\* items could be written.  Any request may fail; a failed swap, which may
\* have been applied, fails every item, and the run when there is none.
SwapIndex(type) ==
    /\ pc = "rebuild" /\ type \notin done
    /\ \E failures \in SUBSET Built(type) : \E applied \in SUBSET failures :
       \E attributed \in BOOLEAN : \E broken \in BOOLEAN : \E swapped \in BOOLEAN :
          LET holds == Built(type) = {} \/ failures # Built(type)
          IN  /\ failures = {} => attributed
              /\ IF broken THEN swapped => holds ELSE swapped = (Replaces /\ holds)
              /\ broken => Replaces
              /\ IF failures = {} /\ ~broken THEN NoFault ELSE Fault
              /\ stored' = IF swapped
                           THEN Replaced(ItemsOf(type),
                                         (Built(type) \ failures) \cup applied)
                           ELSE stored
              /\ outcome' = [outcome EXCEPT
                    !.recorded = /\ @
                                 /\ TypeSucceeded(Built(type), failures)
                                 /\ broken => /\ failures = {}
                                              /\ Built(type) # {}
                                              /\ MaxFailurePct = 100,
                    !.unwritten = @ \cup
                        Blamed(IF broken THEN Built(type) ELSE failures, attributed)]
    /\ done' = done \cup {type}
    /\ UNCHANGED <<corpus, settings, registry, indexed, pc, delta, hashOf,
                   fingerprint, prior, extracted, edits, resets>>

\* The graph is written over the stored one.
WriteGraph ==
    /\ pc = "rebuild" /\ done \cap {"graph", "kept"} = {}
    /\ \E failures \in SUBSET Built("graph") : \E applied \in SUBSET failures :
       \E attributed \in BOOLEAN :
          LET written == (Built("graph") \ failures) \cup applied
          IN  /\ failures = {} => attributed
              /\ IF failures = {} THEN NoFault ELSE Fault
              /\ stored' = Replaced(written, written)
              /\ outcome' = [outcome EXCEPT
                    !.recorded = @ /\ TypeSucceeded(Built("graph"), failures),
                    !.unwritten = @ \cup Blamed(failures, attributed)]
              /\ done' = done \cup {IF failures = {} THEN "graph" ELSE "kept"}
    /\ UNCHANGED <<corpus, settings, registry, indexed, pc, delta, hashOf,
                   fingerprint, prior, extracted, edits, resets>>

\* The process ends while the graph is being written: an index that was not
\* swapped in is no one's.
WriteGraphCut ==
    /\ pc = "rebuild" /\ done \cap {"graph", "kept"} = {} /\ Fault
    /\ \E written \in SUBSET Built("graph") : stored' = Replaced(written, written)
    /\ ResetEnds
    /\ UNCHANGED <<corpus, settings, registry, indexed, edits, resets>>

\* The previous graph's items, which this build did not write.
Stale == IF Replaces
         THEN {i \in StoredItems : i \in GraphItems /\ i \notin ExtractedItems}
         ELSE {}

EndPhases ==
    /\ pc = "rebuild" /\ VectorTypes \subseteq done
    /\ done \cap {"graph", "kept"} # {}
    /\ pc' = "sweep"
    /\ UNCHANGED <<corpus, settings, registry, stored, indexed, runVars,
                   edits, faults, resetVars>>

\* Mutant: a sweep that failed is not a failed write of the rebuild.
SweepFailureTolerated(fails) == "graph" \in done
SweepSucceeded(fails) == ~fails /\ "graph" \in done

\* end_rebuild: a failed graph write leaves the sweep out; that, and a sweep
\* that fails, is a failed write of the rebuild.
Sweep ==
    /\ pc = "sweep"
    /\ \E left \in SUBSET Stale : \E fails \in BOOLEAN :
          /\ "kept" \in done => left = Stale /\ ~fails
          /\ left # {} /\ "graph" \in done => fails
          /\ IF fails THEN Fault ELSE NoFault
          /\ stored' = {p \in stored : p[1] \in left \/ p[1] \notin Stale}
          /\ outcome' = [outcome EXCEPT !.recorded = @ /\ SweepSucceeded(fails)]
    /\ pc' = "rerecord"
    /\ UNCHANGED <<corpus, settings, registry, indexed, delta, hashOf,
                   fingerprint, prior, extracted, edits, resetVars>>

SweepCut ==
    /\ pc = "sweep" /\ "graph" \in done /\ Fault
    /\ \E left \in SUBSET Stale :
          stored' = {p \in stored : p[1] \in left \/ p[1] \notin Stale}
    /\ ResetEnds
    /\ UNCHANGED <<corpus, settings, registry, indexed, edits, resets>>

-----------------------------------------------------------------------------
(* What the rebuild records.                                               *)

Indexed == [d \in Docs |-> IF registry'[d] # registry[d]
                          THEN {p \in extracted : p[2][1] = d} ELSE indexed[d]]

\* A rebuild that is not recorded leaves every record as it is.
ResetRecord ==
    /\ pc = "rerecord"
    /\ IF outcome.recorded
       THEN registry' = Recorded /\ pc' = "clear" /\ UNCHANGED <<runVars, done>>
       ELSE UNCHANGED registry /\ ResetEnds
    /\ indexed' = Indexed
    /\ UNCHANGED <<corpus, settings, stored, edits, faults, resets>>

ResetRecordCut ==
    /\ pc = "rerecord" /\ outcome.recorded /\ Fault
    /\ WrittenInPart(Recorded)
    /\ indexed' = Indexed
    /\ ResetEnds
    /\ UNCHANGED <<corpus, settings, stored, edits, resets>>

\* Mutant: the records of the documents that are not PROCESSED go.
ClearedUnprocessed ==
    [d \in Docs |-> IF registry[d].status = "processed" THEN registry[d] ELSE NoRecord]

\* clear_registry_namespaces: the records of the documents not read go.
Cleared ==
    [d \in Docs |-> IF hashOf[d] = Gone THEN NoRecord ELSE registry[d]]

ClearRegistry ==
    /\ pc = "clear"
    /\ registry' = Cleared
    /\ ResetEnds
    /\ UNCHANGED <<corpus, settings, stored, indexed, edits, faults, resets>>

ClearRegistryCut ==
    /\ pc = "clear" /\ Fault
    /\ WrittenInPart(Cleared)
    /\ ResetEnds
    /\ UNCHANGED <<corpus, settings, stored, indexed, edits, resets>>

\* A stage fails, the lease is lost, the run is stopped or dies.
ResetStop ==
    /\ pc \in ResetSteps /\ Fault
    /\ ResetEnds
    /\ UNCHANGED <<corpus, settings, registry, stored, indexed, edits, resets>>

-----------------------------------------------------------------------------
(* The specification.                                                      *)

ResetStep ==
    \/ ResetFilter \/ ResetWriteAhead
    \/ \E type \in VectorTypes : SwapIndex(type)
    \/ WriteGraph \/ EndPhases \/ Sweep \/ ResetRecord \/ ClearRegistry

ResetFailure ==
    \/ ResetWriteAheadCut \/ WriteGraphCut \/ SweepCut \/ ResetRecordCut
    \/ ClearRegistryCut \/ ResetStop

IncrementalStep ==
    /\ pc \in Steps
    /\ RunStep \/ Failure
    /\ UNCHANGED resetVars

Environment == (Edit \/ ChangeSettings) /\ UNCHANGED resetVars

FullNext == IncrementalStep \/ Environment \/ ResetStep \/ ResetFailure
FullSpec == FullInit /\ [][FullNext]_allVars

-----------------------------------------------------------------------------
(* Properties: NoOrphans, ProcessedExact and ImplementsIndex of module      *)
(* IncrementalIndexing, of runs and resets in any order.                    *)

\* The type of every variable, in a run and in a reset (allVars).
FullTypeOK ==
    /\ corpus \in [Docs -> Hashes \cup {Gone}]
    /\ settings \in Settings
    /\ registry \in [Docs -> Record]
    /\ stored \subseteq Item \X Unit
    /\ indexed \in [Docs -> SUBSET (Item \X Unit)]
    /\ pc \in Steps \cup ResetSteps
    /\ delta \in [new: SUBSET Docs, changed: SUBSET Docs,
                  deleted: SUBSET Docs, quarantined: SUBSET Docs]
    /\ hashOf \in [Docs -> Hashes \cup {Gone}]
    /\ fingerprint \in Settings \cup {None}
    /\ prior \in [Docs -> Record]
    /\ extracted \subseteq Item \X Unit
    /\ outcome \in Outcome
    /\ edits \in 0..MaxEdits
    /\ faults \in 0..MaxFaults
    /\ done \subseteq Done
    /\ resets \in 0..MaxResets
=============================================================================
