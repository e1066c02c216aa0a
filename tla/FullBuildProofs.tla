-------------------------- MODULE FullBuildProofs --------------------------
(***************************************************************************)
(* Proofs about module FullBuild: with resets among the runs the registry  *)
(* still names everything stored, a document recorded PROCESSED is stored  *)
(* exactly, and the write-ahead index is still implemented, as long as a   *)
(* reset has a document to build and a build all of whose writes failed is *)
(* never tolerated (Repairable).                                           *)
(*                                                                         *)
(* During an incremental run the invariant is the one of module            *)
(* IncrementalIndexingProofs.  During a reset no record says PROCESSED     *)
(* from the first store write to the last, so the stores may hold          *)
(* anything the records name; what must be shown is that a rebuild that is *)
(* recorded left nothing else than what it extracted.                      *)
(***************************************************************************)
EXTENDS FullBuild, IncrementalIndexingProofs

Repairable == ~EmptyResets /\ MaxFailurePct < 100

Rebuilding == {"rebuild", "sweep", "rerecord"}

\* Every document is processed, dropped or was quarantined when it was read.
Sorted ==
    pc = "build" =>
        /\ Todo # {} /\ done = {}
        /\ \A d \in Docs : \/ d \in Todo \/ hashOf[d] = Gone
                           \/ registry[d].status = "quarantined"

\* No record vouches for stores that are being replaced.
Unvouched ==
    pc \in Rebuilding => /\ \A d \in Docs : registry[d].status # "processed"
                         /\ \A d \in Todo : registry[d].status = "pending"
                         /\ Plan /\ extracted # {}

\* The items of a set are stored as extracted, or are known not to be.
Wrote(items) ==
    /\ \A p \in stored : p[1] \in items => p \in extracted
    /\ \A p \in extracted : p[1] \in items =>
          p \in stored \/ OwnerOf(p) \in outcome.unwritten

\* What a rebuild that may yet be recorded has replaced.
Swapped ==
    pc \in Rebuilding /\ outcome.recorded =>
        /\ \A type \in done \cap VectorTypes : Wrote(ItemsOf(type))
        /\ "graph" \in done => Wrote(Built("graph"))

Sweeping ==
    /\ pc \in {"sweep", "rerecord"} => VectorTypes \subseteq done
    /\ pc = "rerecord" /\ outcome.recorded =>
          /\ "graph" \in done
          /\ \A p \in stored : p[1] \in GraphItems => p[1] \in ExtractedItems

\* When the records are cleared nothing of their documents is stored.
Clearing ==
    pc = "clear" =>
        \A d \in Docs : hashOf[d] = Gone =>
            /\ registry[d].status # "processed"
            /\ \A p \in stored : OwnerOf(p) # d

ResetHolds ==
    /\ VarsTyped /\ TodoRead
    /\ Sorted /\ Unvouched /\ Swapped /\ Sweeping /\ Clearing

FullInv ==
    /\ Repairable
    /\ EnvTyped /\ StoresHold
    /\ done \in SUBSET Done /\ resets \in 0..MaxResets
    /\ pc \in Steps \cup ResetSteps
    /\ pc \in Steps => RunHolds /\ done = {}
    /\ pc \in ResetSteps => ResetHolds

-----------------------------------------------------------------------------
(* The incremental runs.                                                   *)

\* The two kinds of steps are told apart by pc.
LEMMA PcFacts ==
    /\ Steps \cap ResetSteps = {}
    /\ "idle" \in Steps
    /\ ResetSteps = {"build", "clear"} \cup Rebuilding
  BY DEF Steps, ResetSteps, Rebuilding

\* The initial states.
LEMMA FullInitInv == Repairable /\ FullInit => FullInv
  <1> SUFFICES ASSUME Repairable, FullInit PROVE FullInv
    OBVIOUS
  <1>1. Inv /\ pc = "idle"
    BY InitInv DEF FullInit, Init
  <1> QED
    BY <1>1, PcFacts, FullBuildAssumption DEF FullInit, FullInv, Inv, Done

\* A step of an incremental run.
LEMMA IncrementalStepInv == FullInv /\ IncrementalStep => FullInv'
  <1> SUFFICES ASSUME FullInv, IncrementalStep PROVE FullInv'
    OBVIOUS
  <1>1. Inv
    BY DEF FullInv, Inv, IncrementalStep
  <1>2. Inv'
    BY <1>1, NextInv DEF IncrementalStep, Next
  <1>3. pc' \in Steps
    BY <1>2 DEF Inv, RunHolds, RunTyped
  <1> QED
    BY <1>2, <1>3, PcFacts DEF FullInv, Inv, IncrementalStep, resetVars, Repairable

\* A change of the corpus or of the settings, or a step that changes nothing.
LEMMA FullEnvironmentInv ==
    FullInv /\ (Environment \/ UNCHANGED allVars) => FullInv'
  <1> SUFFICES ASSUME FullInv, Environment \/ UNCHANGED allVars PROVE FullInv'
    OBVIOUS
  <1>1. /\ UNCHANGED <<registry, stored, indexed, pc, runVars, resetVars>>
        /\ Edit \/ ChangeSettings \/ UNCHANGED vars
    BY DEF Environment, Edit, ChangeSettings, allVars, vars
  <1>2. CASE pc \in Steps
    <2>1. Inv'
      BY <1>1, <1>2, EnvironmentInv DEF FullInv, Inv
    <2> QED
      BY <1>1, <1>2, <2>1, PcFacts DEF FullInv, Inv, resetVars, Repairable
  <1>3. CASE pc \in ResetSteps
    <2>1. EnvTyped'
      BY <1>1, IndexingAssumption
      DEF Edit, ChangeSettings, vars, FullInv, EnvTyped
    <2>2. StoresHold'
      BY <1>1 DEF FullInv, StoresHold
    <2>3. /\ VarsTyped' /\ TodoRead' /\ Todo' = Todo
          /\ ExtractedItems' = ExtractedItems
      BY <1>1, <1>3
      DEF runVars, FullInv, ResetHolds, VarsTyped, TodoRead, Todo, ExtractedItems
    <2>4. Sorted' /\ Unvouched' /\ Swapped' /\ Sweeping' /\ Clearing'
      BY <1>1, <1>3, <2>3
      DEF runVars, resetVars, FullInv, ResetHolds, Sorted, Unvouched, Plan,
          Swapped, Wrote, Built, Sweeping, Clearing
    <2> QED
      BY <1>1, <1>3, <2>1, <2>2, <2>3, <2>4, PcFacts
      DEF FullInv, ResetHolds, resetVars, Repairable
  <1> QED BY <1>2, <1>3 DEF FullInv

-----------------------------------------------------------------------------
(* The resets.                                                             *)

\* What a reset in progress gives the lemmas about the records it writes.
LEMMA FullRunning ==
  ASSUME FullInv, pc \in ResetSteps
  PROVE  Running /\ ResetHolds /\ EnvTyped /\ StoresHold
  BY DEF FullInv, ResetHolds, Running

\* A reset that ends, or breaks off, is as if it had not run, except for
\* the registry and the stores.
LEMMA ResetEndsInv ==
  ASSUME FullInv, ResetEnds, StoresHold', Fault \/ NoFault,
         UNCHANGED <<corpus, settings, edits, resets>>
  PROVE  FullInv'
  <1>1. EnvTyped'
    BY EnvKept DEF FullInv
  <1>2. RunTyped'
    <2>1. NoDelta \in Delta /\ NoOutcome \in Outcome
      BY DEF NoDelta, Delta, NoOutcome, Outcome
    <2>2. NoRecord \in Record /\ NoRecord.text_unit_ids = {}
      BY NoRecordType DEF NoRecord
    <2> QED BY <2>1, <2>2 DEF ResetEnds, Forget, RunTyped, VarsTyped, Steps
  <1>3. DeltaSound'
    BY DEF ResetEnds, Forget, DeltaSound, TodoRead, Todo, ToProcess, NoDelta
  <1>4. RunHolds'
    BY <1>2, <1>3
    DEF ResetEnds, RunHolds, Fresh, Claimed, Planning, Plan, Removing, Written, Landed
  <1> QED
    BY <1>1, <1>4, PcFacts DEF ResetEnds, FullInv, Repairable

\* A reset reads the corpus: some document is left to build.
LEMMA ResetFilterInv == FullInv /\ ResetFilter => FullInv'
  <1> SUFFICES ASSUME FullInv, ResetFilter PROVE FullInv'
    OBVIOUS
  <1>1. PICK unread \in SUBSET {d \in Docs : corpus[d] # Gone}, limit \in Limits :
          LET read == {d \in Docs : corpus[d] # Gone} \ unread
              skipped == {d \in read :
                             QuarantinedOnReset(registry[d], corpus[d], limit)}
          IN  /\ read # {}
              /\ skipped = read => EmptyResets
              /\ IF unread = {} THEN NoFault ELSE Fault
              /\ hashOf' = [d \in Docs |-> IF d \in read THEN corpus[d] ELSE Gone]
              /\ delta' = [NoDelta EXCEPT !.new = read \ skipped]
    BY DEF ResetFilter
  <1> DEFINE read == {d \in Docs : corpus[d] # Gone} \ unread
             skipped == {d \in read :
                            QuarantinedOnReset(registry[d], corpus[d], limit)}
             built == read \ skipped
  <1>2. /\ read \subseteq Docs /\ built \subseteq read /\ built # {}
        /\ \A d \in read : corpus[d] \in Hashes
        /\ \A d \in read \ built : registry[d].status = "quarantined"
    BY <1>1 DEF QuarantinedOnReset, FullInv, Repairable, EnvTyped
  <1>3. /\ hashOf' = [d \in Docs |-> IF d \in read THEN corpus[d] ELSE Gone]
        /\ delta' = [NoDelta EXCEPT !.new = built]
    BY <1>1
  <1> HIDE DEF read, built
  <1>4. delta' \in Delta /\ Todo' = built
    BY <1>2, <1>3 DEF NoDelta, Delta, Todo, ToProcess
  <1>5. EnvTyped'
    BY <1>1, EnvKept DEF ResetFilter, FullInv
  <1>6. StoresHold'
    BY DEF ResetFilter, FullInv, StoresHold
  <1>7. /\ pc \in Steps /\ VarsTyped /\ done = {}
        /\ resets' \in 0..MaxResets
    BY PcFacts, FullBuildAssumption
    DEF ResetFilter, FullInv, RunHolds, RunTyped
  <1>8. VarsTyped'
    BY <1>2, <1>3, <1>4, <1>7 DEF ResetFilter, FullInv, EnvTyped, VarsTyped
  <1>9. TodoRead'
    BY <1>2, <1>3, <1>4 DEF TodoRead
  <1>10. Sorted'
    BY <1>2, <1>3, <1>4, <1>7 DEF ResetFilter, Sorted
  <1>11. Unvouched' /\ Swapped' /\ Sweeping' /\ Clearing'
    BY DEF ResetFilter, Unvouched, Swapped, Sweeping, Clearing, Rebuilding
  <1> QED
    BY <1>5, <1>6, <1>7, <1>8, <1>9, <1>10, <1>11, PcFacts
    DEF ResetFilter, FullInv, ResetHolds, Repairable, Done

\* What a rebuild about to start writes: it takes every PROCESSED record.
LEMMA RebuildAheadHolds ==
  ASSUME FullInv, pc = "build", NEW docs \in SUBSET Todo,
         NEW items \in Extractions(docs)
  PROVE  /\ RebuildAhead(items) \in [Docs -> Record]
         /\ \A d \in Docs : /\ Holds(d, RebuildAhead(items)[d], stored, indexed[d])
                            /\ RebuildAhead(items)[d].status # "processed"
                            /\ \/ RebuildAhead(items)[d] = registry[d]
                               \/ RebuildAhead(items)[d].status = "pending"
         /\ \A d \in Todo : RebuildAhead(items)[d] = Ahead(items)[d]
  <1>1. Running /\ ResetHolds
    BY FullRunning, PcFacts
  <1>2. /\ Ahead(items) \in [Docs -> Record]
        /\ \A d \in Docs : Holds(d, Ahead(items)[d], stored, indexed[d])
        /\ \A d \in Todo : Ahead(items)[d].status = "pending"
    BY <1>1, AheadHolds
  <1>3. \A d \in Dropped : d \in Docs /\ d \notin Todo
    BY <1>1, DocStatusAssumption DEF Dropped, ResetHolds, TodoRead
  <1>4. ASSUME NEW d \in Docs
        PROVE  /\ RebuildAhead(items)[d] \in Record
               /\ Holds(d, RebuildAhead(items)[d], stored, indexed[d])
               /\ RebuildAhead(items)[d].status # "processed"
               /\ \/ RebuildAhead(items)[d] = registry[d]
                  \/ RebuildAhead(items)[d].status = "pending"
    <2>1. registry[d] \in Record /\ Holds(d, registry[d], stored, indexed[d])
      BY <1>1 DEF Running, StoresHold
    <2>2. CASE d \in Dropped
      <3> DEFINE q == PendingRecord(registry[d], {})
      <3>1. /\ q \in Record /\ q.status = "pending"
            /\ q.text_unit_ids = registry[d].text_unit_ids \cup {}
        BY <2>1, PendingType
      <3>2. RebuildAhead(items)[d] = q
        BY <2>2 DEF RebuildAhead
      <3> HIDE DEF q
      <3> QED BY <2>1, <2>2, <3>1, <3>2 DEF Holds, HasRecord
    <2>3. CASE d \in Todo
      BY <1>2, <1>3, <2>3 DEF RebuildAhead
    <2>4. CASE d \notin Dropped /\ d \notin Todo
      <3>1. RebuildAhead(items)[d] = registry[d]
        BY <2>4 DEF RebuildAhead, Ahead
      <3>2. registry[d].status # "processed"
        BY <1>1, <2>4 DEF ResetHolds, Sorted, Dropped
      <3> QED BY <2>1, <3>1, <3>2
    <2> QED BY <2>2, <2>3, <2>4
  <1>5. RebuildAhead(items) \in [Docs -> Record]
    BY <1>4 DEF RebuildAhead
  <1>6. \A d \in Todo : RebuildAhead(items)[d] = Ahead(items)[d]
    BY <1>1, <1>3, TodoFacts DEF RebuildAhead, Running
  <1> QED BY <1>4, <1>5, <1>6

\* The records before the first write to a store.
LEMMA ResetWriteAheadInv == FullInv /\ ResetWriteAhead => FullInv'
  <1> SUFFICES ASSUME FullInv, ResetWriteAhead PROVE FullInv'
    OBVIOUS
  <1>1. pc = "build" /\ Running /\ ResetHolds
    BY FullRunning, PcFacts DEF ResetWriteAhead
  <1>2. PICK unproductive \in SUBSET Todo, failed \in SUBSET Todo,
             claims \in SUBSET Todo, counted \in SUBSET Todo :
          /\ IF unproductive \cup failed \cup claims = {} THEN NoFault ELSE Fault
          /\ outcome' = [NoOutcome EXCEPT !.unproductive = unproductive,
                                          !.failed = failed,
                                          !.counted = counted,
                                          !.claims = claims]
          /\ extracted' \in Extractions(Todo \ unproductive)
    BY ZenonT(60) DEF ResetWriteAhead, Extracted
  <1> DEFINE docs == Todo \ unproductive
  <1>3. /\ extracted' \subseteq Item \X Unit
        /\ \A p \in extracted' :
              /\ OwnerOf(p) \in docs
              /\ p[2] \in UnitsOf(OwnerOf(p), hashOf[OwnerOf(p)])
        /\ \A d \in docs : Text(d, hashOf[d]) \subseteq extracted'
    BY <1>1, <1>2, ExtractionsFacts
  <1>4. /\ RebuildAhead(extracted') \in [Docs -> Record]
        /\ \A d \in Docs :
              /\ Holds(d, RebuildAhead(extracted')[d], stored, indexed[d])
              /\ RebuildAhead(extracted')[d].status # "processed"
        /\ \A d \in Todo : RebuildAhead(extracted')[d] = Ahead(extracted')[d]
    BY <1>1, <1>2, RebuildAheadHolds
  <1>5. \A d \in Todo :
           /\ Ahead(extracted')[d].status = "pending"
           /\ Ahead(extracted')[d].text_unit_ids =
                 registry[d].text_unit_ids \cup Planned(extracted', d)
    BY <1>1, <1>2, AheadHolds
  <1>6. Todo' = Todo /\ Todo \subseteq Docs /\ extracted' # {}
    BY <1>1, TodoFacts
    DEF ResetWriteAhead, Todo, Substantial, ResetHolds, Sorted, Running
  <1>7. outcome' \in Outcome /\ outcome'.unproductive = unproductive
    BY <1>2, <1>6 DEF NoOutcome, Outcome
  <1>8. EnvTyped'
    BY <1>2, EnvKept DEF ResetWriteAhead, FullInv
  <1>9. StoresHold'
    BY <1>1, <1>4, RegistryWritten DEF ResetWriteAhead, Running
  <1>10. VarsTyped' /\ TodoRead'
    BY <1>1, <1>3, <1>6, <1>7
    DEF ResetWriteAhead, Running, StoresHold, Holds, VarsTyped, TodoRead
  <1>11. Unvouched'
    <2>1. Plan'
      <3>1. \A p \in extracted' : p[2] \in Planned(extracted', OwnerOf(p))
        BY DEF Planned, OwnerOf
      <3>2. \A p \in extracted' : p[2] \in registry'[OwnerOf(p)].text_unit_ids
        BY <1>3, <1>4, <1>5, <3>1 DEF ResetWriteAhead
      <3> QED BY <1>3, <1>6, <1>7, <3>2 DEF ResetWriteAhead, Plan
    <2> QED BY <1>4, <1>5, <1>6, <2>1 DEF ResetWriteAhead, Unvouched
  <1>12. Sorted' /\ Swapped' /\ Sweeping' /\ Clearing'
    <2>1. done' = {} /\ pc' = "rebuild"
      BY <1>1 DEF ResetWriteAhead, resetVars, ResetHolds, Sorted
    <2> QED BY <2>1 DEF Sorted, Swapped, Sweeping, Clearing
  <1> QED
    BY <1>8, <1>9, <1>10, <1>11, <1>12, PcFacts
    DEF ResetWriteAhead, resetVars, FullInv, ResetHolds, Repairable, Rebuilding

\* A reset that ends while it writes them.
LEMMA ResetWriteAheadCutInv == FullInv /\ ResetWriteAheadCut => FullInv'
  <1> SUFFICES ASSUME FullInv, ResetWriteAheadCut PROVE FullInv'
    OBVIOUS
  <1>1. PICK docs \in SUBSET Todo : \E items \in Extractions(docs) :
          WrittenInPart(RebuildAhead(items))
    BY DEF ResetWriteAheadCut
  <1>2. PICK items \in Extractions(docs) : WrittenInPart(RebuildAhead(items))
    BY <1>1
  <1>3. StoresHold'
    BY <1>2, RebuildAheadHolds, RegistryWritten DEF ResetWriteAheadCut, FullInv
  <1> QED BY <1>3, ResetEndsInv DEF ResetWriteAheadCut

\* The items of the stores' indexes.
LEMMA ItemsFacts ==
  /\ ItemsOf("units") = Unit
  /\ ItemsOf("vectors") = Entities \ GraphItems
  /\ ItemsOf("graph") = GraphItems
  /\ Item = Unit \cup ItemsOf("vectors") \cup GraphItems
  /\ Unit \cap Entities = {} /\ GraphItems \subseteq Entities
  /\ VectorTypes \subseteq {"units", "vectors"} /\ "units" \in VectorTypes
  /\ "vectors" \notin VectorTypes => ItemsOf("vectors") = {}
  BY FullBuildAssumption, IndexingAssumption DEF ItemsOf, Item, VectorTypes

\* A write of a rebuild stores what it extracted, whatever it takes away.
LEMMA RebuildStores ==
  ASSUME FullInv, pc \in Rebuilding, UNCHANGED <<registry, indexed>>,
         stored' \subseteq stored \cup extracted
  PROVE  StoresHold'
  <1>1. StoresHold /\ VarsTyped /\ Unvouched
    BY PcFacts DEF FullInv, ResetHolds
  <1>2. stored' \subseteq Item \X Unit
    BY <1>1 DEF StoresHold, VarsTyped
  <1>3. \A p \in extracted : p[2] \in registry[OwnerOf(p)].text_unit_ids
    BY <1>1 DEF Unvouched, Plan
  <1>4. ASSUME NEW d \in Docs
        PROVE  Holds(d, registry[d], stored', indexed[d])
    BY <1>1, <1>3 DEF StoresHold, Holds, Unvouched
  <1> QED BY <1>1, <1>2, <1>4 DEF StoresHold

\* What a step of a rebuild leaves as it is.
LEMMA RebuildKept ==
  ASSUME FullInv, pc \in Rebuilding, pc' \in Rebuilding,
         UNCHANGED <<registry, delta, hashOf, fingerprint, prior, extracted>>,
         outcome' \in Outcome, outcome'.unproductive = outcome.unproductive
  PROVE  VarsTyped' /\ TodoRead' /\ Sorted' /\ Unvouched' /\ Clearing'
  <1>1. VarsTyped /\ TodoRead /\ Unvouched /\ Todo' = Todo
    BY PcFacts DEF FullInv, ResetHolds, Todo
  <1>2. VarsTyped' /\ TodoRead'
    BY <1>1 DEF VarsTyped, TodoRead
  <1>3. Unvouched'
    BY <1>1 DEF Unvouched, Plan
  <1> QED BY <1>2, <1>3 DEF Sorted, Clearing, Rebuilding

\* The documents to blame are documents, and own what failed.
LEMMA BlamedFacts ==
  ASSUME FullInv, pc \in Rebuilding, NEW failures, NEW attributed \in BOOLEAN
  PROVE  /\ Blamed(failures, attributed) \subseteq Docs
         /\ \A p \in extracted : p[1] \in failures =>
               OwnerOf(p) \in Blamed(failures, attributed)
  <1>1. VarsTyped /\ Unvouched
    BY PcFacts DEF FullInv, ResetHolds
  <1>2. Todo \subseteq Docs
    BY <1>1, TodoFacts
  <1>3. OwnersOf(failures) \subseteq Docs
    BY <1>1 DEF OwnersOf, VarsTyped, Unit
  <1>4. \A p \in extracted : p[1] \in failures => OwnerOf(p) \in OwnersOf(failures)
    BY DEF OwnersOf, OwnerOf
  <1>5. \A p \in extracted : OwnerOf(p) \in Todo \ outcome.unproductive
    BY <1>1 DEF Unvouched, Plan
  <1> QED BY <1>2, <1>3, <1>4, <1>5 DEF Blamed

\* The swap of a vector index.
LEMMA SwapIndexInv ==
  ASSUME FullInv, NEW type \in VectorTypes, SwapIndex(type)
  PROVE  FullInv'
  <1>1. pc = "rebuild" /\ pc \in Rebuilding /\ pc' = pc /\ ResetHolds
    BY PcFacts DEF SwapIndex, Rebuilding, FullInv
  <1>a. PICK failures \in SUBSET Built(type) :
          \E applied \in SUBSET failures : \E attributed \in BOOLEAN :
          \E broken \in BOOLEAN : \E swapped \in BOOLEAN :
          LET holds == Built(type) = {} \/ failures # Built(type)
          IN  /\ failures = {} => attributed
              /\ IF broken THEN swapped => holds ELSE swapped = (Replaces /\ holds)
              /\ broken => Replaces
              /\ IF failures = {} /\ ~broken THEN NoFault ELSE Fault
              /\ stored' = IF swapped
                           THEN Replaced(ItemsOf(type),
                                         (Built(type) \ failures) \cup applied)
                           ELSE stored
              /\ outcome' = [outcome EXCEPT
                    !.recorded = /\ @
                                 /\ TypeSucceeded(Built(type), failures)
                                 /\ broken => /\ failures = {}
                                              /\ Built(type) # {}
                                              /\ MaxFailurePct = 100,
                    !.unwritten = @ \cup
                        Blamed(IF broken THEN Built(type) ELSE failures, attributed)]
    BY DEF SwapIndex
  <1>2. PICK applied \in SUBSET failures, attributed \in BOOLEAN,
             broken \in BOOLEAN, swapped \in BOOLEAN :
          LET holds == Built(type) = {} \/ failures # Built(type)
          IN  /\ failures = {} => attributed
              /\ IF broken THEN swapped => holds ELSE swapped = (Replaces /\ holds)
              /\ broken => Replaces
              /\ IF failures = {} /\ ~broken THEN NoFault ELSE Fault
              /\ stored' = IF swapped
                           THEN Replaced(ItemsOf(type),
                                         (Built(type) \ failures) \cup applied)
                           ELSE stored
              /\ outcome' = [outcome EXCEPT
                    !.recorded = /\ @
                                 /\ TypeSucceeded(Built(type), failures)
                                 /\ broken => /\ failures = {}
                                              /\ Built(type) # {}
                                              /\ MaxFailurePct = 100,
                    !.unwritten = @ \cup
                        Blamed(IF broken THEN Built(type) ELSE failures, attributed)]
    BY <1>a
  <1> DEFINE written == (Built(type) \ failures) \cup applied
             blamed == Blamed(IF broken THEN Built(type) ELSE failures, attributed)
             succeeded == /\ outcome.recorded
                          /\ TypeSucceeded(Built(type), failures)
                          /\ broken => /\ failures = {}
                                       /\ Built(type) # {}
                                       /\ MaxFailurePct = 100
             owners == outcome.unwritten \cup blamed
  <1>3. /\ written \subseteq Built(type) /\ Built(type) \subseteq ItemsOf(type)
        /\ Built(type) = ExtractedItems \cap ItemsOf(type)
    BY DEF Built
  <1>4. outcome' = [outcome EXCEPT !.recorded = succeeded, !.unwritten = owners]
    BY <1>2
  <1>5. blamed \subseteq Docs
        /\ \A p \in extracted : p[1] \in failures => OwnerOf(p) \in blamed
    BY <1>1, <1>2, BlamedFacts
  <1>6. succeeded \in BOOLEAN /\ outcome \in Outcome
    BY <1>1 DEF TypeSucceeded, ResetHolds, VarsTyped, Outcome
  <1>7. /\ outcome' \in Outcome
        /\ outcome'.unproductive = outcome.unproductive
        /\ outcome'.recorded = succeeded
        /\ outcome'.unwritten = owners
    <2> HIDE DEF blamed, succeeded
    <2> QED BY <1>4, <1>5, <1>6 DEF Outcome
  <1>8. stored' \in {stored, Replaced(ItemsOf(type), written)}
    BY <1>2
  <1>9. succeeded => stored' = Replaced(ItemsOf(type), written)
    <2>1. extracted # {}
      BY <1>1 DEF ResetHolds, Unvouched
    <2>2. succeeded => ~broken
      BY DEF FullInv, Repairable
    <2>3. TypeSucceeded(Built(type), failures) =>
             Built(type) = {} \/ failures # Built(type)
      BY DEF TypeSucceeded
    <2> QED BY <1>2, <2>1, <2>2, <2>3 DEF Replaces
  <1> HIDE DEF written, blamed, succeeded
  <1>10. EnvTyped'
    BY <1>2, EnvKept DEF SwapIndex, FullInv
  <1>11. StoresHold'
    BY <1>1, <1>8, RebuildStores DEF SwapIndex, Replaced
  <1>12. VarsTyped' /\ TodoRead' /\ Sorted' /\ Unvouched' /\ Clearing'
    BY <1>1, <1>7, RebuildKept DEF SwapIndex
  <1>13. Swapped'
    <2> SUFFICES ASSUME succeeded
                 PROVE  /\ \A t \in done' \cap VectorTypes : Wrote(ItemsOf(t))'
                        /\ "graph" \in done' => Wrote(Built("graph"))'
      BY <1>7 DEF Swapped
    <2>1. outcome.recorded /\ extracted' = extracted /\ done' = done \cup {type}
      BY DEF succeeded, SwapIndex
    <2>2. /\ \A t \in done \cap VectorTypes : Wrote(ItemsOf(t))
          /\ "graph" \in done => Wrote(Built("graph"))
      BY <1>1, <2>1 DEF ResetHolds, Swapped
    <2>3. \A p : p[1] \notin ItemsOf(type) => (p \in stored' <=> p \in stored)
      BY <1>3, <1>9 DEF Replaced
    <2>4. Wrote(ItemsOf(type))'
      <3>1. \A p \in stored' : p[1] \in ItemsOf(type) => p \in extracted
        BY <1>9 DEF Replaced
      <3>2. ASSUME NEW p \in extracted, p[1] \in ItemsOf(type)
            PROVE  p \in stored' \/ OwnerOf(p) \in owners
        <4>1. p[1] \in Built(type)
          BY <3>2 DEF Built, ExtractedItems
        <4>2. CASE p[1] \in failures
          BY <1>5, <4>2
        <4>3. CASE p[1] \notin failures
          BY <1>9, <4>1, <4>3 DEF Replaced, written
        <4> QED BY <4>2, <4>3
      <3> QED BY <1>7, <2>1, <3>1, <3>2 DEF Wrote
    <2>5. ASSUME NEW t \in done \cap VectorTypes, t # type
          PROVE  Wrote(ItemsOf(t))'
      <3>1. ItemsOf(t) \cap ItemsOf(type) = {}
        BY <2>5, ItemsFacts
      <3>2. Wrote(ItemsOf(t))
        BY <2>2
      <3> QED BY <1>7, <2>1, <2>3, <3>1, <3>2 DEF Wrote
    <2>6. "graph" \in done => Wrote(Built("graph"))'
      <3>1. Built("graph") \cap ItemsOf(type) = {} /\ Built("graph")' = Built("graph")
        BY <2>1, ItemsFacts DEF Built, ExtractedItems
      <3> SUFFICES ASSUME "graph" \in done PROVE Wrote(Built("graph"))'
        OBVIOUS
      <3>2. Wrote(Built("graph"))
        BY <2>2
      <3> HIDE DEF Built
      <3>3. /\ \A p \in stored' : p[1] \in Built("graph") => p \in extracted
            /\ \A p \in extracted : p[1] \in Built("graph") =>
                  p \in stored' \/ OwnerOf(p) \in owners
        BY <2>3, <3>1, <3>2 DEF Wrote
      <3> QED BY <1>7, <2>1, <3>1, <3>3 DEF Wrote
    <2>7. type # "graph"
      BY ItemsFacts
    <2> QED BY <2>1, <2>4, <2>5, <2>6, <2>7
  <1>14. Sweeping'
    BY <1>1 DEF Sweeping
  <1>15. done' \in SUBSET Done /\ UNCHANGED <<pc, resets>>
    BY ItemsFacts DEF SwapIndex, FullInv, Done
  <1> QED
    BY <1>1, <1>10, <1>11, <1>12, <1>13, <1>14, <1>15, PcFacts
    DEF FullInv, ResetHolds, Repairable

\* The write of the graph.
LEMMA WriteGraphInv == FullInv /\ WriteGraph => FullInv'
  <1> SUFFICES ASSUME FullInv, WriteGraph PROVE FullInv'
    OBVIOUS
  <1>1. pc = "rebuild" /\ pc \in Rebuilding /\ pc' = pc /\ ResetHolds
    BY PcFacts DEF WriteGraph, Rebuilding, FullInv
  <1>a. PICK failures \in SUBSET Built("graph") :
          \E applied \in SUBSET failures : \E attributed \in BOOLEAN :
          LET written == (Built("graph") \ failures) \cup applied
          IN  /\ failures = {} => attributed
              /\ IF failures = {} THEN NoFault ELSE Fault
              /\ stored' = Replaced(written, written)
              /\ outcome' = [outcome EXCEPT
                    !.recorded = @ /\ TypeSucceeded(Built("graph"), failures),
                    !.unwritten = @ \cup Blamed(failures, attributed)]
              /\ done' = done \cup {IF failures = {} THEN "graph" ELSE "kept"}
    BY DEF WriteGraph
  <1>2. PICK applied \in SUBSET failures, attributed \in BOOLEAN :
          LET written == (Built("graph") \ failures) \cup applied
          IN  /\ failures = {} => attributed
              /\ IF failures = {} THEN NoFault ELSE Fault
              /\ stored' = Replaced(written, written)
              /\ outcome' = [outcome EXCEPT
                    !.recorded = @ /\ TypeSucceeded(Built("graph"), failures),
                    !.unwritten = @ \cup Blamed(failures, attributed)]
              /\ done' = done \cup {IF failures = {} THEN "graph" ELSE "kept"}
    BY <1>a
  <1> DEFINE written == (Built("graph") \ failures) \cup applied
             succeeded == /\ outcome.recorded
                          /\ TypeSucceeded(Built("graph"), failures)
             owners == outcome.unwritten \cup Blamed(failures, attributed)
  <1>3. /\ written \subseteq Built("graph")
        /\ Built("graph") = ExtractedItems \cap GraphItems
        /\ failures = {} => written = Built("graph")
    BY ItemsFacts DEF Built
  <1>4. /\ stored' = Replaced(written, written)
        /\ outcome' = [outcome EXCEPT !.recorded = succeeded, !.unwritten = owners]
        /\ done' = done \cup {IF failures = {} THEN "graph" ELSE "kept"}
    BY <1>2
  <1>5. owners \subseteq Docs
    BY <1>1, BlamedFacts DEF ResetHolds, VarsTyped, Outcome
  <1>6. succeeded \in BOOLEAN /\ outcome \in Outcome
    BY <1>1 DEF TypeSucceeded, ResetHolds, VarsTyped, Outcome
  <1>7. /\ outcome' \in Outcome
        /\ outcome'.unproductive = outcome.unproductive
        /\ outcome'.recorded = succeeded
        /\ outcome'.unwritten = owners
    <2> HIDE DEF owners, succeeded
    <2> QED BY <1>4, <1>5, <1>6 DEF Outcome
  <1> HIDE DEF written
  <1>8. EnvTyped'
    BY <1>2, EnvKept DEF WriteGraph, FullInv
  <1>9. StoresHold'
    BY <1>1, <1>4, RebuildStores DEF WriteGraph, Replaced
  <1>10. VarsTyped' /\ TodoRead' /\ Sorted' /\ Unvouched' /\ Clearing'
    BY <1>1, <1>7, RebuildKept DEF WriteGraph
  <1>11. Swapped'
    <2> SUFFICES ASSUME succeeded
                 PROVE  /\ \A t \in done' \cap VectorTypes : Wrote(ItemsOf(t))'
                        /\ "graph" \in done' => Wrote(Built("graph"))'
      BY <1>7 DEF Swapped
    <2>1. outcome.recorded /\ extracted' = extracted
      BY DEF WriteGraph
    <2>2. \A t \in done \cap VectorTypes : Wrote(ItemsOf(t))
      BY <1>1, <2>1 DEF ResetHolds, Swapped
    <2>3. \A p : p[1] \notin GraphItems => (p \in stored' <=> p \in stored)
      BY <1>3, <1>4 DEF Replaced
    <2>4. ASSUME NEW t \in done' \cap VectorTypes
          PROVE  Wrote(ItemsOf(t))'
      <3>1. ItemsOf(t) \cap GraphItems = {} /\ t \in done
        BY <1>4, ItemsFacts
      <3>2. Wrote(ItemsOf(t))
        BY <2>2, <3>1
      <3> QED BY <1>7, <2>1, <2>3, <3>1, <3>2 DEF Wrote
    <2>5. ASSUME "graph" \in done' PROVE Wrote(Built("graph"))'
      <3>1. Built("graph")' = Built("graph")
        BY <2>1 DEF Built, ExtractedItems
      <3>2. written = Built("graph")
        BY <1>3, <1>4, <2>5 DEF WriteGraph
      <3> HIDE DEF Built
      <3>3. /\ \A p \in stored' : p[1] \in Built("graph") => p \in extracted
            /\ \A p \in extracted : p[1] \in Built("graph") => p \in stored'
        BY <1>4, <3>2 DEF Replaced
      <3> QED BY <2>1, <3>1, <3>3 DEF Wrote
    <2> QED BY <2>4, <2>5
  <1>12. Sweeping'
    BY <1>1 DEF Sweeping
  <1>13. done' \in SUBSET Done /\ UNCHANGED <<pc, resets>>
    BY <1>4 DEF WriteGraph, FullInv, Done
  <1> QED
    BY <1>1, <1>8, <1>9, <1>10, <1>11, <1>12, <1>13, PcFacts
    DEF FullInv, ResetHolds, Repairable

\* A reset that ends in it.
LEMMA WriteGraphCutInv == FullInv /\ WriteGraphCut => FullInv'
  <1> SUFFICES ASSUME FullInv, WriteGraphCut PROVE FullInv'
    OBVIOUS
  <1>1. stored' \subseteq stored \cup extracted
    BY DEF WriteGraphCut, Replaced
  <1>2. StoresHold'
    BY <1>1, RebuildStores DEF WriteGraphCut, Rebuilding
  <1> QED BY <1>2, ResetEndsInv DEF WriteGraphCut

\* The end of the phases that write side by side.
LEMMA EndPhasesInv == FullInv /\ EndPhases => FullInv'
  <1> SUFFICES ASSUME FullInv, EndPhases PROVE FullInv'
    OBVIOUS
  <1>1. /\ pc = "rebuild" /\ pc' = "sweep" /\ VectorTypes \subseteq done
        /\ ResetHolds
    BY PcFacts DEF EndPhases, Rebuilding, FullInv
  <1>2. UNCHANGED <<registry, stored, indexed, delta, hashOf, fingerprint,
                    prior, extracted, outcome, done, resets>>
    BY DEF EndPhases, runVars, resetVars
  <1>3. EnvTyped'
    BY EnvKept DEF EndPhases, FullInv, NoFault
  <1>4. StoresHold'
    BY <1>2 DEF FullInv, StoresHold
  <1>5. VarsTyped' /\ TodoRead' /\ Sorted' /\ Unvouched' /\ Clearing'
    BY <1>1, <1>2, RebuildKept DEF Rebuilding, ResetHolds, VarsTyped
  <1>6. Swapped' /\ Sweeping'
    <2>1. ExtractedItems' = ExtractedItems
      BY <1>2 DEF ExtractedItems
    <2> QED BY <1>1, <1>2, <2>1
        DEF ResetHolds, Rebuilding, Swapped, Wrote, Built, Sweeping
  <1> QED
    BY <1>1, <1>2, <1>3, <1>4, <1>5, <1>6, PcFacts
    DEF FullInv, ResetHolds, Repairable, Rebuilding

\* What the sweep takes was not extracted.
LEMMA StaleFacts ==
  /\ Stale \subseteq GraphItems
  /\ Stale \cap ExtractedItems = {}
  /\ \A p \in stored : p[1] \in GraphItems \ ExtractedItems /\ extracted # {} =>
        p[1] \in Stale
  BY DEF Stale, StoredItems, Replaces

\* The sweep of the previous graph.
LEMMA SweepInv == FullInv /\ Sweep => FullInv'
  <1> SUFFICES ASSUME FullInv, Sweep PROVE FullInv'
    OBVIOUS
  <1>1. pc = "sweep" /\ pc \in Rebuilding /\ pc' = "rerecord" /\ ResetHolds
    BY PcFacts DEF Sweep, Rebuilding, FullInv
  <1>2. PICK left \in SUBSET Stale, fails \in BOOLEAN :
          /\ "kept" \in done => left = Stale /\ ~fails
          /\ left # {} /\ "graph" \in done => fails
          /\ IF fails THEN Fault ELSE NoFault
          /\ stored' = {p \in stored : p[1] \in left \/ p[1] \notin Stale}
          /\ outcome' = [outcome EXCEPT !.recorded = @ /\ SweepSucceeded(fails)]
    BY DEF Sweep
  <1> DEFINE succeeded == outcome.recorded /\ SweepSucceeded(fails)
  <1>3. succeeded \in BOOLEAN /\ outcome \in Outcome
    BY <1>1 DEF SweepSucceeded, ResetHolds, VarsTyped, Outcome
  <1>4. outcome' = [outcome EXCEPT !.recorded = succeeded]
    BY <1>2
  <1>5. /\ outcome' \in Outcome
        /\ outcome'.unproductive = outcome.unproductive
        /\ outcome'.recorded = succeeded
        /\ outcome'.unwritten = outcome.unwritten
    <2> HIDE DEF succeeded
    <2> QED BY <1>3, <1>4 DEF Outcome
  <1>6. EnvTyped'
    BY <1>2, EnvKept DEF Sweep, FullInv
  <1>7. StoresHold'
    BY <1>1, <1>2, RebuildStores DEF Sweep
  <1>8. VarsTyped' /\ TodoRead' /\ Sorted' /\ Unvouched' /\ Clearing'
    BY <1>1, <1>5, RebuildKept DEF Sweep, Rebuilding
  <1>9. /\ extracted' = extracted /\ done' = done
        /\ ExtractedItems' = ExtractedItems /\ Built("graph")' = Built("graph")
    BY DEF Sweep, resetVars, ExtractedItems, Built
  <1>10. succeeded => /\ outcome.recorded /\ "graph" \in done
                      /\ stored' = {p \in stored : p[1] \notin Stale}
    BY <1>2 DEF SweepSucceeded
  <1>11. Swapped'
    <2> SUFFICES ASSUME succeeded
                 PROVE  /\ \A t \in done \cap VectorTypes : Wrote(ItemsOf(t))'
                        /\ Wrote(Built("graph"))'
      BY <1>5, <1>9 DEF Swapped
    <2>1. /\ \A t \in done \cap VectorTypes : Wrote(ItemsOf(t))
          /\ Wrote(Built("graph"))
      BY <1>1, <1>10 DEF ResetHolds, Swapped
    <2>2. /\ stored' \subseteq stored
          /\ \A p \in extracted : p \in stored => p \in stored'
      BY <1>10, StaleFacts DEF ExtractedItems
    <2>3. \A t \in done \cap VectorTypes : Wrote(ItemsOf(t))'
      BY <1>5, <1>9, <2>1, <2>2 DEF Wrote
    <2>4. Wrote(Built("graph"))'
      <3> HIDE DEF Built
      <3> QED BY <1>5, <1>9, <2>1, <2>2 DEF Wrote
    <2> QED BY <2>3, <2>4
  <1>12. Sweeping'
    <2>1. VectorTypes \subseteq done /\ extracted # {}
      BY <1>1 DEF ResetHolds, Sweeping, Unvouched
    <2>2. succeeded => \A p \in stored' : p[1] \in GraphItems => p[1] \in ExtractedItems
      BY <1>10, <2>1, StaleFacts
    <2> QED BY <1>1, <1>5, <1>9, <1>10, <2>1, <2>2 DEF Sweeping
  <1> QED
    BY <1>1, <1>6, <1>7, <1>8, <1>9, <1>11, <1>12, PcFacts
    DEF Sweep, resetVars, FullInv, ResetHolds, Repairable, Rebuilding

\* A reset that ends in it.
LEMMA SweepCutInv == FullInv /\ SweepCut => FullInv'
  <1> SUFFICES ASSUME FullInv, SweepCut PROVE FullInv'
    OBVIOUS
  <1>1. StoresHold'
    BY RebuildStores DEF SweepCut, Rebuilding
  <1> QED BY <1>1, ResetEndsInv DEF SweepCut

\* A rebuild that is recorded left in the stores what it extracted, or knows
\* whose writes failed.
LEMMA RebuildLanded ==
  ASSUME FullInv, pc = "rerecord", outcome.recorded
  PROVE  Landed /\ \A p \in stored : p \in extracted
  <1>1. ResetHolds /\ StoresHold /\ VarsTyped /\ pc \in Rebuilding
    BY PcFacts DEF FullInv, ResetHolds, Rebuilding
  <1>2. /\ \A t \in VectorTypes : Wrote(ItemsOf(t))
        /\ Wrote(Built("graph"))
        /\ \A p \in stored : p[1] \in GraphItems => p[1] \in Built("graph")
    BY <1>1, ItemsFacts DEF ResetHolds, Swapped, Sweeping, Built
  <1>3. \A p \in extracted : p[1] \in GraphItems => p[1] \in Built("graph")
    BY ItemsFacts DEF Built, ExtractedItems
  <1>4. /\ Wrote(Unit)
        /\ "vectors" \in VectorTypes => Wrote(ItemsOf("vectors"))
    BY <1>2, ItemsFacts
  <1>5. \A p \in stored \cup extracted : p[1] \in Unit \cup ItemsOf("vectors") \cup GraphItems
    BY <1>1, ItemsFacts DEF StoresHold, VarsTyped
  <1> HIDE DEF Built
  <1>6. ASSUME NEW p \in stored PROVE p \in extracted
    BY <1>2, <1>4, <1>5, ItemsFacts DEF Wrote
  <1>7. ASSUME NEW p \in extracted
        PROVE  p \in stored \/ OwnerOf(p) \in outcome.unwritten
    BY <1>2, <1>3, <1>4, <1>5, ItemsFacts DEF Wrote
  <1> QED BY <1>6, <1>7 DEF Landed

\* The records of a rebuild, and the end of one that is not recorded.
LEMMA ResetRecordInv == FullInv /\ (ResetRecord \/ ResetRecordCut) => FullInv'
  <1> SUFFICES ASSUME FullInv, ResetRecord \/ ResetRecordCut PROVE FullInv'
    OBVIOUS
  <1>1. /\ pc = "rerecord" /\ Running /\ ResetHolds
        /\ Plan /\ \A d \in Todo : registry[d].status = "pending"
    BY FullRunning, PcFacts
    DEF ResetRecord, ResetRecordCut, ResetHolds, Unvouched, Rebuilding
  <1>2. indexed' = Indexed /\ UNCHANGED stored
    BY DEF ResetRecord, ResetRecordCut
  <1>3. CASE ResetRecord /\ ~outcome.recorded
    <2>1. UNCHANGED <<registry, stored>> /\ ResetEnds
      BY <1>3 DEF ResetRecord
    <2>2. indexed' = indexed
      BY <1>1, <1>2, <2>1 DEF Indexed, Running, StoresHold
    <2>3. StoresHold'
      BY <1>1, <2>1, <2>2 DEF Running, StoresHold
    <2> QED BY <1>3, <2>1, <2>3, ResetEndsInv DEF ResetRecord, NoFault
  <1>4. CASE outcome.recorded
    <2>1. Landed /\ \A p \in stored : p \in extracted
      BY <1>1, <1>4, RebuildLanded
    <2>2. registry' = Recorded \/ WrittenInPart(Recorded)
      BY <1>4 DEF ResetRecord, ResetRecordCut
    <2>3. StoresHold'
      BY <1>1, <1>2, <2>1, <2>2, RecordingHolds DEF Indexed
    <2>4. CASE ResetRecordCut
      BY <2>3, <2>4, ResetEndsInv DEF ResetRecordCut
    <2>5. CASE ResetRecord
      <3>1. /\ registry' = Recorded /\ pc' = "clear"
            /\ UNCHANGED <<runVars, done, resets, corpus, settings, edits, faults>>
        BY <1>4, <2>5 DEF ResetRecord
      <3>2. EnvTyped'
        BY <3>1, EnvKept DEF FullInv, NoFault
      <3>3. VarsTyped' /\ TodoRead'
        BY <1>1, <3>1 DEF runVars, Running, VarsTyped, TodoRead, Todo
      <3>4. Clearing'
        <4> SUFFICES ASSUME NEW d \in Docs, hashOf[d] = Gone
                     PROVE  /\ registry'[d].status # "processed"
                            /\ \A p \in stored : OwnerOf(p) # d
          BY <1>2, <3>1 DEF runVars, Clearing
        <4>1. d \notin Todo
          BY <1>1, DocStatusAssumption DEF Running, TodoRead
        <4>2. registry'[d] = registry[d]
          BY <3>1, <4>1 DEF Recorded
        <4>3. registry[d].status # "processed"
          BY <1>1 DEF ResetHolds, Unvouched, Rebuilding
        <4>4. \A p \in stored : OwnerOf(p) \in Todo
          BY <1>1, <2>1 DEF Plan
        <4> QED BY <4>1, <4>2, <4>3, <4>4
      <3>5. Sorted' /\ Unvouched' /\ Swapped' /\ Sweeping'
        BY <3>1 DEF Sorted, Unvouched, Swapped, Sweeping, Rebuilding
      <3> QED
        BY <2>3, <3>1, <3>2, <3>3, <3>4, <3>5, PcFacts
        DEF FullInv, ResetHolds, Repairable
    <2> QED BY <2>4, <2>5
  <1> QED BY <1>3, <1>4 DEF ResetRecordCut

\* What clearing the registry writes.
LEMMA ClearedHolds ==
  ASSUME FullInv, pc = "clear"
  PROVE  /\ Cleared \in [Docs -> Record]
         /\ \A d \in Docs : Holds(d, Cleared[d], stored, indexed[d])
  <1>1. StoresHold /\ Clearing
    BY PcFacts DEF FullInv, ResetHolds
  <1>2. ASSUME NEW d \in Docs
        PROVE  Cleared[d] \in Record /\ Holds(d, Cleared[d], stored, indexed[d])
    <2>1. CASE hashOf[d] # Gone
      BY <1>1, <2>1 DEF Cleared, StoresHold
    <2>2. CASE hashOf[d] = Gone
      <3>1. Cleared[d] = NoRecord /\ \A p \in stored : OwnerOf(p) # d
        BY <1>1, <2>2 DEF Cleared, Clearing
      <3>2. NoRecord.text_unit_ids = {} /\ NoRecord.status = "none"
        BY DEF NoRecord
      <3> QED BY <3>1, <3>2, NoRecordType DEF Holds
    <2> QED BY <2>1, <2>2
  <1> QED BY <1>2 DEF Cleared

\* The records of the dropped documents go.
LEMMA ClearRegistryInv ==
  FullInv /\ (ClearRegistry \/ ClearRegistryCut) => FullInv'
  <1> SUFFICES ASSUME FullInv, ClearRegistry \/ ClearRegistryCut PROVE FullInv'
    OBVIOUS
  <1>1. StoresHold'
    BY ClearedHolds, RegistryWritten DEF ClearRegistry, ClearRegistryCut, FullInv
  <1> QED BY <1>1, ResetEndsInv DEF ClearRegistry, ClearRegistryCut, NoFault

\* A reset that is stopped, or dies.
LEMMA ResetStopInv == FullInv /\ ResetStop => FullInv'
  <1> SUFFICES ASSUME FullInv, ResetStop PROVE FullInv'
    OBVIOUS
  <1>1. StoresHold'
    BY DEF ResetStop, FullInv, StoresHold
  <1> QED BY <1>1, ResetEndsInv DEF ResetStop

\* Every step keeps the invariant.
LEMMA FullNextInv == FullInv /\ [FullNext]_allVars => FullInv'
  BY IncrementalStepInv, FullEnvironmentInv, ResetFilterInv, ResetWriteAheadInv,
     ResetWriteAheadCutInv, SwapIndexInv, WriteGraphInv, WriteGraphCutInv,
     EndPhasesInv, SweepInv, SweepCutInv, ResetRecordInv, ClearRegistryInv,
     ResetStopInv
  DEF FullNext, ResetStep, ResetFailure

\* The invariant holds in every state of every execution.
LEMMA FullInvariance == Repairable /\ FullSpec => []FullInv
  BY FullInitInv, FullNextInv, PTL DEF FullSpec

-----------------------------------------------------------------------------
(* The theorems.                                                           *)

\* Every variable keeps its type, in a run and in a reset: what a run that
\* broke off left is something the next one can read.
THEOREM FullTypeCorrect == Repairable /\ FullSpec => []FullTypeOK
  <1>1. FullInv => FullTypeOK
    <2> SUFFICES ASSUME FullInv PROVE FullTypeOK
      OBVIOUS
    <2>1. VarsTyped
      BY DEF FullInv, RunHolds, RunTyped, ResetHolds
    <2> QED BY <2>1 DEF FullInv, EnvTyped, StoresHold, VarsTyped, Delta, FullTypeOK
  <1> QED BY <1>1, FullInvariance, PTL

\* Whatever a run or a reset wrote before it broke off, the registry names
\* the text units of every stored item.
THEOREM NothingOrphanedByResets == Repairable /\ FullSpec => []NoOrphans
  <1>1. FullInv => NoOrphans
    <2> SUFFICES ASSUME FullInv, NEW p \in stored
                 PROVE  p[2] \in registry[p[2][1]].text_unit_ids
      BY DEF NoOrphans
    <2>1. p[2][1] \in Docs
      BY DEF FullInv, StoresHold, Unit
    <2> QED BY <2>1 DEF FullInv, StoresHold, Holds, OwnerOf
  <1> QED BY <1>1, FullInvariance, PTL

\* A document recorded PROCESSED, by a run or by a reset, is stored exactly
\* as it was extracted, until a later one takes its record first.
THEOREM ProcessedStaysExact == Repairable /\ FullSpec => []ProcessedExact
  <1>1. FullInv => ProcessedExact
    BY DEF FullInv, StoresHold, Holds, ProcessedExact, StoredOf, OwnerOf
  <1> QED BY <1>1, FullInvariance, PTL

-----------------------------------------------------------------------------
(* Runs and resets implement DocumentIndex.                                *)

\* The steps of a reset that write the registry.
LEMMA ResetRegistrySteps ==
  ASSUME FullInv,
         \/ ResetWriteAhead \/ ResetWriteAheadCut \/ ResetRecord
         \/ ResetRecordCut \/ ClearRegistry \/ ClearRegistryCut
  PROVE  Index!Next
  <1> SUFFICES ASSUME NEW d \in Docs
               PROVE  Moved(registry[d], registry'[d], StoredOf(d))
    BY RegistryStep
    DEF ResetWriteAhead, ResetWriteAheadCut, ResetRecord, ResetRecordCut,
        ClearRegistry, ClearRegistryCut
  <1>1. pc \in ResetSteps
    BY DEF ResetWriteAhead, ResetWriteAheadCut, ResetRecord, ResetRecordCut,
           ClearRegistry, ClearRegistryCut, ResetSteps
  <1>2. Running /\ ResetHolds /\ registry[d] \in Record
    BY <1>1, FullRunning DEF StoresHold
  <1>3. CASE ResetWriteAhead \/ ResetWriteAheadCut
    <2>1. PICK docs \in SUBSET Todo : \E items \in Extractions(docs) :
             registry'[d] \in {registry[d], RebuildAhead(items)[d]}
      BY <1>3 DEF ResetWriteAhead, ResetWriteAheadCut, Extracted, WrittenInPart
    <2>2. PICK items \in Extractions(docs) :
             registry'[d] \in {registry[d], RebuildAhead(items)[d]}
      BY <2>1
    <2>3. registry'[d] = registry[d] \/ registry'[d].status = "pending"
      BY <1>3, <2>2, RebuildAheadHolds DEF ResetWriteAhead, ResetWriteAheadCut
    <2> QED BY <2>3 DEF Moved, Dirty
  <1>4. CASE ResetRecord \/ ResetRecordCut
    <2>1. registry'[d] \in {registry[d], Recorded[d]} /\ pc = "rerecord"
      BY <1>4 DEF ResetRecord, ResetRecordCut, WrittenInPart
    <2>2. CASE d \notin Todo
      BY <2>1, <2>2 DEF Recorded, Moved
    <2>3. CASE d \in Todo
      <3>1. registry[d].status = "pending" /\ hashOf[d] \in Hashes
        BY <1>2, <2>1, <2>3 DEF ResetHolds, Unvouched, Rebuilding, TodoRead
      <3>2. UnproductiveAttempt(registry[d], hashOf[d]).status = "pending"
        BY <1>2, <3>1, UnproductiveType
      <3>3. ProcessedRecord(d).status \in {"failed", "processed"}
        BY <1>2, <2>3, ProcessedRecordType
      <3>4. Recorded[d] \in {UnproductiveAttempt(registry[d], hashOf[d]),
                             ProcessedRecord(d)}
        BY <2>3 DEF Recorded
      <3>5. registry'[d] = registry[d]
            \/ registry'[d].status \in {"pending", "failed", "processed"}
        BY <2>1, <3>2, <3>3, <3>4
      <3> QED BY <3>1, <3>5 DEF Moved, Dirty
    <2> QED BY <2>2, <2>3
  <1>5. CASE ClearRegistry \/ ClearRegistryCut
    <2>1. registry'[d] \in {registry[d], Cleared[d]} /\ pc = "clear"
      BY <1>5 DEF ClearRegistry, ClearRegistryCut, WrittenInPart
    <2>2. CASE hashOf[d] # Gone
      BY <2>1, <2>2 DEF Cleared, Moved
    <2>3. CASE hashOf[d] = Gone
      <3>1. registry[d].status # "processed" /\ StoredOf(d) = {}
        BY <1>2, <2>1, <2>3 DEF ResetHolds, Clearing, StoredOf, OwnerOf
      <3>2. Cleared[d] = NoRecord /\ NoRecord.status = "none"
        BY <2>3 DEF Cleared, NoRecord
      <3>3. registry[d].status \in {"none"} \cup Dirty
        BY <1>2, <3>1 DEF Record, Status, Dirty
      <3> QED BY <2>1, <3>1, <3>2, <3>3 DEF Moved
    <2> QED BY <2>2, <2>3
  <1> QED BY <1>3, <1>4, <1>5

\* The steps of a reset that write the stores.
LEMMA ResetStoreSteps ==
  ASSUME FullInv,
         \/ \E type \in VectorTypes : SwapIndex(type)
         \/ WriteGraph \/ WriteGraphCut \/ Sweep \/ SweepCut
  PROVE  Index!Next
  <1>1. /\ pc \in Rebuilding /\ UNCHANGED registry
        /\ stored' \subseteq stored \cup extracted
    <2>1. ASSUME NEW type \in VectorTypes, SwapIndex(type)
          PROVE  /\ pc = "rebuild" /\ UNCHANGED registry
                 /\ stored' \subseteq stored \cup extracted
      BY <2>1, ZenonT(60) DEF SwapIndex, Replaced
    <2>2. CASE WriteGraph \/ WriteGraphCut
      BY <2>2 DEF WriteGraph, WriteGraphCut, Replaced, Rebuilding
    <2>3. CASE Sweep \/ SweepCut
      BY <2>3 DEF Sweep, SweepCut, Rebuilding
    <2> QED BY <2>1, <2>2, <2>3 DEF Rebuilding
  <1>2. StoresHold /\ Unvouched
    BY <1>1, PcFacts DEF FullInv, ResetHolds
  <1>3. ASSUME NEW d \in Docs
        PROVE  \/ registry[d].status \in Dirty
               \/ {p \in stored' : p[2][1] = d} = StoredOf(d)
    <2>1. registry[d].status \in {"none"} \cup Dirty
      BY <1>1, <1>2 DEF StoresHold, Unvouched, Record, Status, Dirty
    <2>2. CASE registry[d].status = "none"
      <3>1. \A p \in stored : p[2][1] # d
        BY <1>2, <2>2 DEF StoresHold, Holds, HasRecord, OwnerOf
      <3>2. \A p \in extracted : p[2][1] # d
        BY <1>1, <1>2, <2>2 DEF Unvouched, Plan, OwnerOf
      <3> QED BY <1>1, <3>1, <3>2 DEF StoredOf
    <2> QED BY <2>1, <2>2
  <1> QED BY <1>1, <1>3, StoreStep

\* Every step, of a run or of a reset, is a step of the index.
LEMMA FullNextRefines == FullInv /\ [FullNext]_allVars => Index!Next
  <1> SUFFICES ASSUME FullInv, [FullNext]_allVars PROVE Index!Next
    OBVIOUS
  <1>1. CASE UNCHANGED <<registry, stored>>
    BY <1>1, RegistryStep DEF Moved
  <1>2. CASE IncrementalStep
    <2>1. Inv
      BY <1>2 DEF FullInv, Inv, IncrementalStep
    <2> QED BY <1>2, <2>1, NextRefines DEF IncrementalStep, Next
  <1>3. CASE ~UNCHANGED <<registry, stored>> /\ ~IncrementalStep
    <2>1. ~(Environment \/ ResetFilter \/ EndPhases \/ ResetStop \/ UNCHANGED allVars)
      BY <1>3
      DEF Environment, Edit, ChangeSettings, ResetFilter, EndPhases, ResetStop,
          allVars, vars
    <2> QED
      BY <1>3, <2>1, ResetRegistrySteps, ResetStoreSteps
      DEF FullNext, ResetStep, ResetFailure
  <1> QED BY <1>1, <1>2, <1>3

\* Runs and resets, with every failure they meet, implement the write-ahead
\* index: a reset too writes a document's items only while its record is
\* dirty, and drops a record only with nothing of the document stored.
THEOREM ResetsRefine == Repairable /\ FullSpec => ImplementsIndex
  <1>1. FullInit => Index!Init
    BY DEF FullInit, Init, Index!Init, Mode, Contents, HasRecord, NoRecord, StoredOf
  <1>2. FullInv /\ [FullNext]_allVars => [Index!Next]_(Index!vars)
    BY FullNextRefines
  <1> QED
    BY <1>1, <1>2, FullInvariance, PTL DEF FullSpec, ImplementsIndex, Index!Spec
=============================================================================
