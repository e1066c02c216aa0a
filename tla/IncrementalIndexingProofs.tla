--------------------- MODULE IncrementalIndexingProofs ---------------------
(***************************************************************************)
(* Proofs about module IncrementalIndexing, for every corpus, registry,    *)
(* limit and bound: the type invariant, NoOrphans, ProcessedExact, that    *)
(* the runs implement DocumentIndex, and OnlyCulprits.                     *)
(*                                                                         *)
(* None of these is inductive.  What carries them from one step of a run   *)
(* to the next is the conjunction Inv below: what the delta says of the    *)
(* documents, what the run has already put in the registry, and what the   *)
(* removal has already taken out of the stores.                            *)
(***************************************************************************)
EXTENDS IncrementalIndexing, FiniteSetTheorems, TLAPS

OwnerOf(p) == p[2][1]

Delta == [new: SUBSET Docs, changed: SUBSET Docs,
          deleted: SUBSET Docs, quarantined: SUBSET Docs]

-----------------------------------------------------------------------------
(* The inductive invariant.                                                *)

EnvTyped ==
    /\ corpus \in [Docs -> Hashes \cup {Gone}]
    /\ settings \in Settings
    /\ edits \in 0..MaxEdits
    /\ faults \in 0..MaxFaults

VarsTyped ==
    /\ delta \in Delta
    /\ hashOf \in [Docs -> Hashes \cup {Gone}]
    /\ fingerprint \in Settings \cup {None}
    /\ prior \in [Docs -> Record]
    /\ \A d \in Docs : prior[d].text_unit_ids \subseteq {d} \X Chunks
    /\ extracted \subseteq Item \X Unit
    /\ outcome \in Outcome

RunTyped == pc \in Steps /\ VarsTyped

\* The stores s hold of document d what its record r allows: nothing in a
\* text unit it does not name and, when it is PROCESSED, exactly c.
Holds(d, r, s, c) ==
    /\ r \in Record
    /\ r.text_unit_ids \subseteq {d} \X Chunks
    /\ ~HasRecord(r) => r.text_unit_ids = {}
    /\ \A p \in s : OwnerOf(p) = d => p[2] \in r.text_unit_ids
    /\ r.status = "processed" => /\ {p \in s : OwnerOf(p) = d} = c
                                 /\ Text(d, r.content_hash) \subseteq c

StoresHold ==
    /\ registry \in [Docs -> Record]
    /\ stored \subseteq Item \X Unit
    /\ indexed \in [Docs -> SUBSET (Item \X Unit)]
    /\ \A d \in Docs : Holds(d, registry[d], stored, indexed[d])

\* A document to process was read, and is not one to remove.
TodoRead == \A d \in Todo : hashOf[d] \in Hashes
DeltaSound ==
    /\ TodoRead
    /\ \A d \in Todo : d \notin delta.deleted /\ d \notin delta.quarantined

\* Nothing of a new document was ever written.
Fresh ==
    /\ pc = "open" => \A d \in delta.new : ~HasRecord(registry[d])
    /\ pc = "extract" => \A d \in delta.new : registry[d].text_unit_ids = {}
    /\ pc \in {"mark", "remove", "strip", "forget"} =>
          \A d \in delta.new : prior[d].text_unit_ids = {}

\* From the write-ahead on, the documents the run touches are PENDING.
Claimed ==
    /\ pc \in {"mark", "remove", "strip", "forget", "commit", "record"} =>
          \A d \in Todo : registry[d].status = "pending"
    /\ pc \in {"remove", "strip", "forget"} =>
          \A d \in delta.deleted : registry[d].status = "pending"

\* What the run will write is of its own documents, at the content it
\* diffed, in text units the registry already names.
Plan ==
    /\ \A p \in extracted :
          /\ OwnerOf(p) \in Todo \ outcome.unproductive
          /\ p[2] \in UnitsOf(OwnerOf(p), hashOf[OwnerOf(p)])
          /\ p[2] \in registry[OwnerOf(p)].text_unit_ids
    /\ \A d \in Todo \ outcome.unproductive : Text(d, hashOf[d]) \subseteq extracted
Planning ==
    pc \in {"mark", "remove", "strip", "forget", "commit", "record"} => Plan

\* Until the commit the stores hold nothing of the new versions; the
\* removal takes what they hold of the old ones.
Removing ==
    /\ pc \in {"mark", "remove", "strip", "forget"} =>
          \A p \in stored : OwnerOf(p) \in Todo =>
              p[2] \in prior[OwnerOf(p)].text_unit_ids
    /\ pc = "forget" => \A p \in stored : p[2] \notin ObsoleteUnits
    /\ pc = "commit" => \A p \in stored : OwnerOf(p) \notin Todo

\* After the commit a document's items are all stored, or its writes are
\* known to have failed.
Landed ==
    /\ \A p \in stored : OwnerOf(p) \in Todo => p \in extracted
    /\ \A p \in extracted : p \in stored \/ OwnerOf(p) \in outcome.unwritten
Written == pc = "record" => Landed

RunHolds ==
    /\ RunTyped /\ DeltaSound /\ Fresh /\ Claimed /\ Planning
    /\ Removing /\ Written

Inv == EnvTyped /\ StoresHold /\ RunHolds

\* What the lemmas about the records a run writes take from the invariant:
\* they hold of every kind of run.
Running == StoresHold /\ VarsTyped /\ TodoRead

-----------------------------------------------------------------------------
(* The records.                                                            *)

\* NoRecord is a record.
LEMMA NoRecordType == NoRecord \in Record
  BY DocStatusAssumption DEF NoRecord, Record, Status, Pending, None

\* The settled attempts of a record are counts.
LEMMA SettledType ==
  ASSUME NEW r \in Record, NEW h
  PROVE  SettledAttempts(r, h) \in [deaths: Nat, batch: Nat]
  BY DEF SettledAttempts, Record

\* Opening an attempt changes neither the status, the content nor the units.
LEMMA OpenedType ==
  ASSUME NEW r \in Record, NEW h \in Hashes, NEW b \in Nat
  PROVE  /\ OpenedAttempt(r, h, b) \in Record
         /\ OpenedAttempt(r, h, b).status = r.status
         /\ OpenedAttempt(r, h, b).content_hash = r.content_hash
         /\ OpenedAttempt(r, h, b).text_unit_ids = r.text_unit_ids
  <1> DEFINE s == SettledAttempts(r, h)
             f == IF h \in {r.content_hash, r.attempted_hash}
                  THEN r.failure_count ELSE 0
  <1>1. s.deaths \in Nat /\ s.batch \in Nat
    BY SettledType
  <1>2. f \in Nat
    BY DEF Record
  <1>3. OpenedAttempt(r, h, b) =
          [r EXCEPT !.attempt_count = s.deaths, !.crash_batch = s.batch,
                    !.attempted_hash = h, !.attempt_batch = b,
                    !.failure_count = f]
    BY DEF OpenedAttempt, Record
  <1> HIDE DEF s, f
  <1> QED BY <1>1, <1>2, <1>3 DEF Record

\* So does closing one.
LEMMA ClosedType ==
  ASSUME NEW r \in Record
  PROVE  /\ ClosedAttempt(r) \in Record
         /\ ClosedAttempt(r).status = r.status
         /\ ClosedAttempt(r).content_hash = r.content_hash
         /\ ClosedAttempt(r).text_unit_ids = r.text_unit_ids
  BY DEF ClosedAttempt, Record

\* So does counting an unproductive one.
LEMMA UnproductiveType ==
  ASSUME NEW r \in Record, NEW h \in Hashes
  PROVE  /\ UnproductiveAttempt(r, h) \in Record
         /\ UnproductiveAttempt(r, h).status = r.status
         /\ UnproductiveAttempt(r, h).content_hash = r.content_hash
         /\ UnproductiveAttempt(r, h).text_unit_ids = r.text_unit_ids
  <1> DEFINE n == (IF r.attempted_hash = h THEN r.attempt_count ELSE 0) + 1
             zero == 0
             one == 1
  <1>1. n \in Nat /\ zero \in Nat /\ one \in Nat
    BY DEF Record
  <1>2. UnproductiveAttempt(r, h) =
          [r EXCEPT !.attempt_count = n, !.crash_batch = one,
                    !.attempted_hash = h, !.attempt_batch = zero]
    BY DEF UnproductiveAttempt, Record
  <1> HIDE DEF n, zero, one
  <1>3. UnproductiveAttempt(r, h) \in Record
    BY <1>1, <1>2 DEF Record
  <1> QED BY <1>2, <1>3 DEF Record

\* The write-ahead record names the stored and the planned units.
LEMMA PendingType ==
  ASSUME NEW r \in Record, NEW planned \in SUBSET Unit
  PROVE  /\ PendingRecord(r, planned) \in Record
         /\ PendingRecord(r, planned).status = "pending"
         /\ PendingRecord(r, planned).text_unit_ids = r.text_unit_ids \cup planned
  BY DEF PendingRecord, Record, Status, Pending

\* A quarantined record keeps its units or names none.
LEMMA QuarantinedType ==
  ASSUME NEW r \in Record, NEW fp \in Settings \cup {None}, NEW kept \in BOOLEAN
  PROVE  /\ QuarantinedRecord(r, fp, kept) \in Record
         /\ QuarantinedRecord(r, fp, kept).status = "quarantined"
         /\ QuarantinedRecord(r, fp, kept).text_unit_ids =
               IF kept THEN r.text_unit_ids ELSE {}
  <1> DEFINE a == IF r.attempted_hash = None THEN r.content_hash
                  ELSE r.attempted_hash
             s == SettledAttempts(r, a)
             u == IF kept THEN r.text_unit_ids ELSE {}
             q == "quarantined"
             zero == 0
             no == FALSE
  <1>1. /\ a \in Hashes \cup {Pending}
        /\ u \in SUBSET Unit
        /\ q \in Status /\ zero \in Nat /\ no \in BOOLEAN
    BY DEF Record, Status
  <1>2. s.deaths \in Nat /\ s.batch \in Nat
    BY SettledType
  <1>3. QuarantinedRecord(r, fp, kept) =
          [r EXCEPT !.status = q, !.content_hash = a,
                    !.claims_missing = no, !.text_unit_ids = u,
                    !.attempt_count = s.deaths, !.crash_batch = s.batch,
                    !.attempt_batch = zero, !.extraction_fingerprint = fp]
    BY DEF QuarantinedRecord, Record
  <1> HIDE DEF a, s, u, q, zero, no
  <1>4. QuarantinedRecord(r, fp, kept) \in Record
    BY <1>1, <1>2, <1>3, ZenonT(60) DEF Record
  <1>5. /\ QuarantinedRecord(r, fp, kept).status = q
        /\ QuarantinedRecord(r, fp, kept).text_unit_ids = u
    BY <1>3 DEF Record
  <1> QED BY <1>4, <1>5 DEF q, u

\* A stage's failure keeps the units.
LEMMA ItemFailureType ==
  ASSUME NEW r \in Record, NEW h \in Hashes, NEW fp \in Settings \cup {None}
  PROVE  /\ ItemFailureRecord(r, h, fp) \in Record
         /\ ItemFailureRecord(r, h, fp).status = "failed"
         /\ ItemFailureRecord(r, h, fp).text_unit_ids = r.text_unit_ids
  <1> DEFINE n == (IF SameFailure(r, h, fp) THEN r.failure_count ELSE 0) + 1
             f == "failed"
             zero == 0
             no == FALSE
             none == None
  <1>1. /\ n \in Nat /\ zero \in Nat /\ no \in BOOLEAN
        /\ f \in Status /\ none \in Hashes \cup {None}
    BY DEF Record, Status
  <1>2. ItemFailureRecord(r, h, fp) =
          [r EXCEPT !.status = f, !.content_hash = h,
                    !.claims_missing = no, !.failure_count = n,
                    !.extraction_fingerprint = fp, !.attempt_count = zero,
                    !.attempted_hash = none, !.attempt_batch = zero,
                    !.crash_batch = zero]
    BY DEF ItemFailureRecord, Record
  <1> HIDE DEF n, f, zero, no, none
  <1>3. ItemFailureRecord(r, h, fp) \in Record
    BY <1>1, <1>2, ZenonT(60) DEF Record
  <1>4. /\ ItemFailureRecord(r, h, fp).status = f
        /\ ItemFailureRecord(r, h, fp).text_unit_ids = r.text_unit_ids
    BY <1>2 DEF Record
  <1> QED BY <1>3, <1>4 DEF f
-----------------------------------------------------------------------------
(* The delta.                                                              *)

\* What every step of the diff keeps true of the delta x it makes from the
\* registry reg and the hashes of the corpus.
Sound(x, reg, hash) ==
    /\ x \in Delta
    /\ \A d \in x.new : hash[d] \in Hashes /\ ~HasRecord(reg[d])
    /\ \A d \in x.changed : /\ hash[d] \in Hashes /\ HasRecord(reg[d])
                            /\ d \notin x.quarantined
    /\ \A d \in x.deleted : hash[d] = Gone
    /\ \A d \in x.quarantined : HasRecord(reg[d]) /\ hash[d] \in Hashes

\* The attempt plan quarantines changed documents or keeps a part of those
\* to process.
LEMMA PlanSound ==
  ASSUME NEW x, NEW reg, NEW hash, NEW limit,
         Sound(x, reg, hash), x.quarantined = {}
  PROVE  Sound(PlanAttempts(x, reg, hash, limit), reg, hash)
  <1> DEFINE settled(d) == SettledAttempts(reg[d], hash[d])
             suspects == {d \in x.changed : settled(d).deaths >= limit}
             alone == {d \in suspects : settled(d).batch = 1}
             before(e, d) ==
                 \/ settled(e).batch < settled(d).batch
                 \/ /\ settled(e).batch = settled(d).batch
                    /\ settled(e).deaths > settled(d).deaths
             group == {d \in suspects : \A e \in suspects : ~before(e, d)}
             batch == FirstHalf(group)
             others == x.changed \ alone
             newHalf == x.new \cap batch
             oldHalf == x.changed \cap batch
             apart == [x EXCEPT !.changed = others, !.quarantined = alone]
             half == [x EXCEPT !.new = newHalf, !.changed = oldHalf]
  <1>1. PlanAttempts(x, reg, hash, limit) =
          IF suspects = {} THEN x ELSE IF alone # {} THEN apart ELSE half
    BY DEF PlanAttempts
  <1>2. /\ alone \subseteq x.changed
        /\ others = x.changed \ alone
        /\ newHalf \subseteq x.new
        /\ oldHalf \subseteq x.changed
    OBVIOUS
  <1>a. x \in Delta /\ {alone, others, newHalf, oldHalf} \subseteq SUBSET Docs
    BY <1>2 DEF Sound, Delta
  <1> HIDE DEF suspects, alone, batch, others, newHalf, oldHalf
  <1>3. /\ apart \in Delta /\ apart.new = x.new /\ apart.changed = others
        /\ apart.deleted = x.deleted /\ apart.quarantined = alone
    BY <1>a DEF Delta
  <1>4. /\ half \in Delta /\ half.new = newHalf /\ half.changed = oldHalf
        /\ half.deleted = x.deleted /\ half.quarantined = x.quarantined
    BY <1>a DEF Delta
  <1> HIDE DEF apart, half
  <1>5. Sound(apart, reg, hash)
    BY <1>2, <1>3 DEF Sound, Delta
  <1>6. Sound(half, reg, hash)
    BY <1>2, <1>4 DEF Sound, Delta
  <1> QED BY <1>1, <1>5, <1>6

\* What detect_delta makes is sound.
LEMMA DetectSound ==
  ASSUME NEW reg \in [Docs -> Record], NEW hash \in [Docs -> Hashes \cup {Gone}],
         NEW unread \in SUBSET Docs, NEW fp, NEW limit
  PROVE  Sound(DetectDelta(reg, hash, unread, fp, limit), reg, hash)
  <1> DEFINE c == Classify(reg, hash, unread, fp)
             r == ReleaseQuarantined(c, reg, hash, unread, limit)
             p == PlanAttempts(r, reg, hash, limit)
             released == {d \in Docs \ unread :
                             /\ reg[d].status = "quarantined"
                             /\ reg[d].content_hash = hash[d]
                             /\ reg[d].attempt_count < limit}
             given == {d \in p.changed : ~Exhausted(reg[d], hash[d], fp)}
  <1>1. Sound(c, reg, hash) /\ c.quarantined = {}
    BY DEF Classify, Sound, Delta
  <1>2. r = [new |-> c.new, changed |-> c.changed \cup released,
             deleted |-> c.deleted, quarantined |-> c.quarantined]
    <2>1. r = [c EXCEPT !.changed = @ \cup released]
      BY DEF ReleaseQuarantined
    <2> HIDE DEF released, c, r
    <2> QED BY <1>1, <2>1 DEF Sound, Delta
  <1>3. released \subseteq Docs
        /\ \A d \in released : HasRecord(reg[d]) /\ hash[d] \in Hashes
    BY DocStatusAssumption DEF HasRecord, Record, Pending, Gone
  <1> HIDE DEF c, r, released
  <1>4. Sound(r, reg, hash) /\ r.quarantined = {}
    BY <1>1, <1>2, <1>3 DEF Sound, Delta
  <1>5. Sound(p, reg, hash)
    BY <1>4, PlanSound
  <1>6. DetectDelta(reg, hash, unread, fp, limit) = [p EXCEPT !.changed = given]
    BY DEF DetectDelta, StopRetryingExhausted, c, r
  <1>7. given \subseteq p.changed
    OBVIOUS
  <1> HIDE DEF p, given
  <1>8. [p EXCEPT !.changed = given] =
          [new |-> p.new, changed |-> given, deleted |-> p.deleted,
           quarantined |-> p.quarantined]
    BY <1>5 DEF Sound, Delta
  <1> QED BY <1>5, <1>6, <1>7, <1>8 DEF Sound, Delta
-----------------------------------------------------------------------------
(* Facts used by several steps.                                            *)

\* Documents to process are documents, and there are finitely many.
LEMMA TodoFacts ==
  ASSUME VarsTyped
  PROVE  Todo \subseteq Docs /\ Cardinality(Todo) \in Nat
  <1>1. Todo \subseteq Docs
    BY DEF RunTyped, VarsTyped, Delta, Todo, ToProcess
  <1>2. IsFiniteSet(Todo)
    BY <1>1, DocStatusAssumption, FS_Subset
  <1> QED BY <1>1, <1>2, FS_CardinalityType

\* The units of a version of a document's content.
LEMMA UnitsFacts ==
  ASSUME NEW d \in Docs, NEW h \in Hashes
  PROVE  UnitsOf(d, h) \subseteq {d} \X Chunks /\ UnitsOf(d, h) \subseteq Unit
  BY DocStatusAssumption DEF UnitsOf, Unit

\* A run in progress.
LEMMA InvRunning == Inv => Running /\ EnvTyped /\ StoresHold /\ VarsTyped
  BY DEF Inv, RunHolds, RunTyped, DeltaSound, Running

\* The steps of a run change the environment by their failures only.
LEMMA EnvKept ==
  ASSUME EnvTyped, UNCHANGED <<corpus, settings, edits>>, Fault \/ NoFault
  PROVE  EnvTyped'
  <1>1. faults' \in 0..MaxFaults
    BY IndexingAssumption DEF EnvTyped, Fault, NoFault
  <1> QED BY <1>1 DEF EnvTyped

\* A run that ends keeps nothing, or only what its closing needs.
LEMMA RunEnds ==
  ASSUME Inv, pc' \in {"close", "idle"}, UNCHANGED runVars \/ Forget
  PROVE  RunHolds'
  <1>1. RunTyped'
    <2>1. CASE UNCHANGED runVars
      BY <2>1 DEF Inv, RunHolds, RunTyped, VarsTyped, runVars, Steps
    <2>2. CASE Forget
      <3>1. NoDelta \in Delta /\ NoOutcome \in Outcome
        BY DEF NoDelta, Delta, NoOutcome, Outcome
      <3>2. [d \in Docs |-> NoRecord] \in [Docs -> Record]
        BY NoRecordType
      <3>3. NoRecord.text_unit_ids = {}
        BY DEF NoRecord
      <3> QED BY <2>2, <3>1, <3>2, <3>3 DEF Forget, RunTyped, VarsTyped, Steps
    <2> QED BY <2>1, <2>2
  <1>2. DeltaSound'
    BY DEF Inv, RunHolds, DeltaSound, TodoRead, runVars, Forget, Todo, ToProcess, NoDelta
  <1> QED BY <1>1, <1>2 DEF RunHolds, Fresh, Claimed, Planning, Plan, Removing, Written, Landed

\* A write of the registry that takes every record to one the stores allow,
\* whether all of it is done or a part of it.
LEMMA RegistryWritten ==
  ASSUME StoresHold, UNCHANGED <<stored, indexed>>,
         NEW next \in [Docs -> Record],
         \A d \in Docs : Holds(d, next[d], stored, indexed[d]),
         registry' = next \/ WrittenInPart(next)
  PROVE  StoresHold' /\ \A d \in Docs : registry'[d] \in {registry[d], next[d]}
  <1>1. registry' \in [Docs -> Record]
        /\ \A d \in Docs : registry'[d] \in {registry[d], next[d]}
    BY DEF WrittenInPart, StoresHold
  <1> QED BY <1>1 DEF StoresHold

-----------------------------------------------------------------------------
(* The steps of a run.                                                     *)

\* The initial states.
LEMMA InitInv == Init => Inv
  <1> SUFFICES ASSUME Init PROVE Inv
    OBVIOUS
  <1>1. EnvTyped
    BY IndexingAssumption DEF Init, EnvTyped
  <1>2. StoresHold
    <2>1. NoRecord.text_unit_ids = {} /\ NoRecord.status = "none"
      BY DEF NoRecord
    <2> QED BY <2>1, NoRecordType DEF Init, StoresHold, Holds, HasRecord
  <1>3. RunTyped
    <2>1. NoDelta \in Delta /\ NoOutcome \in Outcome
      BY DEF NoDelta, Delta, NoOutcome, Outcome
    <2>2. NoRecord.text_unit_ids = {}
      BY DEF NoRecord
    <2> QED BY <2>1, <2>2, NoRecordType DEF Init, RunTyped, VarsTyped, Steps
  <1>4. DeltaSound
    BY DEF Init, DeltaSound, TodoRead, Todo, ToProcess, NoDelta
  <1> QED
    BY <1>1, <1>2, <1>3, <1>4
    DEF Init, Inv, RunHolds, Fresh, Claimed, Planning, Plan, Removing, Written, Landed

\* The diff.
LEMMA FilterToDeltaInv == Inv /\ FilterToDelta => Inv'
  <1> SUFFICES ASSUME Inv, FilterToDelta PROVE Inv'
    OBVIOUS
  <1>1. PICK unread \in SUBSET {d \in Docs : corpus[d] # Gone}, limit \in Limits :
          /\ IF unread = {} THEN NoFault ELSE Fault
          /\ hashOf' = [d \in Docs |-> IF d \in unread THEN Gone ELSE corpus[d]]
          /\ delta' = DetectDelta(registry, hashOf', unread, settings, limit)
    BY DEF FilterToDelta
  <1>2. hashOf' \in [Docs -> Hashes \cup {Gone}]
    BY <1>1 DEF Inv, EnvTyped
  <1>3. Sound(delta', registry, hashOf')
    BY <1>1, <1>2, DetectSound DEF Inv, StoresHold
  <1>4. EnvTyped'
    BY <1>1, EnvKept, InvRunning DEF FilterToDelta
  <1>5. StoresHold'
    BY DEF FilterToDelta, Inv, StoresHold
  <1>6. RunTyped'
    BY <1>2, <1>3 DEF FilterToDelta, Inv, EnvTyped, RunHolds, RunTyped, VarsTyped, Sound, Steps
  <1>7. DeltaSound'
    BY <1>3, DocStatusAssumption DEF Sound, DeltaSound, TodoRead, Todo, ToProcess
  <1>8. Fresh'
    BY <1>3 DEF FilterToDelta, Fresh, Sound
  <1> QED
    BY <1>4, <1>5, <1>6, <1>7, <1>8
    DEF FilterToDelta, Inv, RunHolds, Claimed, Planning, Plan, Removing, Written, Landed
\* What OpenAttempts writes.
LEMMA OpenedHolds ==
  ASSUME Inv
  PROVE  /\ Opened \in [Docs -> Record]
         /\ \A d \in Docs : /\ Holds(d, Opened[d], stored, indexed[d])
                            /\ Opened[d].text_unit_ids = registry[d].text_unit_ids
                            /\ Opened[d].status \in {registry[d].status, "pending"}
  <1> SUFFICES ASSUME NEW d \in Docs
               PROVE  /\ Opened[d] \in Record
                      /\ Holds(d, Opened[d], stored, indexed[d])
                      /\ Opened[d].text_unit_ids = registry[d].text_unit_ids
                      /\ Opened[d].status \in {registry[d].status, "pending"}
    BY DEF Opened
  <1>1. registry[d] \in Record /\ Holds(d, registry[d], stored, indexed[d])
    BY DEF Inv, StoresHold
  <1>2. CASE d \notin Todo
    BY <1>1, <1>2 DEF Opened
  <1>3. CASE d \in Todo /\ HasRecord(registry[d])
    <2> DEFINE q == OpenedAttempt(registry[d], hashOf[d], Cardinality(Todo))
    <2>1. Opened[d] = q
      BY <1>3 DEF Opened
    <2>2. hashOf[d] \in Hashes /\ Cardinality(Todo) \in Nat
      BY <1>3, TodoFacts, InvRunning DEF Inv, RunHolds, DeltaSound, TodoRead
    <2>3. /\ q \in Record
          /\ q.status = registry[d].status
          /\ q.content_hash = registry[d].content_hash
          /\ q.text_unit_ids = registry[d].text_unit_ids
      BY <1>1, <2>2, OpenedType
    <2> HIDE DEF q
    <2> QED BY <1>1, <1>3, <2>1, <2>3 DEF Holds, HasRecord
  <1>4. CASE d \in Todo /\ ~HasRecord(registry[d])
    <2> DEFINE n == [NoRecord EXCEPT !.status = "pending"]
               q == OpenedAttempt(n, hashOf[d], Cardinality(Todo))
    <2>1. Opened[d] = q
      BY <1>4 DEF Opened
    <2>2. hashOf[d] \in Hashes /\ Cardinality(Todo) \in Nat
      BY <1>4, TodoFacts, InvRunning DEF Inv, RunHolds, DeltaSound, TodoRead
    <2>3. n \in Record /\ n.status = "pending" /\ n.text_unit_ids = {}
      BY DocStatusAssumption DEF NoRecord, Record, Status, Pending, None
    <2> HIDE DEF n
    <2>4. q \in Record /\ q.status = "pending" /\ q.text_unit_ids = {}
      BY <2>2, <2>3, OpenedType
    <2> HIDE DEF q
    <2>5. registry[d].text_unit_ids = {}
      BY <1>1, <1>4 DEF Holds
    <2> QED BY <1>1, <2>1, <2>4, <2>5 DEF Holds, HasRecord
  <1> QED BY <1>2, <1>3, <1>4

\* Opening the attempts.
LEMMA OpenAttemptsInv == Inv /\ OpenAttempts => Inv'
  <1> SUFFICES ASSUME Inv, OpenAttempts PROVE Inv'
    OBVIOUS
  <1>1. StoresHold'
    BY OpenedHolds, RegistryWritten, InvRunning DEF OpenAttempts
  <1>2. EnvTyped'
    BY EnvKept, InvRunning DEF OpenAttempts, NoFault
  <1>3. RunTyped' /\ DeltaSound'
    BY DEF OpenAttempts, runVars, Inv, RunHolds, RunTyped, VarsTyped, DeltaSound, TodoRead,
           Steps, Todo
  <1>4. Fresh'
    <2>1. \A d \in delta.new : d \in Docs /\ registry[d].text_unit_ids = {}
      BY DEF OpenAttempts, Inv, RunHolds, Fresh, RunTyped, VarsTyped, Delta, StoresHold, Holds
    <2> QED BY <2>1, OpenedHolds DEF OpenAttempts, runVars, Fresh
  <1> QED
    BY <1>1, <1>2, <1>3, <1>4
    DEF OpenAttempts, Inv, RunHolds, Claimed, Planning, Plan, Removing, Written, Landed

\* A run that ends while it opens them.
LEMMA OpenAttemptsCutInv == Inv /\ OpenAttemptsCut => Inv'
  <1> SUFFICES ASSUME Inv, OpenAttemptsCut PROVE Inv'
    OBVIOUS
  <1>1. StoresHold'
    BY OpenedHolds, RegistryWritten, InvRunning DEF OpenAttemptsCut
  <1>2. EnvTyped'
    BY EnvKept, InvRunning DEF OpenAttemptsCut
  <1>3. RunHolds'
    BY RunEnds DEF OpenAttemptsCut, Ends
  <1> QED BY <1>1, <1>2, <1>3 DEF Inv

\* A stage that fails.
LEMMA StageFailsInv == Inv /\ StageFails => Inv'
  <1> SUFFICES ASSUME Inv, StageFails PROVE Inv'
    OBVIOUS
  <1>1. PICK own \in SUBSET Todo : registry' =
          [d \in Docs |->
              IF d \in own
              THEN ItemFailureRecord(registry[d], hashOf[d], fingerprint)
              ELSE registry[d]]
    BY DEF StageFails
  <1>2. ASSUME NEW d \in Docs
        PROVE  registry'[d] \in Record /\ Holds(d, registry'[d], stored, indexed[d])
    <2>1. registry[d] \in Record /\ Holds(d, registry[d], stored, indexed[d])
      BY DEF Inv, StoresHold
    <2>2. CASE d \notin own
      BY <1>1, <2>1, <2>2
    <2>3. CASE d \in own
      <3> DEFINE q == ItemFailureRecord(registry[d], hashOf[d], fingerprint)
      <3>1. hashOf[d] \in Hashes /\ fingerprint \in Settings \cup {None}
        BY <2>3 DEF Inv, RunHolds, RunTyped, VarsTyped, DeltaSound, TodoRead
      <3>2. /\ q \in Record /\ q.status = "failed"
            /\ q.text_unit_ids = registry[d].text_unit_ids
        BY <2>1, <3>1, ItemFailureType
      <3>3. registry'[d] = q
        BY <1>1, <2>3
      <3> HIDE DEF q
      <3> QED BY <2>1, <3>2, <3>3 DEF Holds, HasRecord
    <2> QED BY <2>2, <2>3
  <1>3. registry' \in [Docs -> Record]
    BY <1>1, <1>2
  <1>4. StoresHold'
    BY <1>2, <1>3 DEF StageFails, Inv, StoresHold
  <1>5. EnvTyped'
    BY EnvKept, InvRunning DEF StageFails
  <1>6. RunHolds'
    BY RunEnds DEF StageFails
  <1> QED BY <1>4, <1>5, <1>6 DEF Inv
\* What the stages make of a set of documents.
LEMMA ExtractionsFacts ==
  ASSUME Running, NEW docs \in SUBSET Todo, NEW items \in Extractions(docs)
  PROVE  /\ items \subseteq Item \X Unit
         /\ \A p \in items : /\ OwnerOf(p) \in docs
                             /\ p[2] \in UnitsOf(OwnerOf(p), hashOf[OwnerOf(p)])
         /\ \A d \in docs : Text(d, hashOf[d]) \subseteq items
  <1> DEFINE units == UNION {UnitsOf(d, hashOf[d]) : d \in docs}
  <1>1. PICK said \in SUBSET (Entities \X units) :
          items = {<<u, u>> : u \in units} \cup said
    BY DEF Extractions
  <1>2. \A d \in docs : d \in Docs /\ hashOf[d] \in Hashes
    BY TodoFacts DEF Running, TodoRead
  <1>3. \A u \in units : /\ u \in Unit /\ u[1] \in docs
                         /\ u \in UnitsOf(u[1], hashOf[u[1]])
    BY <1>2, DocStatusAssumption DEF UnitsOf, Unit
  <1>4. \A d \in docs : UnitsOf(d, hashOf[d]) \subseteq units
    OBVIOUS
  <1> HIDE DEF units
  <1>5. \A p \in items : p \in Item \X Unit /\ p[2] \in units
    BY <1>1, <1>3 DEF Item
  <1> QED BY <1>1, <1>3, <1>4, <1>5 DEF OwnerOf, Text

\* What write_ahead writes.
LEMMA AheadHolds ==
  ASSUME Running, NEW docs \in SUBSET Todo, NEW items \in Extractions(docs)
  PROVE  /\ Ahead(items) \in [Docs -> Record]
         /\ \A d \in Docs : Holds(d, Ahead(items)[d], stored, indexed[d])
         /\ \A d \in Todo :
               /\ Ahead(items)[d].status = "pending"
               /\ Ahead(items)[d].text_unit_ids =
                     registry[d].text_unit_ids \cup Planned(items, d)
  <1>1. ASSUME NEW d \in Docs
        PROVE  /\ Ahead(items)[d] \in Record
               /\ Holds(d, Ahead(items)[d], stored, indexed[d])
               /\ d \in Todo =>
                     /\ Ahead(items)[d].status = "pending"
                     /\ Ahead(items)[d].text_unit_ids =
                           registry[d].text_unit_ids \cup Planned(items, d)
    <2>1. registry[d] \in Record /\ Holds(d, registry[d], stored, indexed[d])
      BY DEF Running, StoresHold
    <2>2. CASE d \notin Todo
      BY <2>1, <2>2 DEF Ahead
    <2>3. CASE d \in Todo
      <3> DEFINE q == PendingRecord(registry[d], Planned(items, d))
      <3>1. Planned(items, d) \subseteq {d} \X Chunks
        BY ExtractionsFacts DEF Planned, Unit
      <3>2. Planned(items, d) \in SUBSET Unit
        BY <3>1 DEF Unit
      <3>3. /\ q \in Record /\ q.status = "pending"
            /\ q.text_unit_ids = registry[d].text_unit_ids \cup Planned(items, d)
        BY <2>1, <3>2, PendingType
      <3>4. Ahead(items)[d] = q
        BY <2>3 DEF Ahead
      <3> HIDE DEF q
      <3> QED BY <2>1, <3>1, <3>3, <3>4 DEF Holds, HasRecord
    <2> QED BY <2>2, <2>3
  <1>2. Ahead(items) \in [Docs -> Record]
    BY <1>1 DEF Ahead
  <1> QED BY <1>1, <1>2, TodoFacts DEF Running

\* The write-ahead.
LEMMA WriteAheadInv == Inv /\ WriteAhead => Inv'
  <1> SUFFICES ASSUME Inv, WriteAhead PROVE Inv'
    OBVIOUS
  <1>1. PICK unproductive \in SUBSET Todo, failed \in SUBSET Todo,
             claims \in SUBSET Todo, counted \in SUBSET Todo :
          /\ IF unproductive \cup failed \cup claims = {} THEN NoFault ELSE Fault
          /\ outcome' = [NoOutcome EXCEPT !.unproductive = unproductive,
                                          !.failed = failed,
                                          !.counted = counted,
                                          !.claims = claims]
          /\ extracted' \in Extractions(Todo \ unproductive)
    BY ZenonT(60) DEF WriteAhead, Extracted
  <1> DEFINE docs == Todo \ unproductive
  <1>2. /\ extracted' \subseteq Item \X Unit
        /\ \A p \in extracted' :
              /\ OwnerOf(p) \in docs
              /\ p[2] \in UnitsOf(OwnerOf(p), hashOf[OwnerOf(p)])
        /\ \A d \in docs : Text(d, hashOf[d]) \subseteq extracted'
    BY <1>1, ExtractionsFacts, InvRunning
  <1>3. /\ Ahead(extracted') \in [Docs -> Record]
        /\ \A d \in Docs : Holds(d, Ahead(extracted')[d], stored, indexed[d])
        /\ \A d \in Todo :
              /\ Ahead(extracted')[d].status = "pending"
              /\ Ahead(extracted')[d].text_unit_ids =
                    registry[d].text_unit_ids \cup Planned(extracted', d)
    BY <1>1, AheadHolds, InvRunning
  <1>4. outcome' \in Outcome /\ outcome'.unproductive = unproductive
    BY <1>1, TodoFacts, InvRunning DEF NoOutcome, Outcome, Inv, RunHolds
  <1>5. Todo' = Todo
    BY DEF WriteAhead, Todo
  <1>6. EnvTyped'
    BY <1>1, EnvKept, InvRunning DEF WriteAhead
  <1>7. StoresHold'
    BY <1>3, RegistryWritten, InvRunning DEF WriteAhead
  <1>8. RunTyped'
    BY <1>2, <1>4 DEF WriteAhead, Inv, StoresHold, Holds, RunHolds, RunTyped, VarsTyped, Steps
  <1>9. DeltaSound'
    BY <1>5 DEF WriteAhead, Inv, RunHolds, DeltaSound, TodoRead
  <1>10. Fresh'
    BY DEF WriteAhead, Inv, RunHolds, Fresh
  <1>11. Claimed'
    BY <1>3, <1>5 DEF WriteAhead, Claimed
  <1>12. Planning'
    <2>1. \A p \in extracted' : p[2] \in Planned(extracted', OwnerOf(p))
      BY DEF Planned, OwnerOf
    <2>2. \A p \in extracted' : p[2] \in registry'[OwnerOf(p)].text_unit_ids
      BY <1>2, <1>3, <2>1 DEF WriteAhead
    <2> QED BY <1>2, <1>4, <1>5, <2>2 DEF WriteAhead, Planning, Plan
  <1>13. Removing'
    <2>1. \A p \in stored : OwnerOf(p) \in Docs
      BY DEF Inv, StoresHold, OwnerOf, Unit
    <2>2. \A p \in stored : p[2] \in registry[OwnerOf(p)].text_unit_ids
      BY <2>1 DEF Inv, StoresHold, Holds
    <2> QED BY <2>2 DEF WriteAhead, Removing
  <1>14. Written'
    BY DEF WriteAhead, Written, Landed
  <1> QED
    BY <1>6, <1>7, <1>8, <1>9, <1>10, <1>11, <1>12, <1>13, <1>14 DEF Inv, RunHolds

\* A run that ends while it writes ahead.
LEMMA WriteAheadCutInv == Inv /\ WriteAheadCut => Inv'
  <1> SUFFICES ASSUME Inv, WriteAheadCut PROVE Inv'
    OBVIOUS
  <1>a. PICK docs \in SUBSET Todo : \E items \in Extractions(docs) :
          WrittenInPart(Ahead(items))
    BY DEF WriteAheadCut
  <1>1. PICK items \in Extractions(docs) : WrittenInPart(Ahead(items))
    BY <1>a
  <1>2. StoresHold'
    BY <1>1, AheadHolds, RegistryWritten, InvRunning DEF WriteAheadCut
  <1>3. EnvTyped'
    BY EnvKept, InvRunning DEF WriteAheadCut
  <1>4. RunHolds'
    BY RunEnds DEF WriteAheadCut, Ends
  <1> QED BY <1>2, <1>3, <1>4 DEF Inv
\* What the marking of the deleted documents writes.
LEMMA MarkedHolds ==
  ASSUME Inv
  PROVE  /\ MarkedDeleted \in [Docs -> Record]
         /\ \A d \in Docs : /\ Holds(d, MarkedDeleted[d], stored, indexed[d])
                            /\ d \in delta.deleted => MarkedDeleted[d].status = "pending"
                            /\ d \notin delta.deleted => MarkedDeleted[d] = registry[d]
  <1>1. ASSUME NEW d \in Docs
        PROVE  /\ MarkedDeleted[d] \in Record
               /\ Holds(d, MarkedDeleted[d], stored, indexed[d])
               /\ d \in delta.deleted => MarkedDeleted[d].status = "pending"
               /\ d \notin delta.deleted => MarkedDeleted[d] = registry[d]
    <2>1. registry[d] \in Record /\ Holds(d, registry[d], stored, indexed[d])
      BY DEF Inv, StoresHold
    <2>2. CASE ~(d \in delta.deleted /\ registry[d].status # "pending")
      BY <2>1, <2>2 DEF MarkedDeleted
    <2>3. CASE d \in delta.deleted /\ registry[d].status # "pending"
      <3> DEFINE q == PendingRecord(registry[d], {})
      <3>1. /\ q \in Record /\ q.status = "pending"
            /\ q.text_unit_ids = registry[d].text_unit_ids \cup {}
        BY <2>1, PendingType
      <3>2. MarkedDeleted[d] = q
        BY <2>3 DEF MarkedDeleted
      <3> HIDE DEF q
      <3> QED BY <2>1, <2>3, <3>1, <3>2 DEF Holds, HasRecord
    <2> QED BY <2>2, <2>3
  <1> QED BY <1>1 DEF MarkedDeleted

\* Marking the deleted documents.
LEMMA MarkDeletedInv == Inv /\ MarkDeleted => Inv'
  <1> SUFFICES ASSUME Inv, MarkDeleted PROVE Inv'
    OBVIOUS
  <1>1. StoresHold'
    BY MarkedHolds, RegistryWritten, InvRunning DEF MarkDeleted
  <1>2. EnvTyped'
    BY EnvKept, InvRunning DEF MarkDeleted, NoFault
  <1>3. RunTyped' /\ DeltaSound' /\ Todo' = Todo
    BY DEF MarkDeleted, runVars, Inv, RunHolds, RunTyped, VarsTyped, DeltaSound, TodoRead, Steps, Todo
  <1>4. \A d \in Todo : d \in Docs /\ registry'[d] = registry[d]
    BY MarkedHolds, TodoFacts, InvRunning DEF MarkDeleted, Inv, RunHolds, DeltaSound, TodoRead
  <1>5. Fresh'
    BY DEF MarkDeleted, runVars, Inv, RunHolds, Fresh
  <1>6. Claimed'
    BY <1>3, <1>4, MarkedHolds
    DEF MarkDeleted, runVars, Inv, RunHolds, RunTyped, VarsTyped, Delta, Claimed
  <1>7. Planning'
    BY <1>3, <1>4 DEF MarkDeleted, runVars, Inv, RunHolds, Planning, Plan
  <1>8. Removing' /\ Written'
    BY <1>3 DEF MarkDeleted, runVars, Inv, RunHolds, Removing, Written, Landed
  <1> QED
    BY <1>1, <1>2, <1>3, <1>5, <1>6, <1>7, <1>8 DEF Inv, RunHolds

\* A run that ends while it marks them.
LEMMA MarkDeletedCutInv == Inv /\ MarkDeletedCut => Inv'
  <1> SUFFICES ASSUME Inv, MarkDeletedCut PROVE Inv'
    OBVIOUS
  <1>1. StoresHold'
    BY MarkedHolds, RegistryWritten, InvRunning DEF MarkDeletedCut
  <1>2. EnvTyped'
    BY EnvKept, InvRunning DEF MarkDeletedCut
  <1>3. RunHolds'
    BY RunEnds DEF MarkDeletedCut, Ends
  <1> QED BY <1>1, <1>2, <1>3 DEF Inv

\* A removed text unit belongs to a PENDING document.
LEMMA ObsoleteOwners ==
  ASSUME Inv, pc \in {"remove", "strip", "forget"}, NEW u \in ObsoleteUnits
  PROVE  u[1] \in Docs /\ registry[u[1]].status = "pending"
  <1>1. \/ \E d \in delta.changed : u \in prior[d].text_unit_ids
        \/ \E d \in delta.deleted \cup (delta.quarantined \ Kept) :
              u \in registry[d].text_unit_ids
    BY DEF ObsoleteUnits
  <1>2. CASE \E d \in delta.changed : u \in prior[d].text_unit_ids
    <2>1. PICK d \in delta.changed : u \in prior[d].text_unit_ids
      BY <1>2
    <2>2. d \in Docs /\ d \in Todo
      BY DEF Inv, RunHolds, RunTyped, VarsTyped, Delta, Todo, ToProcess
    <2>3. u[1] = d
      BY <2>1, <2>2 DEF Inv, RunHolds, RunTyped, VarsTyped
    <2> QED BY <2>2, <2>3 DEF Inv, RunHolds, Claimed
  <1>3. CASE \E d \in delta.deleted \cup (delta.quarantined \ Kept) :
                u \in registry[d].text_unit_ids
    <2>1. PICK d \in delta.deleted \cup (delta.quarantined \ Kept) :
             u \in registry[d].text_unit_ids
      BY <1>3
    <2>2. d \in Docs
      BY DEF Inv, RunHolds, RunTyped, VarsTyped, Delta
    <2>3. u[1] = d
      BY <2>1, <2>2 DEF Inv, StoresHold, Holds
    <2>4. registry[d].status = "pending"
      BY <2>1 DEF Inv, RunHolds, Claimed, Kept
    <2> QED BY <2>2, <2>3, <2>4
  <1> QED BY <1>1, <1>2, <1>3

\* A removal that takes only items of removed text units leaves the stores
\* as the registry says.
LEMMA RemovalHolds ==
  ASSUME Inv, pc \in {"remove", "strip"}, UNCHANGED <<registry, indexed>>,
         stored' \subseteq stored,
         \A p \in stored : p \in stored' \/ p[2] \in ObsoleteUnits
  PROVE  StoresHold'
  <1>1. ASSUME NEW d \in Docs
        PROVE  Holds(d, registry[d], stored', indexed[d])
    <2>1. Holds(d, registry[d], stored, indexed[d])
      BY DEF Inv, StoresHold
    <2>2. registry[d].status = "processed" =>
            {p \in stored' : OwnerOf(p) = d} = {p \in stored : OwnerOf(p) = d}
      BY ObsoleteOwners DEF OwnerOf
    <2> QED BY <2>1, <2>2 DEF Holds
  <1> QED BY <1>1 DEF Inv, StoresHold

\* What the removal does to the run's own state.
LEMMA RemovalRun ==
  ASSUME Inv, pc \in {"remove", "strip"}, UNCHANGED <<registry, runVars>>,
         stored' \subseteq stored,
         \/ pc' = "strip"
         \/ pc' = "forget" /\ \A p \in stored' : p[2] \notin ObsoleteUnits
         \/ RemovalFails
  PROVE  RunHolds'
  <1>1. pc' \in {"strip", "forget", "commit", "close"}
    BY DEF RemovalFails
  <1>2. RunTyped' /\ DeltaSound' /\ Todo' = Todo
    BY <1>1 DEF runVars, Inv, RunHolds, RunTyped, VarsTyped, DeltaSound, TodoRead, Steps, Todo
  <1>3. ObsoleteUnits' = ObsoleteUnits
    BY DEF runVars, ObsoleteUnits, Kept
  <1>4. Fresh' /\ Claimed' /\ Planning' /\ Written'
    BY <1>1, <1>2
    DEF runVars, Inv, RunHolds, Fresh, Claimed, Planning, Plan, Written, Landed
  <1>5. Removing'
    <2>1. pc' = "commit" => \A p \in stored' : OwnerOf(p) \notin Todo
      <3> SUFFICES ASSUME pc' = "commit", NEW p \in stored', OwnerOf(p) \in Todo
                   PROVE  FALSE
        OBVIOUS
      <3>1. delta.changed = {}
        BY DEF RemovalFails
      <3>2. OwnerOf(p) \in delta.new
        BY <3>1 DEF Todo, ToProcess
      <3> QED BY <3>2 DEF Inv, RunHolds, Removing, Fresh
    <2> QED
      BY <1>1, <1>2, <1>3, <2>1 DEF runVars, Inv, RunHolds, Removing, RemovalFails
  <1> QED BY <1>2, <1>4, <1>5 DEF RunHolds

\* The deletion of the items that cite nothing else.
LEMMA RemoveDoomedInv == Inv /\ RemoveDoomed => Inv'
  <1> SUFFICES ASSUME Inv, RemoveDoomed PROVE Inv'
    OBVIOUS
  <1>1. PICK left \in SUBSET Doomed, fails \in BOOLEAN :
          /\ stored' = {p \in stored : p[1] \in left \/ p[1] \notin Doomed}
          /\ IF fails THEN Fault /\ RemovalFails ELSE NoFault /\ pc' = "strip"
    BY DEF RemoveDoomed
  <1>2. \A p \in stored : p \in stored' \/ p[2] \in ObsoleteUnits
    BY <1>1 DEF Doomed, CitesOf
  <1>3. StoresHold'
    BY <1>1, <1>2, RemovalHolds DEF RemoveDoomed
  <1>4. EnvTyped'
    BY <1>1, EnvKept, InvRunning DEF RemoveDoomed
  <1>5. RunHolds'
    BY <1>1, RemovalRun DEF RemoveDoomed, runVars
  <1> QED BY <1>3, <1>4, <1>5 DEF Inv

\* The stripping of the shared ones.
LEMMA StripSharedInv == Inv /\ StripShared => Inv'
  <1> SUFFICES ASSUME Inv, StripShared PROVE Inv'
    OBVIOUS
  <1>1. PICK left \in SUBSET Shared, fails \in BOOLEAN :
          /\ left # {} => fails
          /\ stored' = {p \in stored : p[2] \notin ObsoleteUnits \/ p[1] \in left}
          /\ IF fails THEN Fault /\ RemovalFails ELSE NoFault /\ pc' = "forget"
    BY DEF StripShared
  <1>2. StoresHold'
    BY <1>1, RemovalHolds DEF StripShared
  <1>3. EnvTyped'
    BY <1>1, EnvKept, InvRunning DEF StripShared
  <1>4. RunHolds'
    BY <1>1, RemovalRun DEF StripShared, runVars
  <1> QED BY <1>2, <1>3, <1>4 DEF Inv

\* A run that ends in the removal.
LEMMA RemovalCutInv == Inv /\ RemovalCut => Inv'
  <1> SUFFICES ASSUME Inv, RemovalCut PROVE Inv'
    OBVIOUS
  <1>1. /\ stored' \subseteq stored
        /\ \A p \in stored : p \in stored' \/ p[2] \in ObsoleteUnits
    BY DEF RemovalCut, Doomed, CitesOf
  <1>2. StoresHold'
    BY <1>1, RemovalHolds DEF RemovalCut
  <1>3. EnvTyped'
    BY EnvKept, InvRunning DEF RemovalCut
  <1>4. RunHolds'
    BY RunEnds DEF RemovalCut, Ends
  <1> QED BY <1>2, <1>3, <1>4 DEF Inv
\* Once the removal is done the stores hold nothing of the documents it
\* was for.
LEMMA RemovedGone ==
  ASSUME Inv, pc = "forget", NEW p \in stored
  PROVE  /\ OwnerOf(p) \notin Todo
         /\ OwnerOf(p) \notin delta.deleted \cup (delta.quarantined \ Kept)
  <1>1. p[2] \notin ObsoleteUnits
    BY DEF Inv, RunHolds, Removing
  <1>2. OwnerOf(p) \in Docs /\ p[2] \in registry[OwnerOf(p)].text_unit_ids
    <2>1. OwnerOf(p) \in Docs
      BY DEF Inv, StoresHold, OwnerOf, Unit
    <2> QED BY <2>1 DEF Inv, StoresHold, Holds
  <1>3. OwnerOf(p) \notin delta.deleted \cup (delta.quarantined \ Kept)
    BY <1>1, <1>2 DEF ObsoleteUnits
  <1>4. OwnerOf(p) \notin delta.changed
    <2> SUFFICES ASSUME OwnerOf(p) \in delta.changed PROVE FALSE
      OBVIOUS
    <2>1. p[2] \in prior[OwnerOf(p)].text_unit_ids
      BY DEF Inv, RunHolds, Removing, Todo, ToProcess
    <2> QED BY <1>1, <2>1 DEF ObsoleteUnits
  <1>5. OwnerOf(p) \notin delta.new
    BY DEF Inv, RunHolds, Removing, Fresh, Todo, ToProcess
  <1> QED BY <1>3, <1>4, <1>5 DEF Todo, ToProcess

\* What the end of the removal writes.
LEMMA ForgottenHolds ==
  ASSUME Inv, pc = "forget"
  PROVE  /\ Forgotten \in [Docs -> Record]
         /\ \A d \in Docs : Holds(d, Forgotten[d], stored, indexed[d])
         /\ \A d \in Todo : Forgotten[d] = registry[d]
  <1>1. ASSUME NEW d \in Docs
        PROVE  Forgotten[d] \in Record /\ Holds(d, Forgotten[d], stored, indexed[d])
    <2>1. registry[d] \in Record /\ Holds(d, registry[d], stored, indexed[d])
      BY DEF Inv, StoresHold
    <2>2. CASE d \in delta.deleted
      <3>1. Forgotten[d] = NoRecord
        BY <2>2 DEF Forgotten
      <3>2. NoRecord.text_unit_ids = {} /\ NoRecord.status = "none"
        BY DEF NoRecord
      <3>3. \A p \in stored : OwnerOf(p) # d
        BY <2>2, RemovedGone
      <3> QED BY <3>1, <3>2, <3>3, NoRecordType DEF Holds
    <2>3. CASE d \notin delta.deleted /\ d \in delta.quarantined
      <3> DEFINE q == QuarantinedRecord(registry[d], fingerprint, d \in Kept)
      <3>1. (d \in Kept) \in BOOLEAN /\ fingerprint \in Settings \cup {None}
        BY DEF Inv, RunHolds, RunTyped, VarsTyped
      <3>2. /\ q \in Record /\ q.status = "quarantined"
            /\ q.text_unit_ids = IF d \in Kept THEN registry[d].text_unit_ids ELSE {}
        BY <2>1, <3>1, QuarantinedType, ZenonT(60)
      <3>3. Forgotten[d] = q
        BY <2>3 DEF Forgotten
      <3>4. d \notin Kept => \A p \in stored : OwnerOf(p) # d
        BY <2>3, RemovedGone
      <3> HIDE DEF q
      <3> QED BY <2>1, <3>2, <3>3, <3>4 DEF Holds, HasRecord
    <2>4. CASE d \notin delta.deleted /\ d \notin delta.quarantined
      BY <2>1, <2>4 DEF Forgotten
    <2> QED BY <2>2, <2>3, <2>4
  <1>2. \A d \in Todo : Forgotten[d] = registry[d]
    BY TodoFacts, InvRunning DEF Forgotten, Inv, RunHolds, DeltaSound, TodoRead
  <1> QED BY <1>1, <1>2 DEF Forgotten

\* The end of the removal.
LEMMA ForgetRemovedInv == Inv /\ ForgetRemoved => Inv'
  <1> SUFFICES ASSUME Inv, ForgetRemoved PROVE Inv'
    OBVIOUS
  <1>1. StoresHold'
    BY ForgottenHolds, RegistryWritten, InvRunning DEF ForgetRemoved
  <1>2. EnvTyped'
    BY EnvKept, InvRunning DEF ForgetRemoved, NoFault
  <1>3. RunTyped' /\ DeltaSound' /\ Todo' = Todo
    BY DEF ForgetRemoved, runVars, Inv, RunHolds, RunTyped, VarsTyped, DeltaSound, TodoRead,
           Steps, Todo
  <1>4. \A d \in Todo : registry'[d] = registry[d]
    BY ForgottenHolds DEF ForgetRemoved
  <1>5. Fresh' /\ Claimed' /\ Planning' /\ Written'
    BY <1>3, <1>4
    DEF ForgetRemoved, runVars, Inv, RunHolds, Fresh, Claimed, Planning, Plan, Written, Landed
  <1>6. Removing'
    BY <1>3, RemovedGone DEF ForgetRemoved, Removing
  <1> QED BY <1>1, <1>2, <1>3, <1>5, <1>6 DEF Inv, RunHolds

\* A run that ends while it writes that.
LEMMA ForgetRemovedCutInv == Inv /\ ForgetRemovedCut => Inv'
  <1> SUFFICES ASSUME Inv, ForgetRemovedCut PROVE Inv'
    OBVIOUS
  <1>1. StoresHold'
    BY ForgottenHolds, RegistryWritten, InvRunning DEF ForgetRemovedCut
  <1>2. EnvTyped'
    BY EnvKept, InvRunning DEF ForgetRemovedCut
  <1>3. RunHolds'
    BY RunEnds DEF ForgetRemovedCut, Ends
  <1> QED BY <1>1, <1>2, <1>3 DEF Inv

\* Writing items of the run's own documents.
LEMMA CommitHolds ==
  ASSUME Inv, pc = "commit", UNCHANGED <<registry, indexed>>,
         NEW items \in SUBSET extracted, stored' = stored \cup items
  PROVE  StoresHold'
  <1>1. stored' \subseteq Item \X Unit
    BY DEF Inv, StoresHold, RunHolds, RunTyped, VarsTyped
  <1>2. ASSUME NEW d \in Docs
        PROVE  Holds(d, registry[d], stored', indexed[d])
    <2>1. Holds(d, registry[d], stored, indexed[d])
      BY DEF Inv, StoresHold
    <2>2. \A p \in items : /\ registry[OwnerOf(p)].status = "pending"
                           /\ p[2] \in registry[OwnerOf(p)].text_unit_ids
      BY DEF Inv, RunHolds, Planning, Plan, Claimed
    <2>3. registry[d].status = "processed" =>
            {p \in stored' : OwnerOf(p) = d} = {p \in stored : OwnerOf(p) = d}
      BY <2>2
    <2> QED BY <2>1, <2>2, <2>3 DEF Holds
  <1> QED BY <1>1, <1>2 DEF Inv, StoresHold

\* The commit.
LEMMA CommitInv == Inv /\ Commit => Inv'
  <1> SUFFICES ASSUME Inv, Commit PROVE Inv'
    OBVIOUS
  <1>1. PICK failures \in SUBSET ExtractedItems :
          /\ IF failures = {} THEN NoFault ELSE Fault
          /\ \E applied \in SUBSET failures : \E attributed \in BOOLEAN :
                /\ stored' = stored \cup {p \in extracted : \/ p[1] \notin failures
                                                            \/ p[1] \in applied}
                /\ outcome' = [outcome EXCEPT
                      !.recorded = WritesSucceeded(failures),
                      !.unwritten = IF attributed THEN OwnersOf(failures)
                                    ELSE Todo \ outcome.unproductive]
    BY DEF Commit
  <1>2. PICK applied \in SUBSET failures, attributed \in BOOLEAN :
          /\ stored' = stored \cup {p \in extracted : \/ p[1] \notin failures
                                                      \/ p[1] \in applied}
          /\ outcome' = [outcome EXCEPT
                !.recorded = WritesSucceeded(failures),
                !.unwritten = IF attributed THEN OwnersOf(failures)
                              ELSE Todo \ outcome.unproductive]
    BY <1>1
  <1> DEFINE items == {p \in extracted : p[1] \notin failures \/ p[1] \in applied}
             owners == IF attributed THEN OwnersOf(failures)
                       ELSE Todo \ outcome.unproductive
             succeeded == WritesSucceeded(failures)
  <1>3. /\ items \in SUBSET extracted /\ stored' = stored \cup items
        /\ \A p \in extracted : p \in items \/ p[1] \in failures
        /\ outcome' = [outcome EXCEPT !.recorded = succeeded, !.unwritten = owners]
    BY <1>2
  <1>4. owners \subseteq Docs
    <2>1. \A p \in extracted : p[2][1] \in Docs
      BY DEF Inv, RunHolds, RunTyped, VarsTyped, Unit
    <2> QED BY <2>1, TodoFacts, InvRunning DEF OwnersOf, Inv, RunHolds
  <1>5. \A p \in extracted : p[1] \in failures => OwnerOf(p) \in owners
    BY DEF OwnersOf, OwnerOf, Inv, RunHolds, Planning, Plan, Commit
  <1>6. succeeded \in BOOLEAN
    BY DEF WritesSucceeded
  <1> HIDE DEF items, owners, succeeded
  <1>7. /\ outcome' \in Outcome /\ outcome'.unwritten = owners
        /\ outcome'.unproductive = outcome.unproductive
    BY <1>3, <1>4, <1>6 DEF Inv, RunHolds, RunTyped, VarsTyped, Outcome
  <1>8. StoresHold'
    BY <1>3, CommitHolds DEF Commit
  <1>9. EnvTyped'
    BY <1>1, EnvKept, InvRunning DEF Commit
  <1>10. RunTyped' /\ DeltaSound' /\ Todo' = Todo
    BY <1>7 DEF Commit, Inv, RunHolds, RunTyped, VarsTyped, DeltaSound, TodoRead, Steps, Todo
  <1>11. Fresh' /\ Claimed' /\ Planning' /\ Removing'
    BY <1>7, <1>10 DEF Commit, Inv, RunHolds, Fresh, Claimed, Planning, Plan, Removing
  <1>12. Written'
    BY <1>3, <1>5, <1>7, <1>10 DEF Commit, Inv, RunHolds, Removing, Written, Landed
  <1> QED BY <1>8, <1>9, <1>10, <1>11, <1>12 DEF Inv, RunHolds

\* A run that ends in the commit.
LEMMA CommitCutInv == Inv /\ CommitCut => Inv'
  <1> SUFFICES ASSUME Inv, CommitCut PROVE Inv'
    OBVIOUS
  <1>1. PICK applied \in SUBSET ExtractedItems :
          stored' = stored \cup {p \in extracted : p[1] \in applied}
    BY DEF CommitCut
  <1>2. StoresHold'
    BY <1>1, CommitHolds DEF CommitCut
  <1>3. EnvTyped'
    BY EnvKept, InvRunning DEF CommitCut
  <1>4. RunHolds'
    BY RunEnds DEF CommitCut, Ends
  <1> QED BY <1>2, <1>3, <1>4 DEF Inv
\* What a committed document is recorded as.
LEMMA ProcessedRecordType ==
  ASSUME Running, NEW d \in Todo
  PROVE  LET q == ProcessedRecord(d)
         IN  /\ q \in Record
             /\ q.status \in {"failed", "processed"}
             /\ q.status = "processed" => d \notin outcome.unwritten
             /\ q.content_hash = hashOf[d]
             /\ q.text_unit_ids = UnitsOf(d, hashOf[d])
  <1> DEFINE st == IF HasFailed(d) \/ ClaimsRetried(d) THEN "failed" ELSE "processed"
             m == ~HasFailed(d) /\ ClaimsRetried(d)
             n == IF ~HasFailed(d) THEN 0
                  ELSE (IF SameFailure(prior[d], hashOf[d], fingerprint)
                        THEN prior[d].failure_count ELSE 0)
                       + (IF d \in outcome.counted THEN 1 ELSE 0)
             u == UnitsOf(d, hashOf[d])
  <1>1. d \in Docs /\ hashOf[d] \in Hashes /\ fingerprint \in Settings \cup {None}
    BY TodoFacts DEF Running, VarsTyped, TodoRead
  <1>2. st \in Status /\ st \in {"failed", "processed"}
    BY DEF Status
  <1>3. m \in BOOLEAN
    BY DEF HasFailed, ClaimsRetried
  <1>4. n \in Nat
    BY <1>1 DEF Running, VarsTyped, Record
  <1>5. u \in SUBSET Unit
    BY <1>1, UnitsFacts
  <1>6. st = "processed" => d \notin outcome.unwritten
    BY DEF HasFailed
  <1>7. ProcessedRecord(d) =
          [NoRecord EXCEPT !.status = st, !.content_hash = hashOf[d],
                           !.claims_missing = m, !.failure_count = n,
                           !.extraction_fingerprint = fingerprint,
                           !.text_unit_ids = u]
    BY DEF ProcessedRecord
  <1> HIDE DEF st, m, n
  <1>8. ProcessedRecord(d) \in Record
    <2> HIDE DEF u
    <2> QED BY <1>1, <1>2, <1>3, <1>4, <1>5, <1>7, NoRecordType DEF Record
  <1>9. /\ ProcessedRecord(d).status = st
        /\ ProcessedRecord(d).content_hash = hashOf[d]
        /\ ProcessedRecord(d).text_unit_ids = u
    <2> HIDE DEF u
    <2> QED BY <1>7, NoRecordType DEF Record
  <1> QED BY <1>2, <1>6, <1>8, <1>9

\* What the run extracted of a document.
OwnExtracted(d) == {p \in extracted : OwnerOf(p) = d}

\* What recording the run writes.
LEMMA RecordedHolds ==
  ASSUME Running, Plan, Landed, \A d \in Todo : registry[d].status = "pending"
  PROVE  /\ Recorded \in [Docs -> Record]
         /\ \A d \in Docs : Recorded[d] # registry[d] =>
               Holds(d, Recorded[d], stored, OwnExtracted(d))
  <1>1. ASSUME NEW d \in Docs
        PROVE  /\ Recorded[d] \in Record
               /\ Recorded[d] # registry[d] =>
                     Holds(d, Recorded[d], stored, OwnExtracted(d))
    <2>1. registry[d] \in Record /\ Holds(d, registry[d], stored, indexed[d])
      BY DEF Running, StoresHold
    <2>2. CASE d \notin Todo
      BY <2>1, <2>2 DEF Recorded
    <2>3. CASE d \in Todo /\ d \in outcome.unproductive
      <3> DEFINE q == UnproductiveAttempt(registry[d], hashOf[d])
      <3>1. hashOf[d] \in Hashes /\ registry[d].status = "pending"
        BY <2>3 DEF Running, TodoRead
      <3>2. /\ q \in Record /\ q.status = "pending"
            /\ q.text_unit_ids = registry[d].text_unit_ids
        BY <2>1, <3>1, UnproductiveType
      <3>3. Recorded[d] = q
        BY <2>3 DEF Recorded
      <3> HIDE DEF q
      <3> QED BY <2>1, <3>2, <3>3 DEF Holds, HasRecord
    <2>4. CASE d \in Todo /\ d \notin outcome.unproductive
      <3> DEFINE q == ProcessedRecord(d)
                 h == hashOf[d]
      <3>1. /\ q \in Record
            /\ q.status \in {"failed", "processed"}
            /\ q.status = "processed" => d \notin outcome.unwritten
            /\ q.content_hash = h
            /\ q.text_unit_ids = UnitsOf(d, h)
        BY <2>4, ProcessedRecordType
      <3>2. Recorded[d] = q
        BY <2>4 DEF Recorded
      <3>3. h \in Hashes /\ UnitsOf(d, h) \subseteq {d} \X Chunks
        BY <2>4, UnitsFacts DEF Running, TodoRead
      <3>4. \A p \in stored : OwnerOf(p) = d => p \in extracted /\ p[2] \in UnitsOf(d, h)
        BY <2>4 DEF Running, Landed, Plan
      <3>5. d \notin outcome.unwritten =>
              {p \in stored : OwnerOf(p) = d} = OwnExtracted(d)
        BY <3>4 DEF Running, Landed, OwnExtracted
      <3>6. Text(d, h) \subseteq OwnExtracted(d)
        <4>1. Text(d, h) \subseteq extracted
          BY <2>4 DEF Running, Plan
        <4>2. \A p \in Text(d, h) : OwnerOf(p) = d
          BY DEF Text, UnitsOf, OwnerOf
        <4> QED BY <4>1, <4>2 DEF OwnExtracted
      <3> HIDE DEF q, h
      <3> QED BY <3>1, <3>2, <3>3, <3>4, <3>5, <3>6 DEF Holds, HasRecord
    <2> QED BY <2>2, <2>3, <2>4
  <1> QED BY <1>1 DEF Recorded

\* The registry and the contents after all or a part of it was written.
LEMMA RecordingHolds ==
  ASSUME Running, Plan, Landed, \A d \in Todo : registry[d].status = "pending",
         UNCHANGED stored,
         registry' = Recorded \/ registry' = registry \/ WrittenInPart(Recorded),
         indexed' = [d \in Docs |->
                        IF registry'[d] # registry[d]
                        THEN {p \in extracted : p[2][1] = d} ELSE indexed[d]]
  PROVE  StoresHold'
  <1>1. registry' \in [Docs -> Record]
        /\ \A d \in Docs : registry'[d] \in {registry[d], Recorded[d]}
    BY RecordedHolds DEF WrittenInPart, Running, StoresHold
  <1>2. indexed' \in [Docs -> SUBSET (Item \X Unit)]
    BY DEF Running, StoresHold, VarsTyped
  <1>3. ASSUME NEW d \in Docs
        PROVE  Holds(d, registry'[d], stored, indexed'[d])
    <2>1. CASE registry'[d] = registry[d]
      BY <2>1 DEF Running, StoresHold
    <2>2. CASE registry'[d] # registry[d]
      <3>1. indexed'[d] = OwnExtracted(d)
        BY <2>2 DEF OwnExtracted, OwnerOf
      <3> QED BY <1>1, <2>2, <3>1, RecordedHolds
    <2> QED BY <2>1, <2>2
  <1> QED BY <1>1, <1>2, <1>3 DEF Running, StoresHold

\* Recording the run's documents.
LEMMA RecordProcessedInv == Inv /\ RecordProcessed => Inv'
  <1> SUFFICES ASSUME Inv, RecordProcessed PROVE Inv'
    OBVIOUS
  <1>1. StoresHold'
    BY RecordingHolds, InvRunning DEF RecordProcessed,
       Inv, RunHolds, Claimed, Planning, Written
  <1>2. EnvTyped'
    BY EnvKept, InvRunning DEF RecordProcessed, NoFault
  <1>3. RunHolds'
    BY RunEnds DEF RecordProcessed
  <1> QED BY <1>1, <1>2, <1>3 DEF Inv

\* A run that ends while it records them.
LEMMA RecordProcessedCutInv == Inv /\ RecordProcessedCut => Inv'
  <1> SUFFICES ASSUME Inv, RecordProcessedCut PROVE Inv'
    OBVIOUS
  <1>1. StoresHold'
    BY RecordingHolds, InvRunning DEF RecordProcessedCut,
       Inv, RunHolds, Claimed, Planning, Written
  <1>2. EnvTyped'
    BY EnvKept, InvRunning DEF RecordProcessedCut
  <1>3. RunHolds'
    BY RunEnds DEF RecordProcessedCut, Ends
  <1> QED BY <1>1, <1>2, <1>3 DEF Inv

\* What closing the attempts writes.
LEMMA ClosedHolds ==
  ASSUME Inv
  PROVE  /\ Closed \in [Docs -> Record]
         /\ \A d \in Docs : /\ Holds(d, Closed[d], stored, indexed[d])
                            /\ Closed[d].status = registry[d].status
  <1>1. ASSUME NEW d \in Docs
        PROVE  /\ Closed[d] \in Record /\ Holds(d, Closed[d], stored, indexed[d])
               /\ Closed[d].status = registry[d].status
    <2>1. registry[d] \in Record /\ Holds(d, registry[d], stored, indexed[d])
      BY DEF Inv, StoresHold
    <2>2. Closed[d] \in {registry[d], ClosedAttempt(registry[d])}
      BY DEF Closed
    <2> QED BY <2>1, <2>2, ClosedType DEF Holds, HasRecord
  <1> QED BY <1>1 DEF Closed

\* Closing the attempts, in whole or in part.
LEMMA CloseAttemptsInv == Inv /\ (CloseAttempts \/ CloseAttemptsCut) => Inv'
  <1> SUFFICES ASSUME Inv, CloseAttempts \/ CloseAttemptsCut PROVE Inv'
    OBVIOUS
  <1>1. StoresHold'
    BY ClosedHolds, RegistryWritten, InvRunning DEF CloseAttempts, CloseAttemptsCut
  <1>2. EnvTyped'
    BY EnvKept, InvRunning DEF CloseAttempts, CloseAttemptsCut, NoFault
  <1>3. RunHolds'
    BY RunEnds DEF CloseAttempts, CloseAttemptsCut
  <1> QED BY <1>1, <1>2, <1>3 DEF Inv

\* A run that is stopped, or dies.
LEMMA StopDieInv == Inv /\ (Stop \/ Die) => Inv'
  <1> SUFFICES ASSUME Inv, Stop \/ Die PROVE Inv'
    OBVIOUS
  <1>1. StoresHold'
    BY DEF Stop, Die, Inv, StoresHold
  <1>2. EnvTyped'
    BY EnvKept, InvRunning DEF Stop, Die
  <1>3. RunHolds'
    BY RunEnds DEF Stop, Die
  <1> QED BY <1>1, <1>2, <1>3 DEF Inv

\* Edits, changes of the settings, and steps that change nothing.
LEMMA EnvironmentInv == Inv /\ (Edit \/ ChangeSettings \/ UNCHANGED vars) => Inv'
  <1> SUFFICES ASSUME Inv, Edit \/ ChangeSettings \/ UNCHANGED vars PROVE Inv'
    OBVIOUS
  <1>1. EnvTyped'
    BY IndexingAssumption DEF Edit, ChangeSettings, vars, Inv, EnvTyped
  <1>2. UNCHANGED <<registry, stored, indexed, pc, runVars>>
    BY DEF Edit, ChangeSettings, vars
  <1>3. StoresHold'
    BY <1>2 DEF Inv, StoresHold
  <1>4. RunTyped' /\ DeltaSound' /\ Todo' = Todo /\ ObsoleteUnits' = ObsoleteUnits
    BY <1>2
    DEF runVars, Inv, RunHolds, RunTyped, VarsTyped, DeltaSound, TodoRead, Todo, ObsoleteUnits, Kept
  <1>5. Fresh' /\ Claimed' /\ Planning' /\ Removing' /\ Written'
    BY <1>2, <1>4
    DEF runVars, Inv, RunHolds, Fresh, Claimed, Planning, Plan, Removing, Written, Landed
  <1> QED BY <1>1, <1>3, <1>4, <1>5 DEF Inv, RunHolds

\* Every step keeps the invariant.
LEMMA NextInv == Inv /\ [Next]_vars => Inv'
  BY FilterToDeltaInv, OpenAttemptsInv, OpenAttemptsCutInv, StageFailsInv,
     WriteAheadInv, WriteAheadCutInv, MarkDeletedInv, MarkDeletedCutInv,
     RemoveDoomedInv, StripSharedInv, RemovalCutInv, ForgetRemovedInv,
     ForgetRemovedCutInv, CommitInv, CommitCutInv, RecordProcessedInv,
     RecordProcessedCutInv, CloseAttemptsInv, StopDieInv, EnvironmentInv
  DEF Next, RunStep, Failure

\* The invariant holds in every state of every execution.
LEMMA Invariance == Spec => []Inv
  BY InitInv, NextInv, PTL DEF Spec

-----------------------------------------------------------------------------
(* The theorems.                                                           *)

\* Every variable keeps its type.
THEOREM TypeCorrect == Spec => []TypeOK
  <1>1. Inv => TypeOK
    BY DEF Inv, EnvTyped, StoresHold, RunHolds, RunTyped, VarsTyped, TypeOK, Delta
  <1> QED BY <1>1, Invariance, PTL

\* Whatever a run wrote before it broke off, the registry names the text
\* units of every stored item.
THEOREM NothingOrphaned == Spec => []NoOrphans
  <1>1. Inv => NoOrphans
    <2> SUFFICES ASSUME Inv, NEW p \in stored
                 PROVE  p[2] \in registry[p[2][1]].text_unit_ids
      BY DEF NoOrphans
    <2>1. p[2][1] \in Docs
      BY DEF Inv, StoresHold, Unit
    <2> QED BY <2>1 DEF Inv, StoresHold, Holds, OwnerOf
  <1> QED BY <1>1, Invariance, PTL

\* A document recorded PROCESSED is stored exactly as it was extracted.
THEOREM ProcessedIsExact == Spec => []ProcessedExact
  <1>1. Inv => ProcessedExact
    BY DEF Inv, StoresHold, Holds, ProcessedExact, StoredOf, OwnerOf
  <1> QED BY <1>1, Invariance, PTL
-----------------------------------------------------------------------------
(* The runs implement DocumentIndex.                                       *)

Dirty == {"pending", "failed", "quarantined"}

\* How a record may change while the stores hold s of its document.
Moved(r, q, s) ==
    \/ q.status = r.status
    \/ q.status \in Dirty
    \/ r.status \in Dirty /\ q.status = "processed"
    \/ r.status \in Dirty /\ q.status = "none" /\ s = {}

\* A write of the registry that moves records so is a step of the index.
LEMMA RegistryStep ==
  ASSUME UNCHANGED stored, \A d \in Docs : Moved(registry[d], registry'[d], StoredOf(d))
  PROVE  Index!Next
  <1> SUFFICES ASSUME NEW d \in Docs
               PROVE  \/ Index!Claim(d) \/ Index!Write(d) \/ Index!Vouch(d)
                      \/ Index!Drop(d) \/ Index!Rest(d)
    BY DEF Index!Next
  <1>1. /\ Contents[d] = StoredOf(d)
        /\ Contents'[d] = Contents[d]
    BY DEF Contents, StoredOf
  <1>2. /\ Mode[d] = IF ~HasRecord(registry[d]) THEN "absent"
                     ELSE IF registry[d].status = "processed" THEN "clean" ELSE "dirty"
        /\ Mode'[d] = IF ~HasRecord(registry'[d]) THEN "absent"
                      ELSE IF registry'[d].status = "processed" THEN "clean" ELSE "dirty"
    BY DEF Mode
  <1>3. Moved(registry[d], registry'[d], StoredOf(d))
    OBVIOUS
  <1> QED
    BY <1>1, <1>2, <1>3
    DEF Moved, Dirty, HasRecord, Index!Claim, Index!Vouch, Index!Drop, Index!Rest

\* So is a write of the stores that leaves alone what is not dirty.
LEMMA StoreStep ==
  ASSUME UNCHANGED registry,
         \A d \in Docs : \/ registry[d].status \in Dirty
                         \/ {p \in stored' : p[2][1] = d} = StoredOf(d)
  PROVE  Index!Next
  <1> SUFFICES ASSUME NEW d \in Docs
               PROVE  Index!Write(d) \/ Index!Rest(d)
    BY DEF Index!Next
  <1>1. /\ Contents[d] = StoredOf(d)
        /\ Contents'[d] = {p \in stored' : p[2][1] = d}
    BY DEF Contents, StoredOf
  <1>2. /\ Mode'[d] = Mode[d]
        /\ registry[d].status \in Dirty => Mode[d] = "dirty"
    BY DEF Mode, HasRecord, Dirty
  <1> QED BY <1>1, <1>2 DEF Index!Write, Index!Rest
\* The steps that write the registry.
LEMMA RegistryStepsMove ==
  ASSUME Inv,
         \/ OpenAttempts \/ OpenAttemptsCut \/ StageFails \/ WriteAhead
         \/ WriteAheadCut \/ MarkDeleted \/ MarkDeletedCut \/ ForgetRemoved
         \/ ForgetRemovedCut \/ RecordProcessed \/ RecordProcessedCut
         \/ CloseAttempts \/ CloseAttemptsCut
  PROVE  Index!Next
  <1> SUFFICES ASSUME NEW d \in Docs
               PROVE  Moved(registry[d], registry'[d], StoredOf(d))
    BY RegistryStep
    DEF OpenAttempts, OpenAttemptsCut, StageFails, WriteAhead, WriteAheadCut,
        MarkDeleted, MarkDeletedCut, ForgetRemoved, ForgetRemovedCut,
        RecordProcessed, RecordProcessedCut, CloseAttempts, CloseAttemptsCut
  <1>1. CASE OpenAttempts \/ OpenAttemptsCut
    <2>1. registry'[d] \in {registry[d], Opened[d]}
      BY <1>1 DEF OpenAttempts, OpenAttemptsCut, WrittenInPart
    <2> QED BY <2>1, OpenedHolds DEF Moved, Dirty
  <1>2. CASE StageFails
    <2>1. \/ registry'[d] = registry[d]
          \/ /\ d \in Todo
             /\ registry'[d] = ItemFailureRecord(registry[d], hashOf[d], fingerprint)
      BY <1>2 DEF StageFails
    <2>2. /\ registry[d] \in Record /\ fingerprint \in Settings \cup {None}
          /\ d \in Todo => hashOf[d] \in Hashes
      BY DEF Inv, StoresHold, RunHolds, RunTyped, VarsTyped, DeltaSound, TodoRead
    <2>3. registry'[d] = registry[d] \/ registry'[d].status = "failed"
      BY <2>1, <2>2, ItemFailureType
    <2> QED BY <2>3 DEF Moved, Dirty
  <1>3. CASE WriteAhead \/ WriteAheadCut
    <2>1. PICK items : registry'[d] \in {registry[d], Ahead(items)[d]}
      BY <1>3 DEF WriteAhead, WriteAheadCut, WrittenInPart
    <2>2. \/ registry'[d] = registry[d]
          \/ registry'[d] = PendingRecord(registry[d], Planned(items, d))
      BY <2>1 DEF Ahead
    <2>3. registry[d] \in Record
      BY DEF Inv, StoresHold
    <2>4. PendingRecord(registry[d], Planned(items, d)).status = "pending"
      BY <2>3 DEF PendingRecord, Record
    <2>5. registry'[d] = registry[d] \/ registry'[d].status = "pending"
      BY <2>2, <2>4
    <2> QED BY <2>5 DEF Moved, Dirty
  <1>4. CASE MarkDeleted \/ MarkDeletedCut
    <2>1. registry'[d] \in {registry[d], MarkedDeleted[d]}
      BY <1>4 DEF MarkDeleted, MarkDeletedCut, WrittenInPart
    <2> QED BY <2>1, MarkedHolds DEF Moved, Dirty
  <1>5. CASE ForgetRemoved \/ ForgetRemovedCut
    <2>1. registry'[d] \in {registry[d], Forgotten[d]} /\ pc = "forget"
      BY <1>5 DEF ForgetRemoved, ForgetRemovedCut, WrittenInPart
    <2>2. CASE d \in delta.deleted
      <3>1. registry[d].status = "pending"
        BY <2>1, <2>2 DEF Inv, RunHolds, Claimed
      <3>2. StoredOf(d) = {}
        BY <2>1, <2>2, RemovedGone DEF StoredOf, OwnerOf
      <3>3. Forgotten[d].status = "none"
        BY <2>2 DEF Forgotten, NoRecord
      <3> QED BY <2>1, <3>1, <3>2, <3>3 DEF Moved, Dirty
    <2>3. CASE d \notin delta.deleted /\ d \in delta.quarantined
      <3>1. /\ registry[d] \in Record /\ fingerprint \in Settings \cup {None}
            /\ (d \in Kept) \in BOOLEAN
        BY DEF Inv, StoresHold, RunHolds, RunTyped, VarsTyped
      <3>2. QuarantinedRecord(registry[d], fingerprint, d \in Kept).status = "quarantined"
        BY <3>1, QuarantinedType
      <3>3. Forgotten[d].status = "quarantined"
        BY <2>3, <3>2 DEF Forgotten
      <3> QED BY <2>1, <3>3 DEF Moved, Dirty
    <2>4. CASE d \notin delta.deleted /\ d \notin delta.quarantined
      BY <2>1, <2>4 DEF Forgotten, Moved
    <2> QED BY <2>2, <2>3, <2>4
  <1>6. CASE RecordProcessed \/ RecordProcessedCut
    <2>1. registry'[d] \in {registry[d], Recorded[d]} /\ pc = "record"
      BY <1>6 DEF RecordProcessed, RecordProcessedCut, WrittenInPart
    <2>2. CASE d \notin Todo
      BY <2>1, <2>2 DEF Recorded, Moved
    <2>3. CASE d \in Todo
      <3>1. /\ registry[d] \in Record /\ registry[d].status = "pending"
            /\ hashOf[d] \in Hashes
        BY <2>1, <2>3 DEF Inv, StoresHold, RunHolds, Claimed, DeltaSound, TodoRead
      <3>2. UnproductiveAttempt(registry[d], hashOf[d]).status = "pending"
        BY <3>1, UnproductiveType
      <3>3. ProcessedRecord(d).status \in {"failed", "processed"}
        BY <2>3, ProcessedRecordType, InvRunning
      <3>4. Recorded[d] \in {UnproductiveAttempt(registry[d], hashOf[d]),
                             ProcessedRecord(d)}
        BY <2>3 DEF Recorded
      <3>5. registry'[d] = registry[d]
            \/ registry'[d].status \in {"pending", "failed", "processed"}
        BY <2>1, <3>2, <3>3, <3>4
      <3> QED BY <3>1, <3>5 DEF Moved, Dirty
    <2> QED BY <2>2, <2>3
  <1>7. CASE CloseAttempts \/ CloseAttemptsCut
    <2>1. registry'[d] \in {registry[d], Closed[d]}
      BY <1>7 DEF CloseAttempts, CloseAttemptsCut, WrittenInPart
    <2> QED BY <2>1, ClosedHolds DEF Moved
  <1> QED BY <1>1, <1>2, <1>3, <1>4, <1>5, <1>6, <1>7

\* The steps that write the stores.
LEMMA StoreStepsWrite ==
  ASSUME Inv,
         \/ RemoveDoomed \/ StripShared \/ RemovalCut \/ Commit \/ CommitCut
  PROVE  Index!Next
  <1>1. CASE RemoveDoomed \/ StripShared \/ RemovalCut
    <2>1. /\ pc \in {"remove", "strip"} /\ UNCHANGED registry
          /\ stored' \subseteq stored
          /\ \A p \in stored : p \in stored' \/ p[2] \in ObsoleteUnits
      BY <1>1 DEF RemoveDoomed, StripShared, RemovalCut, Doomed, CitesOf
    <2>2. ASSUME NEW d \in Docs
          PROVE  \/ registry[d].status = "pending"
                 \/ {p \in stored' : p[2][1] = d} = StoredOf(d)
      <3>1. \A u \in ObsoleteUnits : u[1] = d => registry[d].status = "pending"
        BY <2>1, ObsoleteOwners
      <3> QED BY <2>1, <3>1 DEF StoredOf
    <2> QED BY <2>1, <2>2, StoreStep DEF Dirty
  <1>2. CASE Commit \/ CommitCut
    <2>1. /\ pc = "commit" /\ UNCHANGED registry
          /\ \E items \in SUBSET extracted : stored' = stored \cup items
      <3>1. CASE Commit
        <4>1. PICK failures \in SUBSET ExtractedItems :
                \E applied \in SUBSET failures :
                   stored' = stored \cup {p \in extracted : \/ p[1] \notin failures
                                                            \/ p[1] \in applied}
          BY <3>1 DEF Commit
        <4> QED BY <3>1, <4>1 DEF Commit
      <3>2. CASE CommitCut
        BY <3>2 DEF CommitCut
      <3> QED BY <1>2, <3>1, <3>2
    <2>2. PICK items \in SUBSET extracted : stored' = stored \cup items
      BY <2>1
    <2>3. \A p \in items : registry[p[2][1]].status = "pending"
      BY <2>1 DEF Inv, RunHolds, Planning, Plan, Claimed, OwnerOf
    <2>4. \A d \in Docs : \/ registry[d].status = "pending"
                          \/ {p \in stored' : p[2][1] = d} = StoredOf(d)
      BY <2>2, <2>3 DEF StoredOf
    <2> QED BY <2>1, <2>4, StoreStep DEF Dirty
  <1> QED BY <1>1, <1>2

\* Every step of a run is a step of the index.
LEMMA NextRefines == Inv /\ [Next]_vars => Index!Next
  <1> SUFFICES ASSUME Inv, [Next]_vars PROVE Index!Next
    OBVIOUS
  <1>1. CASE UNCHANGED <<registry, stored>>
    BY <1>1, RegistryStep DEF Moved
  <1>2. CASE ~UNCHANGED <<registry, stored>>
    <2>1. ~(FilterToDelta \/ Stop \/ Die \/ Edit \/ ChangeSettings \/ UNCHANGED vars)
      BY <1>2 DEF FilterToDelta, Stop, Die, Edit, ChangeSettings, vars
    <2> QED
      BY <2>1, RegistryStepsMove, StoreStepsWrite DEF Next, RunStep, Failure
  <1> QED BY <1>1, <1>2

\* The runs, with every failure they meet, implement the write-ahead index:
\* a store write touches only documents the registry shows dirty, and a
\* document leaves the registry only with nothing of it stored.
THEOREM Refinement == Spec => ImplementsIndex
  <1>1. Init => Index!Init
    BY DEF Init, Index!Init, Mode, Contents, HasRecord, NoRecord, StoredOf
  <1>2. Inv /\ [Next]_vars => [Index!Next]_(Index!vars)
    BY NextRefines
  <1> QED BY <1>1, <1>2, Invariance, PTL DEF Spec, ImplementsIndex, Index!Spec

-----------------------------------------------------------------------------
(* Only culprits are quarantined.                                          *)
(*                                                                         *)
(* OnlyCulprits is not inductive either: whom the next run quarantines     *)
(* depends on the size of the batch that an attempt was opened in, several *)
(* runs ago and perhaps by a run that died.  Innocent below says that an   *)
(* attempt on a batch of one document is only ever left open, or settled   *)
(* as a death, by content that kills.                                      *)

\* A document's record holds its deaths alone, and its quarantine, against
\* content that kills.
Convicted(d, r) ==
    /\ r.crash_batch = 1 => <<d, r.attempted_hash>> \in Killers
    /\ r.status = "quarantined" => <<d, r.content_hash>> \in Killers

\* So does an attempt on it alone that a run left open.
Caught(d, r) == r.attempt_batch = 1 => <<d, r.attempted_hash>> \in Killers

\* An attempt the run itself has open: at the content and the batch it has.
Ours(d, r) ==
    r.attempt_batch # 0 => /\ r.attempted_hash = hashOf[d]
                           /\ r.attempt_batch = Cardinality(Todo)

\* What the run is about to quarantine.
Guilty(d, r) == r.attempted_hash = hashOf[d] /\ <<d, hashOf[d]>> \in Killers

Innocent ==
    faults = 0 =>
        /\ \A d \in Docs : Convicted(d, registry[d])
        /\ \A d \in Docs : pc \in {"idle", "open"} \/ d \notin Todo =>
              Caught(d, registry[d])
        /\ pc \notin {"idle", "open"} => \A d \in Todo : Ours(d, registry[d])
        /\ pc \in {"open", "extract", "mark", "remove", "strip", "forget"} =>
              \A d \in delta.quarantined : Guilty(d, registry[d])
        /\ outcome.unproductive = {}

-----------------------------------------------------------------------------
(* The records.                                                            *)

\* A settled death of the document alone is one of content that kills.
LEMMA SettledConvicts ==
  ASSUME NEW d, NEW r \in Record, NEW h, Convicted(d, r), Caught(d, r),
         SettledAttempts(r, h).batch = 1
  PROVE  r.attempted_hash = h /\ <<d, h>> \in Killers
  <1>1. CASE r.attempted_hash # h
    BY <1>1 DEF SettledAttempts
  <1>2. CASE r.attempted_hash = h /\ r.attempt_batch # 0
    BY <1>2 DEF SettledAttempts, Caught
  <1>3. CASE r.attempted_hash = h /\ r.attempt_batch = 0
    BY <1>3 DEF SettledAttempts, Convicted
  <1> QED BY <1>1, <1>2, <1>3

\* An opened attempt carries over the deaths at its content, and no others.
LEMMA OpenedConvicts ==
  ASSUME NEW d, NEW r \in Record, NEW h \in Hashes, NEW b \in Nat,
         Convicted(d, r), Caught(d, r)
  PROVE  /\ Convicted(d, OpenedAttempt(r, h, b))
         /\ OpenedAttempt(r, h, b).attempted_hash = h
         /\ OpenedAttempt(r, h, b).attempt_batch = b
  <1> DEFINE q == OpenedAttempt(r, h, b)
  <1>1. /\ q.attempted_hash = h /\ q.attempt_batch = b
        /\ q.crash_batch = SettledAttempts(r, h).batch
        /\ q.status = r.status /\ q.content_hash = r.content_hash
    BY DEF OpenedAttempt, Record
  <1>2. q.crash_batch = 1 => <<d, h>> \in Killers
    BY <1>1, SettledConvicts
  <1> HIDE DEF q
  <1>3. Convicted(d, q)
    BY <1>1, <1>2 DEF Convicted
  <1> QED BY <1>1, <1>3 DEF q

\* A quarantined document is quarantined at the content of its attempts.
LEMMA QuarantineConvicts ==
  ASSUME NEW d, NEW r \in Record, NEW fp, NEW kept,
         Convicted(d, r), Caught(d, r), r.attempted_hash # None,
         <<d, r.attempted_hash>> \in Killers
  PROVE  /\ Convicted(d, QuarantinedRecord(r, fp, kept))
         /\ Caught(d, QuarantinedRecord(r, fp, kept))
  <1> DEFINE q == QuarantinedRecord(r, fp, kept)
  <1>1. /\ q.attempted_hash = r.attempted_hash /\ q.content_hash = r.attempted_hash
        /\ q.attempt_batch = 0
    BY DEF QuarantinedRecord, Record
  <1> HIDE DEF q
  <1>2. Convicted(d, q) /\ Caught(d, q)
    BY <1>1 DEF Convicted, Caught
  <1> QED BY <1>2 DEF q

\* What the plan quarantines died alone.
LEMMA PlanConvicts ==
  ASSUME NEW x \in Delta, x.quarantined = {}, NEW reg, NEW hash, NEW limit,
         NEW d \in PlanAttempts(x, reg, hash, limit).quarantined
  PROVE  SettledAttempts(reg[d], hash[d]).batch = 1
  <1> DEFINE settled(e) == SettledAttempts(reg[e], hash[e])
             suspects == {e \in x.changed : settled(e).deaths >= limit}
             alone == {e \in suspects : settled(e).batch = 1}
             before(f, e) ==
                 \/ settled(f).batch < settled(e).batch
                 \/ /\ settled(f).batch = settled(e).batch
                    /\ settled(f).deaths > settled(e).deaths
             group == {e \in suspects : \A f \in suspects : ~before(f, e)}
             batch == FirstHalf(group)
             others == x.changed \ alone
             newHalf == x.new \cap batch
             oldHalf == x.changed \cap batch
             apart == [x EXCEPT !.changed = others, !.quarantined = alone]
             half == [x EXCEPT !.new = newHalf, !.changed = oldHalf]
  <1>1. PlanAttempts(x, reg, hash, limit) =
          IF suspects = {} THEN x ELSE IF alone # {} THEN apart ELSE half
    BY DEF PlanAttempts
  <1>2. \A e \in alone : SettledAttempts(reg[e], hash[e]).batch = 1
    OBVIOUS
  <1> HIDE DEF suspects, alone, batch, others, newHalf, oldHalf
  <1>3. apart.quarantined = alone /\ half.quarantined = {}
    BY DEF Delta
  <1> HIDE DEF apart, half
  <1> QED BY <1>1, <1>2, <1>3

\* So did what the diff quarantines.
LEMMA DetectConvicts ==
  ASSUME NEW reg \in [Docs -> Record], NEW hash \in [Docs -> Hashes \cup {Gone}],
         NEW unread \in SUBSET Docs, NEW fp, NEW limit,
         NEW d \in DetectDelta(reg, hash, unread, fp, limit).quarantined
  PROVE  SettledAttempts(reg[d], hash[d]).batch = 1
  <1> DEFINE c == Classify(reg, hash, unread, fp)
             r == ReleaseQuarantined(c, reg, hash, unread, limit)
             p == PlanAttempts(r, reg, hash, limit)
             released == {e \in Docs \ unread :
                             /\ reg[e].status = "quarantined"
                             /\ reg[e].content_hash = hash[e]
                             /\ reg[e].attempt_count < limit}
             given == {e \in p.changed : ~Exhausted(reg[e], hash[e], fp)}
  <1>1. c \in Delta /\ c.quarantined = {}
    BY DEF Classify, Delta
  <1>2. r = [c EXCEPT !.changed = @ \cup released]
    BY DEF ReleaseQuarantined
  <1>3. released \subseteq Docs
    OBVIOUS
  <1> HIDE DEF c, r, released
  <1>4. r \in Delta /\ r.quarantined = {}
    BY <1>1, <1>2, <1>3 DEF Delta
  <1>5. DetectDelta(reg, hash, unread, fp, limit) = [p EXCEPT !.changed = given]
    BY DEF DetectDelta, StopRetryingExhausted, c, r
  <1> HIDE DEF p, given
  <1>6. d \in p.quarantined
    BY <1>5
  <1> QED BY <1>4, <1>6, PlanConvicts DEF p

-----------------------------------------------------------------------------
(* The steps.                                                              *)

\* After a failure nothing is claimed.
LEMMA FaultAcquits == Inv /\ Fault => Innocent'
  <1> SUFFICES ASSUME Inv, Fault PROVE faults' # 0
    BY DEF Innocent
  <1> QED BY IndexingAssumption DEF Inv, EnvTyped, Fault

\* A record that is written without a word about attempts.
SameAttempts(r, q) ==
    /\ q.attempted_hash = r.attempted_hash
    /\ q.attempt_batch = r.attempt_batch
    /\ q.crash_batch = r.crash_batch
    /\ q.status = "quarantined" =>
          r.status = "quarantined" /\ q.content_hash = r.content_hash

\* A step within a run that writes only such records, if any.
LEMMA QuietKeepsInnocent ==
  ASSUME Innocent, NoFault, UNCHANGED <<delta, hashOf>>,
         pc \notin {"idle", "open"}, pc' \notin {"idle", "open"},
         pc' \in {"extract", "mark", "remove", "strip", "forget"} =>
            pc \in {"extract", "mark", "remove", "strip", "forget"},
         \A d \in Docs : SameAttempts(registry[d], registry'[d]),
         delta.quarantined \subseteq Docs, Todo \subseteq Docs,
         faults = 0 => outcome'.unproductive = {}
  PROVE  Innocent'
  <1> SUFFICES ASSUME faults = 0 PROVE Innocent'
    BY DEF Innocent, NoFault
  <1>1. Todo' = Todo
    BY DEF Todo
  <1>2. \A d \in Docs : Convicted(d, registry'[d])
    BY DEF Innocent, Convicted, SameAttempts
  <1>3. \A d \in Docs : d \notin Todo => Caught(d, registry'[d])
    BY DEF Innocent, Caught, SameAttempts
  <1>4. \A d \in Todo : Ours(d, registry[d])'
    BY <1>1 DEF Innocent, Ours, SameAttempts
  <1>5. pc' \in {"extract", "mark", "remove", "strip", "forget"} =>
          \A d \in delta.quarantined : Guilty(d, registry[d])'
    BY DEF Innocent, Guilty, SameAttempts
  <1> QED BY <1>1, <1>2, <1>3, <1>4, <1>5 DEF Innocent

\* What the lemmas about the steps take from the invariant.
LEMMA RunFacts ==
  ASSUME Inv
  PROVE  /\ Todo \subseteq Docs /\ Cardinality(Todo) \in Nat
         /\ delta.quarantined \subseteq Docs
         /\ \A d \in Docs : registry[d] \in Record
         /\ \A d \in Todo : hashOf[d] \in Hashes
         /\ \A d \in Todo : d \notin delta.deleted /\ d \notin delta.quarantined
  BY TodoFacts, InvRunning
     DEF Inv, RunHolds, RunTyped, VarsTyped, Delta, DeltaSound, TodoRead, StoresHold

\* The diff quarantines content that kills.
LEMMA FilterKeepsInnocent == Inv /\ Innocent /\ FilterToDelta => Innocent'
  <1> SUFFICES ASSUME Inv, Innocent, FilterToDelta, faults' = 0 PROVE Innocent'
    BY DEF Innocent
  <1>1. PICK unread \in SUBSET {d \in Docs : corpus[d] # Gone}, limit \in Limits :
          /\ IF unread = {} THEN NoFault ELSE Fault
          /\ hashOf' = [d \in Docs |-> IF d \in unread THEN Gone ELSE corpus[d]]
          /\ delta' = DetectDelta(registry, hashOf', unread, settings, limit)
    BY DEF FilterToDelta
  <1>2. faults = 0
    BY <1>1, FaultAcquits, IndexingAssumption DEF NoFault, Fault, Inv, EnvTyped
  <1>3. hashOf' \in [Docs -> Hashes \cup {Gone}] /\ registry \in [Docs -> Record]
    BY <1>1 DEF Inv, EnvTyped, StoresHold
  <1>4. Sound(delta', registry, hashOf')
    BY <1>1, <1>3, DetectSound
  <1>5. \A d \in Docs : Convicted(d, registry[d]) /\ Caught(d, registry[d])
    BY <1>2 DEF FilterToDelta, Innocent
  <1>6. \A d \in delta'.quarantined : Guilty(d, registry[d])'
    <2> SUFFICES ASSUME NEW d \in delta'.quarantined
                 PROVE  /\ registry[d].attempted_hash = hashOf'[d]
                        /\ <<d, hashOf'[d]>> \in Killers
      BY DEF FilterToDelta, Guilty
    <2>1. d \in Docs
      BY <1>4 DEF Sound, Delta
    <2>2. SettledAttempts(registry[d], hashOf'[d]).batch = 1
      BY <1>1, <1>3, DetectConvicts
    <2>3. registry[d] \in Record
      BY <1>3, <2>1
    <2> QED BY <1>5, <2>1, <2>2, <2>3, SettledConvicts
  <1> QED
    BY <1>2, <1>5, <1>6 DEF FilterToDelta, Innocent

\* The attempts opened are the run's own.
LEMMA OpenKeepsInnocent == Inv /\ Innocent /\ OpenAttempts => Innocent'
  <1> SUFFICES ASSUME Inv, Innocent, OpenAttempts, faults' = 0 PROVE Innocent'
    BY DEF Innocent
  <1>1. faults = 0 /\ pc = "open" /\ UNCHANGED runVars /\ Todo' = Todo
    BY DEF OpenAttempts, runVars, Todo
  <1>2. \A d \in Docs \ Todo : registry'[d] = registry[d]
    BY DEF OpenAttempts, Opened
  <1>3. ASSUME NEW d \in Todo
        PROVE  Convicted(d, registry'[d]) /\ Ours(d, registry[d])'
    <2> DEFINE n == IF HasRecord(registry[d]) THEN registry[d]
                    ELSE [NoRecord EXCEPT !.status = "pending"]
               q == OpenedAttempt(n, hashOf[d], Cardinality(Todo))
    <2>1. d \in Docs /\ registry'[d] = q
      BY <1>3, RunFacts DEF OpenAttempts, Opened
    <2>2. n \in Record
      BY <2>1, RunFacts, DocStatusAssumption DEF NoRecord, Record, Status, Pending, None
    <2>3. Convicted(d, n) /\ Caught(d, n)
      BY <1>1, <2>1 DEF Innocent, Convicted, Caught, NoRecord
    <2>4. hashOf[d] \in Hashes /\ Cardinality(Todo) \in Nat
      BY <1>3, RunFacts
    <2> HIDE DEF n
    <2>5. /\ Convicted(d, q)
          /\ q.attempted_hash = hashOf[d] /\ q.attempt_batch = Cardinality(Todo)
      BY <2>2, <2>3, <2>4, OpenedConvicts
    <2> QED BY <1>1, <2>1, <2>5 DEF Ours, runVars
  <1>4. \A d \in delta.quarantined : registry'[d] = registry[d]
    BY <1>2, RunFacts
  <1>5. \A d \in Docs : Convicted(d, registry'[d])
    BY <1>1, <1>2, <1>3 DEF Innocent
  <1>6. \A d \in Docs : d \notin Todo => Caught(d, registry'[d])
    BY <1>1, <1>2 DEF Innocent
  <1>7. \A d \in delta.quarantined : Guilty(d, registry[d])'
    BY <1>1, <1>4 DEF Innocent, Guilty, runVars
  <1>8. /\ pc' = "extract" /\ delta' = delta
        /\ outcome.unproductive = {} /\ outcome' = outcome
    BY <1>1 DEF OpenAttempts, Innocent, runVars
  <1>9. \A d \in Todo : Ours(d, registry[d])'
    BY <1>3
  <1> QED BY <1>1, <1>5, <1>6, <1>7, <1>8, <1>9 DEF Innocent

\* The write-ahead, as every document gave some lineage.
LEMMA AheadKeepsInnocent == Inv /\ Innocent /\ WriteAhead => Innocent'
  <1> SUFFICES ASSUME Inv, Innocent, WriteAhead, NoFault PROVE Innocent'
    BY FaultAcquits DEF WriteAhead, Extracted
  <1>1. PICK unproductive \in SUBSET Todo, failed \in SUBSET Todo,
             claims \in SUBSET Todo, counted \in SUBSET Todo :
          /\ IF unproductive \cup failed \cup claims = {} THEN NoFault ELSE Fault
          /\ outcome' = [NoOutcome EXCEPT !.unproductive = unproductive,
                                          !.failed = failed,
                                          !.counted = counted,
                                          !.claims = claims]
    BY DEF WriteAhead, Extracted
  <1>2. CASE Fault
    BY <1>2, FaultAcquits
  <1>3. CASE unproductive = {}
    <2>1. outcome'.unproductive = {}
      BY <1>1, <1>3 DEF NoOutcome
    <2>2. \A d \in Docs : SameAttempts(registry[d], registry'[d])
      BY RunFacts DEF WriteAhead, Ahead, PendingRecord, SameAttempts, Record
    <2> QED BY <2>1, <2>2, RunFacts, QuietKeepsInnocent DEF WriteAhead
  <1> QED BY <1>1, <1>2, <1>3

\* The steps of the removal, and the commit.
LEMMA RemovalKeepsInnocent ==
  Inv /\ Innocent /\ (MarkDeleted \/ RemoveDoomed \/ StripShared \/ Commit) => Innocent'
  <1> SUFFICES ASSUME Inv, Innocent,
                      MarkDeleted \/ RemoveDoomed \/ StripShared \/ Commit
               PROVE  Innocent'
    OBVIOUS
  <1>1. CASE Fault
    BY <1>1, FaultAcquits
  <1>2. CASE ~Fault
    <2>1. NoFault /\ UNCHANGED <<delta, hashOf>>
      BY <1>2 DEF MarkDeleted, RemoveDoomed, StripShared, Commit, runVars, NoFault
    <2>2. /\ pc \in {"mark", "remove", "strip", "commit"}
          /\ pc' \in {"remove", "strip", "forget", "record"}
          /\ pc = "commit" => pc' = "record"
      BY <1>2 DEF MarkDeleted, RemoveDoomed, StripShared, Commit
    <2>3. \A d \in Docs : SameAttempts(registry[d], registry'[d])
      <3>1. CASE MarkDeleted
        BY <3>1, RunFacts DEF MarkDeleted, MarkedDeleted, PendingRecord, SameAttempts, Record
      <3>2. CASE UNCHANGED registry
        BY <3>2 DEF SameAttempts
      <3> QED BY <3>1, <3>2 DEF RemoveDoomed, StripShared, Commit
    <2>4. outcome'.unproductive = outcome.unproductive
      <3>1. CASE UNCHANGED outcome
        BY <3>1
      <3>2. CASE Commit
        <4>1. PICK rec, un : outcome' = [outcome EXCEPT !.recorded = rec, !.unwritten = un]
          BY <3>2 DEF Commit
        <4>2. outcome \in Outcome
          BY DEF Inv, RunHolds, RunTyped, VarsTyped
        <4> QED BY <4>1, <4>2 DEF Outcome
      <3> QED BY <3>1, <3>2 DEF MarkDeleted, RemoveDoomed, StripShared, runVars
    <2>5. faults = 0 => outcome'.unproductive = {}
      BY <2>4 DEF Innocent
    <2> QED BY <2>1, <2>2, <2>3, <2>5, RunFacts, QuietKeepsInnocent
  <1> QED BY <1>1, <1>2

\* The records of what was removed.
LEMMA ForgetKeepsInnocent == Inv /\ Innocent /\ ForgetRemoved => Innocent'
  <1> SUFFICES ASSUME Inv, Innocent, ForgetRemoved, faults' = 0 PROVE Innocent'
    BY DEF Innocent
  <1>1. /\ faults = 0 /\ pc = "forget" /\ pc' = "commit" /\ UNCHANGED runVars
        /\ Todo' = Todo
    BY DEF ForgetRemoved, runVars, Todo
  <1>2. \A d \in Todo : registry'[d] = registry[d]
    BY RunFacts DEF ForgetRemoved, Forgotten
  <1>3. \A d \in Todo : Ours(d, registry[d])'
    BY <1>1, <1>2 DEF Innocent, Ours, runVars
  <1>4. ASSUME NEW d \in Docs
        PROVE  Convicted(d, registry'[d]) /\ (d \notin Todo => Caught(d, registry'[d]))
    <2>1. CASE d \in delta.deleted
      <3>1. registry'[d] = NoRecord
        BY <2>1 DEF ForgetRemoved, Forgotten
      <3> QED BY <3>1 DEF NoRecord, Convicted, Caught
    <2>2. CASE d \notin delta.deleted /\ d \in delta.quarantined
      <3>1. registry'[d] = QuarantinedRecord(registry[d], fingerprint, d \in Kept)
        BY <2>2 DEF ForgetRemoved, Forgotten
      <3>2. registry[d] \in Record /\ Convicted(d, registry[d]) /\ Caught(d, registry[d])
        BY <1>1, <2>2, RunFacts DEF Innocent
      <3>3. <<d, registry[d].attempted_hash>> \in Killers
        BY <1>1, <2>2 DEF Innocent, Guilty
      <3>4. registry[d].attempted_hash # None
        BY <3>3, IndexingAssumption, DocStatusAssumption
      <3> QED BY <3>1, <3>2, <3>3, <3>4, QuarantineConvicts
    <2>3. CASE d \notin delta.deleted /\ d \notin delta.quarantined
      <3>1. registry'[d] = registry[d]
        BY <2>3 DEF ForgetRemoved, Forgotten
      <3> QED BY <1>1, <3>1 DEF Innocent
    <2> QED BY <2>1, <2>2, <2>3
  <1>5. outcome' = outcome /\ outcome.unproductive = {}
    BY <1>1 DEF Innocent, runVars
  <1> QED BY <1>1, <1>3, <1>4, <1>5 DEF Innocent

\* What the commit recorded: no attempt is open, nobody died.
LEMMA RecordKeepsInnocent == Inv /\ Innocent /\ RecordProcessed => Innocent'
  <1> SUFFICES ASSUME Inv, Innocent, RecordProcessed, faults' = 0 PROVE Innocent'
    BY DEF Innocent
  <1>1. /\ faults = 0 /\ pc = "record" /\ pc' = "close" /\ UNCHANGED runVars
        /\ Todo' = Todo
    BY DEF RecordProcessed, runVars, Todo
  <1>2. outcome' = outcome /\ outcome.unproductive = {}
    BY <1>1 DEF Innocent, runVars
  <1>3. ASSUME NEW d \in Docs
        PROVE  /\ Convicted(d, registry'[d])
               /\ d \notin Todo => Caught(d, registry'[d])
               /\ d \in Todo => Ours(d, registry[d])'
    <2>1. CASE registry'[d] = registry[d]
      BY <1>1, <2>1 DEF Innocent, Ours, runVars
    <2>2. CASE registry'[d] # registry[d]
      <3>1. d \in Todo /\ registry'[d] = ProcessedRecord(d)
        BY <1>2, <2>2 DEF RecordProcessed, Recorded
      <3>2. /\ ProcessedRecord(d).crash_batch = 0
            /\ ProcessedRecord(d).attempt_batch = 0
            /\ ProcessedRecord(d).status # "quarantined"
        BY DEF ProcessedRecord, NoRecord
      <3> QED BY <3>1, <3>2 DEF Convicted, Ours
    <2> QED BY <2>1, <2>2
  <1>4. \A d \in Todo : Ours(d, registry[d])'
    BY <1>3, RunFacts
  <1> QED BY <1>1, <1>2, <1>3, <1>4 DEF Innocent

\* A run that ends closes every attempt it opened.
LEMMA CloseKeepsInnocent == Inv /\ Innocent /\ CloseAttempts => Innocent'
  <1> SUFFICES ASSUME Inv, Innocent, CloseAttempts, faults' = 0 PROVE Innocent'
    BY DEF Innocent
  <1>1. faults = 0 /\ pc = "close" /\ pc' = "idle" /\ Forget
    BY DEF CloseAttempts
  <1>2. ASSUME NEW d \in Docs
        PROVE  Convicted(d, registry'[d]) /\ Caught(d, registry'[d])
    <2>1. Convicted(d, registry[d]) /\ registry[d] \in Record
      BY <1>1, RunFacts DEF Innocent
    <2>2. CASE d \notin Todo
      BY <1>1, <2>2 DEF CloseAttempts, Closed, Innocent
    <2>3. CASE d \in Todo /\ registry[d].attempt_batch = 0
      BY <2>1, <2>3 DEF CloseAttempts, Closed, Caught
    <2>4. CASE d \in Todo /\ registry[d].attempt_batch # 0
      <3>1. registry[d].attempted_hash = hashOf[d]
        BY <1>1, <2>4 DEF Innocent, Ours
      <3>2. registry'[d] = ClosedAttempt(registry[d])
        BY <2>4, <3>1 DEF CloseAttempts, Closed
      <3> QED BY <2>1, <3>2 DEF ClosedAttempt, Record, Convicted, Caught
    <2> QED BY <2>2, <2>3, <2>4
  <1>3. outcome'.unproductive = {}
    BY <1>1 DEF Forget, NoOutcome
  <1> QED BY <1>1, <1>2, <1>3 DEF Innocent

\* A run killed by its content leaves attempts open: on a batch of one
\* document, that document is the one that killed it.
LEMMA DeathKeepsInnocent == Inv /\ Innocent /\ Deadly /\ Die => Innocent'
  <1> SUFFICES ASSUME Inv, Innocent, Deadly, Die, faults' = 0 PROVE Innocent'
    BY DEF Innocent
  <1>1. faults = 0 /\ pc \in {"extract", "commit"} /\ pc' = "idle" /\ Forget
        /\ registry' = registry
    BY IndexingAssumption DEF Die, Deadly, NoFault
  <1>2. PICK k \in Todo : <<k, hashOf[k]>> \in Killers
    BY DEF Deadly
  <1>3. ASSUME NEW d \in Docs
        PROVE  Caught(d, registry[d])
    <2>1. CASE d \notin Todo
      BY <1>1, <2>1 DEF Innocent
    <2>2. CASE d \in Todo
      <3> SUFFICES ASSUME registry[d].attempt_batch = 1
                   PROVE  <<d, registry[d].attempted_hash>> \in Killers
        BY DEF Caught
      <3>1. registry[d].attempted_hash = hashOf[d] /\ Cardinality(Todo) = 1
        BY <1>1, <2>2 DEF Innocent, Ours
      <3>2. IsFiniteSet(Todo)
        BY RunFacts, DocStatusAssumption, FS_Subset
      <3>3. PICK x : Todo = {x}
        BY <3>1, <3>2, FS_Singleton
      <3> QED BY <1>2, <2>2, <3>1, <3>3
    <2> QED BY <2>1, <2>2
  <1>4. outcome'.unproductive = {}
    BY <1>1 DEF Forget, NoOutcome
  <1> QED BY <1>1, <1>3, <1>4 DEF Innocent

\* Edits, changes of the settings, and steps that change nothing.
LEMMA EnvironmentKeepsInnocent ==
  Innocent /\ (Edit \/ ChangeSettings \/ UNCHANGED vars) => Innocent'
  <1> SUFFICES ASSUME Innocent, Edit \/ ChangeSettings \/ UNCHANGED vars
               PROVE  Innocent'
    OBVIOUS
  <1>1. UNCHANGED <<registry, pc, delta, hashOf, outcome, faults>>
    BY DEF Edit, ChangeSettings, vars, runVars
  <1> QED BY <1>1 DEF Innocent, Todo, Convicted, Caught, Ours, Guilty

\* Every step keeps both invariants.
LEMMA NextInnocent == Inv /\ Innocent /\ [Next]_vars => Inv' /\ Innocent'
  <1> SUFFICES ASSUME Inv, Innocent, [Next]_vars PROVE Innocent'
    BY NextInv
  <1>1. CASE RunStep
    BY <1>1, FilterKeepsInnocent, OpenKeepsInnocent, AheadKeepsInnocent,
       RemovalKeepsInnocent, ForgetKeepsInnocent, RecordKeepsInnocent,
       CloseKeepsInnocent, DeathKeepsInnocent
    DEF RunStep
  <1>2. CASE Failure
    <2>1. Fault
      BY <1>2 DEF Failure, OpenAttemptsCut, StageFails, WriteAheadCut,
         MarkDeletedCut, RemovalCut, ForgetRemovedCut, CommitCut,
         RecordProcessedCut, CloseAttemptsCut, Stop, Die
    <2> QED BY <2>1, FaultAcquits
  <1>3. CASE Edit \/ ChangeSettings \/ UNCHANGED vars
    BY <1>3, EnvironmentKeepsInnocent
  <1> QED BY <1>1, <1>2, <1>3 DEF Next

-----------------------------------------------------------------------------
(* The theorem.                                                            *)

\* As long as nothing but their content makes runs fail, a document is
\* quarantined only at content that kills the runs, however many culprits
\* there are, whichever documents run with them, whatever the limit is
\* changed to and whatever is edited between the runs (attempts.py: "a
\* culprit never takes innocent documents with it").
THEOREM OnlyCulpritsAreQuarantined == Spec => []OnlyCulprits
  <1>1. Init => Innocent
    BY DEF Init, Innocent, Convicted, Caught, NoRecord, NoOutcome
  <1>2. Innocent => OnlyCulprits
    BY DEF Innocent, Convicted, OnlyCulprits
  <1> QED BY <1>1, <1>2, InitInv, NextInnocent, PTL DEF Spec
=============================================================================
