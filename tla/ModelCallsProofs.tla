-------------------------- MODULE ModelCallsProofs --------------------------
(***************************************************************************)
(* Proofs about module ModelCalls, for any items, attempts, setups, faults *)
(* and runs: no segment gets lost between the threads that hand segments   *)
(* off, no item fails on replayed responses alone, and the responses a run *)
(* leaves are those its items ended with.                                  *)
(***************************************************************************)
EXTENDS ModelCalls, TLAPS, SequenceTheorems, WellFoundedInduction

\* What update stores is a response.
Answered ==
    \A t \in Items \X Attempts :
        call[t].st = "store" => call[t].resp \in {"good", "bad"}

\* The attempts of an item are made in their order, one at a time.
Attempted ==
    \A i \in Items :
        /\ item[i].st = "queued" => item[i].n = 0
        /\ item[i].st = "backoff" => item[i].n < MaxAttempts
        /\ item[i].st = "calling" => item[i].n > 0
        /\ \A a \in Attempts : call[<<i, a>>].st = "none" <=> a > item[i].n

LookedUp(i, a) == call[<<i, a>>].st \notin {"none", "start"}

\* An item that asked nothing was served its one stored response, once.
AskedOnce ==
    \A i \in Items \ asked :
        /\ \A a \in Attempts : LookedUp(i, a) => i \in served
        /\ \A a, b \in Attempts : LookedUp(i, a) /\ LookedUp(i, b) => a = b

\* A thread has segments to hand off only while it does so.
HandingOff ==
    /\ \A t \in Items \X Attempts : call[t].st # "hand" => due[t] = <<>>
    /\ main \notin {"sync", "deactivate"} => due[<<Main, 0>>] = <<>>

Inv ==
    /\ TypeOK /\ Answered /\ Attempted /\ AskedOnce /\ HandingOff
    /\ NoSegmentLost

-----------------------------------------------------------------------------
(* Facts about the largest of a set and the elements of a sequence.        *)

LEMMA MaxIn ==
  ASSUME NEW n \in Nat, NEW K \in SUBSET (1..n), K # {}
  PROVE  Max(K) \in K
<1> DEFINE T == {n - k : k \in K}
<1>1. T \subseteq Nat /\ T # {}
  <2>1. \A k \in K : n - k \in Nat
    OBVIOUS
  <2>2. PICK k \in K : TRUE
    OBVIOUS
  <2>3. n - k \in T
    BY <2>2
  <2> QED
    BY <2>1, <2>3
<1>2. PICK x \in T : \A y \in T : ~(<<y, x>> \in OpToRel(<, Nat))
  BY <1>1, WFMin, NatLessThanWellFounded
<1>3. PICK m \in K : x = n - m
  BY <1>2
<1>4. \A k \in K : m >= k
  <2> TAKE k \in K
  <2>1. n - k \in T /\ ~(<<n - k, x>> \in OpToRel(<, Nat))
    BY <1>2
  <2>2. ~(n - k < x)
    BY <1>1, <2>1 DEF OpToRel
  <2> QED
    BY <1>3, <2>2
<1> QED
  BY <1>3, <1>4 DEF Max

In(s, k) == \E n \in DOMAIN s : s[n] = k

LEMMA InAppend ==
  ASSUME NEW S, NEW s \in Seq(S), NEW e \in S, NEW k
  PROVE  In(Append(s, e), k) <=> In(s, k) \/ k = e
<1>1. /\ DOMAIN s = 1..Len(s) /\ Len(s) \in Nat
      /\ DOMAIN Append(s, e) = 1..(Len(s) + 1)
      /\ \A n \in 1..Len(s) : Append(s, e)[n] = s[n]
      /\ Append(s, e)[Len(s) + 1] = e
  BY AppendProperties, LenProperties
<1> QED
  BY <1>1 DEF In

LEMMA InTail ==
  ASSUME NEW S, NEW s \in Seq(S), s # <<>>, NEW k, In(s, k)
  PROVE  k = Head(s) \/ In(Tail(s), k)
<1>1. /\ Len(s) \in Nat \ {0} /\ DOMAIN s = 1..Len(s)
      /\ DOMAIN Tail(s) = 1..(Len(s) - 1)
      /\ \A n \in 1..(Len(s) - 1) : Tail(s)[n] = s[n + 1]
  BY HeadTailProperties, LenProperties, EmptySeq
<1>2. PICK n \in 1..Len(s) : s[n] = k
  BY <1>1 DEF In
<1>3. CASE n = 1
  BY <1>2, <1>3
<1>4. CASE n # 1
  <2>1. n - 1 \in 1..(Len(s) - 1) /\ Tail(s)[n - 1] = k
    BY <1>1, <1>2, <1>4
  <2> QED
    BY <1>1, <2>1 DEF In
<1> QED
  BY <1>3, <1>4

LEMMA InConcat ==
  ASSUME NEW S, NEW s \in Seq(S), NEW t \in Seq(S), NEW k, In(s, k) \/ In(t, k)
  PROVE  In(s \o t, k)
<1>1. /\ Len(s) \in Nat /\ DOMAIN s = 1..Len(s)
      /\ Len(t) \in Nat /\ DOMAIN t = 1..Len(t)
      /\ DOMAIN (s \o t) = 1..(Len(s) + Len(t))
      /\ \A n \in 1..(Len(s) + Len(t)) :
            (s \o t)[n] = IF n <= Len(s) THEN s[n] ELSE t[n - Len(s)]
  BY ConcatProperties, LenProperties
<1>2. CASE In(s, k)
  BY <1>1, <1>2 DEF In
<1>3. CASE In(t, k)
  <2>1. PICK n \in 1..Len(t) : t[n] = k
    BY <1>1, <1>3 DEF In
  <2>2. n + Len(s) \in 1..(Len(s) + Len(t)) /\ (s \o t)[n + Len(s)] = k
    BY <1>1, <2>1
  <2> QED
    BY <1>1, <2>2 DEF In
<1> QED
  BY <1>2, <1>3

\* NoSegmentLost, with In.
LEMMA SegmentsIn ==
  NoSegmentLost <=> \A k \in local :
      \/ k <= base \/ k \in s3 \/ In(unsynced, k)
      \/ \E t \in Threads : In(due[t], k)
BY DEF NoSegmentLost, In

\* What a load serves is a response.
LEMMA LoadTyped ==
  ASSUME TypeOK, NEW ks \in SUBSET Segments
  PROVE  Load(ks) \in [Items -> {"none", "good", "bad"}]
<1>1. Len(segments) \in Nat
      /\ \A k \in Segments : segments[k] \in [Items -> Entry]
  BY LenProperties, ElementOfSeq DEF TypeOK, FilesTyped, Segments
<1> SUFFICES ASSUME NEW i \in Items
             PROVE  Load(ks)[i] \in {"none", "good", "bad"}
  BY DEF Load
<1> DEFINE K == {k \in ks : segments[k][i] # "none"}
<1>2. CASE K = {}
  BY <1>2 DEF Load
<1>3. CASE K # {}
  <2>1. Max(K) \in Segments
    BY <1>1, <1>3, MaxIn DEF Segments
  <2>2. segments[Max(K)][i] \in Entry
    BY <1>1, <2>1
  <2>3. Load(ks)[i] = IF segments[Max(K)][i] = "gone" THEN "none"
                      ELSE segments[Max(K)][i]
    BY <1>3 DEF Load
  <2> QED
    BY <2>2, <2>3 DEF Entry
<1> QED
  BY <1>2, <1>3

-----------------------------------------------------------------------------
(* The steps.                                                              *)

LEMMA InitInv == Init => Inv
<1> SUFFICES ASSUME Init PROVE Inv
  OBVIOUS
<1> USE CallsAssumption DEF Init
<1>1. setup.earlier \in [Items -> {"none", "good", "bad"}]
      /\ [Items -> {"none", "good", "bad"}] \subseteq [Items -> Entry]
  BY DEF Entry
<1>2. PipeTyped
  <2>1. before \in [Items -> {"answered", "failed", "unknown"}]
    OBVIOUS
  <2>2. asked \subseteq Items /\ unsettled \subseteq Items
    OBVIOUS
  <2>3. run \in 1..MaxRuns
    OBVIOUS
  <2>4. setup \in [flush_every : Nat \ {0}, lookups : BOOLEAN, slow : Nat,
                 faults : Nat, earlier : [Items -> {"none", "good", "bad"}]]
    OBVIOUS
  <2> QED
    BY <2>1, <2>2, <2>3, <2>4 DEF PipeTyped
<1>3. WorkersTyped
  BY DEF WorkersTyped, NoCall
<1>4. CacheTyped
  BY <1>1 DEF CacheTyped, Entry
<1>8. FilesTyped
  <2>1. setup.earlier \in [Items -> Entry]
    BY <1>1
  <2>2. segments \in Seq([Items -> Entry]) /\ Len(segments) = 1
    BY <2>1
  <2>3. <<>> \in Seq(Segments)
    BY EmptySeq
  <2> QED
    BY <2>2, <2>3 DEF FilesTyped, Segments
<1>5. Answered /\ Attempted /\ AskedOnce
  BY DEF Answered, Attempted, AskedOnce, LookedUp, NoCall, Attempts
<1>6. HandingOff
  BY DEF HandingOff, Threads
<1>7. NoSegmentLost
  BY DEF NoSegmentLost
<1> QED
  BY <1>2, <1>3, <1>4, <1>5, <1>6, <1>7, <1>8 DEF Inv, TypeOK

\* What a step leaves of the files when it hands nothing off.
LEMMA FilesKept ==
  ASSUME Inv, UNCHANGED <<disk, base>>
  PROVE  FilesTyped' /\ NoSegmentLost'
BY DEF Inv, TypeOK, FilesTyped, Segments, NoSegmentLost, disk, files

\* The steps of a call that only move the call on.
LEMMA LookupKeepsInv ==
  ASSUME Inv, NEW i \in Items, NEW a \in Attempts, lookup(i, a)
  PROVE  Inv'
<1> USE CallsAssumption
<1> DEFINE r == Hit(i, call[<<i, a>>])
<1>1. /\ call[<<i, a>>].st = "start"
      /\ r \in {"none", "good", "bad"}
      /\ call' = [call EXCEPT
             ![<<i, a>>].st = IF r = "none" THEN "ask" ELSE "hit",
             ![<<i, a>>].resp = r]
      /\ served' = IF r = "none" THEN served ELSE served \cup {i}
      /\ asked' = IF r = "none" THEN asked \cup {i} ELSE asked
      /\ r # "none" => i \notin served
      /\ UNCHANGED <<pipe, setup, item, discards, entries, pending, written, disk,
                     unsettled>>
  BY DEF lookup, Hit, Inv, TypeOK, CacheTyped
<1> HIDE DEF r
<1>2. PipeTyped' /\ WorkersTyped' /\ CacheTyped'
  BY <1>1, SMTT(60) DEF Inv, TypeOK, PipeTyped, WorkersTyped, CacheTyped, Answers, pipe, past
<1>3. FilesTyped' /\ NoSegmentLost'
  BY <1>1, FilesKept DEF pipe, past
<1>4. \A t \in Items \X Attempts :
         IF t = <<i, a>> THEN call'[t].st \in {"ask", "hit"} ELSE call'[t] = call[t]
  BY <1>1 DEF Inv, TypeOK, WorkersTyped
<1>5. Answered' /\ HandingOff'
  BY <1>1, <1>4 DEF Inv, Answered, HandingOff, disk, pipe
<1>6. Attempted'
  <2>1. \A k \in Items, b \in Attempts :
           call'[<<k, b>>].st = "none" <=> call[<<k, b>>].st = "none"
    BY <1>1, <1>4
  <2> QED
    BY <1>1, <2>1 DEF Inv, Attempted
<1>7. AskedOnce'
  <2>1. CASE r = "none"
    <3>1. \A k \in Items \ asked' : k # i /\ k \notin asked
      BY <1>1, <2>1
    <3>2. \A k \in Items \ asked', b \in Attempts : LookedUp(k, b)' <=> LookedUp(k, b)
      BY <1>4, <3>1 DEF LookedUp
    <3> QED
      BY <1>1, <2>1, <3>1, <3>2 DEF Inv, AskedOnce
  <2>2. CASE r # "none"
    <3>1. i \notin asked => \A b \in Attempts : ~LookedUp(i, b)
      BY <1>1, <2>2 DEF Inv, AskedOnce
    <3>2. \A b \in Attempts : LookedUp(i, b)' <=> b = a \/ LookedUp(i, b)
      BY <1>1, <1>4 DEF LookedUp
    <3>3. \A k \in Items, b \in Attempts :
             k # i => (LookedUp(k, b)' <=> LookedUp(k, b))
      BY <1>4 DEF LookedUp
    <3>4. asked' = asked /\ served' = served \cup {i}
      BY <1>1, <2>2
    <3> QED
      BY <3>1, <3>2, <3>3, <3>4 DEF Inv, AskedOnce
  <2> QED
    BY <2>1, <2>2
<1> QED
  BY <1>2, <1>3, <1>5, <1>6, <1>7 DEF Inv, TypeOK

\* The steps of a call past its lookup leave these to the calls' states.
LEMMA CallKeepsOrder ==
  ASSUME Inv, NEW i \in Items, NEW a \in Attempts,
         LookedUp(i, a), LookedUp(i, a)',
         \A t \in Items \X Attempts : t # <<i, a>> => call'[t] = call[t],
         UNCHANGED <<item, served, asked>>
  PROVE  Attempted' /\ AskedOnce'
<1>1. \A k \in Items, b \in Attempts :
         /\ LookedUp(k, b)' <=> LookedUp(k, b)
         /\ call'[<<k, b>>].st = "none" <=> call[<<k, b>>].st = "none"
  BY DEF LookedUp
<1> QED
  BY <1>1 DEF Inv, Attempted, AskedOnce

LEMMA CallKeepsInv ==
  ASSUME Inv, NEW i \in Items, NEW a \in Attempts,
         \/ discard_if_item_fails(i, a) \/ update(i, a)
         \/ \E r \in Answers : Answer(i, a, r)
  PROVE  Inv'
<1> USE CallsAssumption
<1> DEFINE c == call[<<i, a>>]
<1>1. /\ c \in [ab : BOOLEAN, slow : BOOLEAN, resp : Answers \cup {"none"},
               st : {"none", "start", "hit", "ask", "store", "stored",
                     "full", "flush", "hand", "ret"}]
      /\ c.st = "store" => c.resp \in {"good", "bad"}
      /\ pending \in [Items -> Entry]
  BY DEF Inv, TypeOK, WorkersTyped, CacheTyped, Answered
<1>2. /\ UNCHANGED <<pipe, setup, item, served, entries, written, disk, asked>>
      /\ discards' \subseteq Items /\ unsettled' \subseteq Items
      /\ pending' \in [Items -> Entry]
  <2>1. CASE discard_if_item_fails(i, a)
    BY <1>1, <2>1 DEF discard_if_item_fails, memory, history, Inv, TypeOK,
                      PipeTyped, WorkersTyped
  <2>2. CASE update(i, a)
    <3>1. /\ unsettled' \in {unsettled, unsettled \cup {i}}
          /\ pending' = pending \/ pending' = [pending EXCEPT ![i] = c.resp]
          /\ c.st = "store" /\ discards' = discards
          /\ UNCHANGED <<pipe, setup, item, served, entries, written, disk, asked>>
      BY <2>2 DEF update
    <3>2. pending' \in [Items -> Entry]
      BY <1>1, <3>1 DEF Entry
    <3> QED
      BY <3>1, <3>2 DEF Inv, TypeOK, PipeTyped, WorkersTyped
  <2>3. CASE \E r \in Answers : Answer(i, a, r)
    BY <1>1, <2>3 DEF Answer, memory, history, Inv, TypeOK, PipeTyped, WorkersTyped
  <2> QED
    BY <2>1, <2>2, <2>3
<1> DEFINE Moves(d) ==
        /\ call' = [call EXCEPT ![<<i, a>>] = d]
        /\ d \in [ab : BOOLEAN, slow : BOOLEAN, resp : Answers \cup {"none"},
                  st : {"store", "stored", "full", "flush", "ret"}]
        /\ d.st = "store" => d.resp \in {"good", "bad"}
        /\ c.st \notin {"none", "start", "hand"}
<1>3. \E d : Moves(d)
  <2>1. CASE discard_if_item_fails(i, a)
    BY <1>1, <2>1 DEF discard_if_item_fails, Ended
  <2>2. CASE update(i, a)
    <3>1. CASE open
      <4>1. PICK s \in {"full", "stored"} :
               call' = [call EXCEPT ![<<i, a>>].st = s]
        BY <2>2, <3>1 DEF update
      <4>2. call' = [call EXCEPT ![<<i, a>>] = [c EXCEPT !.st = s]]
        BY <4>1
      <4> QED
        BY <1>1, <2>2, <4>2 DEF update
    <3>2. CASE ~open
      BY <1>1, <2>2, <3>2 DEF update, Ended
    <3> QED
      BY <3>1, <3>2
  <2>3. ASSUME NEW r \in Answers, Answer(i, a, r)
        PROVE  \E d : Moves(d)
    <3>1. CASE Storable(c, r)
      <4>1. call' = [call EXCEPT ![<<i, a>>] = [c EXCEPT !.st = "store", !.resp = r]]
        BY <2>3, <3>1 DEF Answer
      <4>2. Moves([c EXCEPT !.st = "store", !.resp = r])
        BY <1>1, <2>3, <3>1, <4>1 DEF Answer, Storable
      <4> QED
        BY <4>2
    <3>2. CASE ~Storable(c, r)
      <4>1. call' = [call EXCEPT ![<<i, a>>] = Ended(c, r)]
        BY <2>3, <3>2 DEF Answer
      <4>2. Moves(Ended(c, r))
        BY <1>1, <2>3, <4>1 DEF Answer, Ended
      <4> QED
        BY <4>2
    <3> QED
      BY <3>1, <3>2
  <2> QED
    BY <2>1, <2>2, <2>3
<1> PICK d : Moves(d)
  BY <1>3
<1> HIDE DEF c
<1>4. \A t \in Items \X Attempts :
         IF t = <<i, a>> THEN call'[t] = d ELSE call'[t] = call[t]
  BY DEF Inv, TypeOK, WorkersTyped
<1>5. PipeTyped' /\ CacheTyped'
  BY <1>2 DEF Inv, TypeOK, PipeTyped, CacheTyped, pipe, past
<1>6. WorkersTyped'
  BY <1>2 DEF Inv, TypeOK, WorkersTyped
<1>7. FilesTyped' /\ NoSegmentLost'
  BY <1>2, FilesKept DEF pipe, past
<1>8. Answered'
  BY <1>4 DEF Inv, Answered
<1>9. HandingOff'
  BY <1>2, <1>4 DEF Inv, HandingOff, disk, pipe, c
<1>10. Attempted' /\ AskedOnce'
  BY <1>2, <1>4, CallKeepsOrder DEF LookedUp, c
<1> QED
  BY <1>5, <1>6, <1>7, <1>8, <1>9, <1>10 DEF Inv, TypeOK

\* A flush by a thread with nothing left to hand off moves what is pending
\* to a segment, and every segment that waits to the thread.
LEMMA FlushKeeps ==
  ASSUME Inv, NEW t \in Threads, due[t] = <<>>, flush(t), UNCHANGED <<base, s3>>
  PROVE  /\ CacheTyped' /\ FilesTyped' /\ NoSegmentLost'
         /\ served' = served
         /\ \A u \in Threads \ {t} : due'[u] = due[u]
<1>1. CASE Pending = {} \/ ~open
  BY <1>1, FilesKept DEF flush, Inv, TypeOK, CacheTyped, memory, files, disk
<1>2. CASE ~(Pending = {} \/ ~open)
  <2> DEFINE new == Len(segments) + 1
  <2>1. /\ segments' = Append(segments, pending)
        /\ local' = local \cup {Len(segments')}
        /\ pending' = [i \in Items |-> "none"]
        /\ written' = written \cup {i \in Pending : pending[i] # "gone"}
        /\ due' = [due EXCEPT ![t] = Append(unsynced, Len(segments'))]
        /\ unsynced' = <<>>
        /\ entries' = entries /\ served' = served
    BY <1>2 DEF flush
  <2>2. /\ segments \in Seq([Items -> Entry]) /\ pending \in [Items -> Entry]
        /\ unsynced \in Seq(Segments) /\ due \in [Threads -> Seq(Segments)]
        /\ local \subseteq Segments /\ s3 \subseteq Segments
        /\ base \in 0..Len(segments)
    BY DEF Inv, TypeOK, CacheTyped, FilesTyped
  <2>3. segments' \in Seq([Items -> Entry]) /\ Len(segments') = new
        /\ Len(segments) \in Nat
    BY <2>1, <2>2, AppendProperties, LenProperties
  <2>4. Segments \subseteq Segments' /\ new \in Segments'
    BY <2>3 DEF Segments
  <2>5. CacheTyped'
    BY <2>1, <2>2 DEF Inv, TypeOK, CacheTyped, Pending, Entry
  <2>6. unsynced \in Seq(Segments') /\ due \in [Threads -> Seq(Segments')]
    BY <2>2, <2>4, SeqMonotonic
  <2>7. Append(unsynced, new) \in Seq(Segments')
    BY <2>4, <2>6, AppendProperties
  <2>8. FilesTyped'
    <3>1. due' \in [Threads -> Seq(Segments')] /\ unsynced' \in Seq(Segments')
      BY <2>1, <2>3, <2>6, <2>7, EmptySeq
    <3>2. local' \subseteq Segments' /\ s3' \subseteq Segments'
      BY <2>1, <2>2, <2>3, <2>4
    <3>3. base' \in 0..Len(segments')
      BY <2>2, <2>3
    <3> QED
      BY <2>3, <3>1, <3>2, <3>3 DEF FilesTyped
  <2>9. due'[t] = Append(unsynced, new) /\ \A u \in Threads \ {t} : due'[u] = due[u]
    BY <2>1, <2>2, <2>3
  <2>10. ASSUME NEW k \in local'
         PROVE  \/ k <= base' \/ k \in s3' \/ In(unsynced', k)
                \/ \E u \in Threads : In(due'[u], k)
    <3>1. In(unsynced, k) \/ k = new => In(due'[t], k)
      BY <2>4, <2>6, <2>9, InAppend
    <3>2. ~In(due[t], k)
      BY DEF In
    <3>3. CASE k = new
      BY <3>1, <3>3
    <3>4. CASE k \in local
      <4>1. \/ k <= base \/ k \in s3 \/ In(unsynced, k)
            \/ \E u \in Threads : In(due[u], k)
        BY <3>4, SegmentsIn DEF Inv
      <4> QED
        BY <4>1, <3>1, <3>2, <2>9
    <3> QED
      BY <2>1, <2>3, <3>3, <3>4
  <2>11. NoSegmentLost'
    BY <2>10 DEF NoSegmentLost, In
  <2> QED
    BY <2>1, <2>5, <2>8, <2>9, <2>11
<1> QED
  BY <1>1, <1>2

\* A hand-off sends a segment, or puts all it has left back.
LEMMA HandOffKeepsInv ==
  ASSUME Inv, NEW t \in Threads, Upload(t) \/ UploadFails(t)
  PROVE  Inv'
<1>1. /\ due[t] # <<>> /\ due[t] \in Seq(Segments) /\ unsynced \in Seq(Segments)
      /\ due \in [Threads -> Seq(Segments)]
  BY DEF Inv, TypeOK, FilesTyped, Upload, UploadFails
<1>2. /\ UNCHANGED <<pipe, workers, memory, segments, local, history>>
      /\ \E s : due' = [due EXCEPT ![t] = s]
      /\ setup' = setup \/ Fault
  BY DEF Upload, UploadFails, files
<1>3. PipeTyped' /\ WorkersTyped' /\ CacheTyped'
  BY <1>2 DEF Inv, TypeOK, PipeTyped, WorkersTyped, CacheTyped, Fault, pipe, past,
              workers, memory, history
<1>4. Answered' /\ Attempted' /\ AskedOnce'
  BY <1>2 DEF Inv, Answered, Attempted, AskedOnce, LookedUp, workers, memory, history
<1>5. HandingOff'
  <2>1. \A u \in Threads : u # t => due'[u] = due[u]
    BY <1>1, <1>2
  <2>2. call' = call /\ main' = main
    BY <1>2 DEF pipe, workers
  <2>3. \A u \in Items \X Attempts : u \in Threads
    BY DEF Threads
  <2>4. <<Main, 0>> \in Threads
    BY DEF Threads
  <2> QED
    BY <1>1, <2>1, <2>2, <2>3, <2>4 DEF Inv, HandingOff
<1>6. FilesTyped' /\ NoSegmentLost'
  <2>1. UNCHANGED <<base, local, segments>> /\ Segments' = Segments
    BY <1>2 DEF pipe, past, Segments
  <2>2. CASE Upload(t)
    <3>1. /\ s3' = s3 \cup {Head(due[t])} /\ due' = [due EXCEPT ![t] = Tail(due[t])]
          /\ unsynced' = unsynced
      BY <2>2 DEF Upload, files
    <3>2. Head(due[t]) \in Segments /\ Tail(due[t]) \in Seq(Segments)
      BY <1>1, HeadTailProperties
    <3>3. FilesTyped'
      BY <1>1, <2>1, <3>1, <3>2 DEF Inv, TypeOK, FilesTyped
    <3>4. \A k : In(due[t], k) => k \in s3' \/ In(due'[t], k)
      BY <1>1, <3>1, InTail
    <3>5. \A u \in Threads : u # t => due'[u] = due[u]
      BY <3>1
    <3>6. \A k \in local : \/ k <= base \/ k \in s3' \/ In(unsynced', k)
                           \/ \E u \in Threads : In(due'[u], k)
      BY <3>1, <3>4, <3>5, SegmentsIn DEF Inv
    <3>7. NoSegmentLost'
      BY <2>1, <3>6 DEF NoSegmentLost, In
    <3> QED
      BY <3>3, <3>7
  <2>3. CASE UploadFails(t)
    <3>1. /\ unsynced' = due[t] \o unsynced /\ due' = [due EXCEPT ![t] = <<>>]
          /\ s3' = s3
      BY <2>3 DEF UploadFails, PutBack
    <3>2. unsynced' \in Seq(Segments) /\ <<>> \in Seq(Segments)
      BY <1>1, <3>1, ConcatProperties, EmptySeq
    <3>3. FilesTyped'
      BY <1>1, <2>1, <3>1, <3>2 DEF Inv, TypeOK, FilesTyped
    <3>4. \A k : In(due[t], k) \/ In(unsynced, k) => In(unsynced', k)
      BY <1>1, <3>1, InConcat
    <3>5. \A u \in Threads : u # t => due'[u] = due[u]
      BY <3>1
    <3>6. \A k \in local : \/ k <= base \/ k \in s3' \/ In(unsynced', k)
                           \/ \E u \in Threads : In(due'[u], k)
      BY <3>1, <3>4, <3>5, SegmentsIn DEF Inv
    <3>7. NoSegmentLost'
      BY <2>1, <3>6 DEF NoSegmentLost, In
    <3> QED
      BY <3>3, <3>7
  <2> QED
    BY <2>2, <2>3
<1> QED
  BY <1>3, <1>4, <1>5, <1>6 DEF Inv, TypeOK

SetupRecord == [flush_every : Nat \ {0}, lookups : BOOLEAN, slow : Nat,
                faults : Nat, earlier : [Items -> {"none", "good", "bad"}]]

LEMMA FaultTyped == Inv /\ (Fault \/ setup' = setup) => setup' \in SetupRecord
<1> SUFFICES ASSUME Inv, Fault PROVE setup' \in SetupRecord
  BY DEF Inv, TypeOK, PipeTyped, SetupRecord
<1>1. setup \in SetupRecord /\ setup.faults \in Nat /\ setup.faults > 0
      /\ setup' = [setup EXCEPT !.faults = setup.faults - 1]
  BY DEF Fault, Inv, TypeOK, PipeTyped, SetupRecord
<1>2. setup.faults - 1 \in Nat
  BY <1>1
<1> QED
  BY <1>1, <1>2 DEF SetupRecord

CallRecord == [ab : BOOLEAN, slow : BOOLEAN, resp : Answers \cup {"none"},
               st : {"none", "start", "hit", "ask", "store", "stored",
                     "full", "flush", "hand", "ret"}]

LEMMA FlushInCallKeepsInv ==
  ASSUME Inv, NEW i \in Items, NEW a \in Attempts, FlushInCall(i, a)
  PROVE  Inv'
<1> DEFINE t == <<i, a>>
<1>1. /\ call \in [Items \X Attempts -> CallRecord] /\ call[t].st = "flush"
      /\ t \in Threads /\ due[t] = <<>>
      /\ UNCHANGED <<pipe, item, discards, s3, asked>>
  BY DEF FlushInCall, Inv, TypeOK, WorkersTyped, CallRecord, HandingOff, Threads
<1>2. PICK d \in CallRecord :
         call' = [call EXCEPT ![t] = d] /\ d.st \in {"hand", "ret"}
  <2>1. CASE call' = [call EXCEPT ![t].st = "hand"]
    <3>1. [call[t] EXCEPT !.st = "hand"] \in CallRecord
      BY <1>1 DEF CallRecord
    <3>2. call' = [call EXCEPT ![t] = [call[t] EXCEPT !.st = "hand"]]
      BY <1>1, <2>1
    <3>3. [call[t] EXCEPT !.st = "hand"].st = "hand"
      BY <1>1 DEF CallRecord
    <3> QED
      BY <3>1, <3>2, <3>3
  <2>2. ASSUME NEW r \in {"error", "fatal"},
               call' = [call EXCEPT ![t] = Ended(call[t], r)]
        PROVE  \E d \in CallRecord :
                  call' = [call EXCEPT ![t] = d] /\ d.st \in {"hand", "ret"}
    <3>1. Ended(call[t], r) \in CallRecord /\ Ended(call[t], r).st = "ret"
      BY <1>1 DEF CallRecord, Ended, Answers
    <3> QED
      BY <2>2, <3>1
  <2> QED
    BY <2>1, <2>2 DEF FlushInCall
<1>3. /\ CacheTyped' /\ FilesTyped' /\ NoSegmentLost' /\ served' = served
      /\ \A u \in Threads \ {t} : due'[u] = due[u]
      /\ d.st = "ret" => due'[t] = <<>>
      /\ unsettled' \subseteq Items
      /\ setup' = setup \/ Fault
  <2>1. CASE flush(t) /\ call' = [call EXCEPT ![t].st = "hand"]
                      /\ UNCHANGED <<setup, unsettled>>
    <3>1. d.st = "hand"
      BY <1>1, <1>2, <2>1 DEF CallRecord
    <3> QED
      BY <1>1, <2>1, <3>1, FlushKeeps DEF pipe, past, Inv, TypeOK, PipeTyped
  <2>2. CASE WriteFails
    <3>1. FilesTyped' /\ NoSegmentLost'
      BY <1>1, <2>2, FilesKept DEF WriteFails, pipe, past, disk, files
    <3> QED
      BY <1>1, <2>2, <3>1 DEF WriteFails, Inv, TypeOK, CacheTyped, PipeTyped,
                              Pending, Entry
  <2> QED
    BY <2>1, <2>2 DEF FlushInCall
<1>4. \A u \in Items \X Attempts :
         IF u = t THEN call'[u] = d ELSE call'[u] = call[u]
  BY <1>1, <1>2
<1>5. PipeTyped'
  <2>1. setup' \in SetupRecord
    BY <1>3, FaultTyped
  <2> QED
    BY <1>1, <1>3, <2>1 DEF Inv, TypeOK, PipeTyped, SetupRecord, pipe, past
<1>6. WorkersTyped'
  BY <1>1, <1>2 DEF Inv, TypeOK, WorkersTyped, CallRecord
<1>7. Answered'
  BY <1>2, <1>4 DEF Inv, Answered
<1>8. HandingOff'
  <2>1. <<Main, 0>> \in Threads \ {t} /\ \A u \in Items \X Attempts : u \in Threads
    BY CallsAssumption DEF Threads
  <2> QED
    BY <1>1, <1>2, <1>3, <1>4, <2>1 DEF Inv, HandingOff, pipe
<1>9. Attempted' /\ AskedOnce'
  BY <1>1, <1>2, <1>3, <1>4, CallKeepsOrder DEF LookedUp
<1> QED
  BY <1>3, <1>5, <1>6, <1>7, <1>8, <1>9 DEF Inv, TypeOK

-----------------------------------------------------------------------------
(* The workers.                                                            *)

LEMMA AttemptKeepsInv ==
  ASSUME Inv, NEW i \in Items, Attempt(i)
  PROVE  Inv'
<1> USE CallsAssumption
<1>1. UNCHANGED <<pipe, discards, memory, disk, history>>
  BY DEF Attempt
<1>2. CacheTyped' /\ FilesTyped' /\ NoSegmentLost'
  BY <1>1, FilesKept DEF Inv, TypeOK, CacheTyped, pipe, past, memory
<1>3. CASE abandoned
  <2>1. /\ item' = [item EXCEPT ![i].st = "dropped"] /\ UNCHANGED <<setup, call>>
    BY <1>3 DEF Attempt, Worker
  <2>2. PipeTyped' /\ WorkersTyped'
    BY <1>1, <2>1 DEF Inv, TypeOK, PipeTyped, WorkersTyped, pipe, past, history
  <2>3. Answered' /\ HandingOff'
    BY <1>1, <2>1 DEF Inv, Answered, HandingOff, pipe, disk
  <2>4. Attempted' /\ AskedOnce'
    BY <1>1, <2>1 DEF Inv, TypeOK, WorkersTyped, Attempted, AskedOnce, LookedUp,
                      memory, history
  <2> QED
    BY <1>2, <2>2, <2>3, <2>4 DEF Inv, TypeOK
<1>4. CASE ~abandoned
  <2> DEFINE n == item[i].n + 1
  <2>1. /\ item' = [item EXCEPT ![i] = [st |-> "calling", n |-> n]]
        /\ item[i].st \in {"queued", "backoff"}
    BY <1>4 DEF Attempt
  <2>2. PICK slow \in BOOLEAN :
           /\ call' = [call EXCEPT ![<<i, n>>].st = "start", ![<<i, n>>].slow = slow]
           /\ slow => setup.slow > 0
           /\ setup' = [setup EXCEPT !.slow = IF slow THEN setup.slow - 1 ELSE setup.slow]
    BY <1>4 DEF Attempt
  <2>3. item[i].n \in 0..MaxAttempts /\ item[i].n < MaxAttempts /\ n \in Attempts
    BY <2>1 DEF Inv, TypeOK, WorkersTyped, Attempted, Attempts
  <2>4. call[<<i, n>>].st = "none"
    BY <2>3 DEF Inv, Attempted, Attempts
  <2>5. \A t \in Items \X Attempts :
           IF t = <<i, n>> THEN call'[t].st = "start" ELSE call'[t] = call[t]
    BY <2>2, <2>3 DEF Inv, TypeOK, WorkersTyped
  <2>6. WorkersTyped'
    <3>1. [st |-> "calling", n |-> n] \in [n : 0..MaxAttempts,
             st : {"queued", "calling", "backoff", "failing", "done", "failed", "dropped"}]
      BY <2>3 DEF Attempts
    <3>2. call \in [Items \X Attempts -> CallRecord]
      BY DEF Inv, TypeOK, WorkersTyped, CallRecord
    <3>3. call' = [call EXCEPT ![<<i, n>>] =
                      [call[<<i, n>>] EXCEPT !.st = "start", !.slow = slow]]
      BY <2>2, <2>3, <3>2
    <3>4. [call[<<i, n>>] EXCEPT !.st = "start", !.slow = slow] \in CallRecord
      <4>1. call[<<i, n>>] \in CallRecord
        BY <2>3, <3>2
      <4> QED
        BY <4>1 DEF CallRecord
    <3>5. call' \in [Items \X Attempts -> CallRecord]
      BY <2>3, <3>2, <3>3, <3>4
    <3> QED
      BY <1>1, <2>1, <3>1, <3>5 DEF Inv, TypeOK, WorkersTyped, CallRecord
  <2>7. PipeTyped'
    <3>1. setup'.slow \in Nat
      BY <2>2 DEF Inv, TypeOK, PipeTyped
    <3> QED
      BY <1>1, <2>2, <3>1 DEF Inv, TypeOK, PipeTyped, pipe, past, history
  <2>8. Answered' /\ HandingOff'
    BY <1>1, <2>4, <2>5 DEF Inv, Answered, HandingOff, pipe, disk
  <2>9. Attempted'
    <3>1. \A k \in Items : item'[k] = IF k = i THEN [st |-> "calling", n |-> n] ELSE item[k]
      BY <2>1 DEF Inv, TypeOK, WorkersTyped
    <3>2. \A k \in Items, a \in Attempts : k # i => call'[<<k, a>>] = call[<<k, a>>]
      BY <2>5
    <3>3. \A a \in Attempts :
             call'[<<i, a>>].st = "none" <=> call[<<i, a>>].st = "none" /\ a # n
      BY <2>5
    <3>4. \A a \in Attempts : a > n <=> a > item[i].n /\ a # n
      BY <2>3 DEF Attempts
    <3> QED
      BY <2>3, <3>1, <3>2, <3>3, <3>4 DEF Inv, Attempted
  <2>10. AskedOnce'
    <3>1. \A k \in Items, a \in Attempts : LookedUp(k, a)' <=> LookedUp(k, a)
      BY <2>4, <2>5 DEF LookedUp
    <3> QED
      BY <1>1, <3>1 DEF Inv, AskedOnce, memory, history
  <2> QED
    BY <1>2, <2>6, <2>7, <2>8, <2>9, <2>10 DEF Inv, TypeOK
<1> QED
  BY <1>3, <1>4

\* A worker moves on from its last attempt.
LEMMA WorkerMoves ==
  ASSUME Inv, NEW i \in Items, NEW st \in {"done", "backoff", "failing", "failed"},
         item' = [item EXCEPT ![i].st = st],
         st = "backoff" => item[i].n < MaxAttempts,
         \A t \in Items \X Attempts :
             /\ call'[t].st # call[t].st => call'[t].st = "ret" /\ call[t].st = "hand"
             /\ call'[t].st = "store" => call'[t].resp = call[t].resp
             /\ call'[t].st # call[t].st => due[t] = <<>>,
         UNCHANGED <<main, due, served, asked>>
  PROVE  Answered' /\ Attempted' /\ AskedOnce' /\ HandingOff'
<1>1. Answered'
  BY DEF Inv, Answered
<1>2. HandingOff'
  BY DEF Inv, HandingOff
<1>3. \A k \in Items, a \in Attempts :
         /\ LookedUp(k, a)' <=> LookedUp(k, a)
         /\ call'[<<k, a>>].st = "none" <=> call[<<k, a>>].st = "none"
  BY DEF LookedUp
<1>4. \A k \in Items : /\ item'[k].n = item[k].n
                       /\ item'[k].st = IF k = i THEN st ELSE item[k].st
  BY DEF Inv, TypeOK, WorkersTyped
<1>5. Attempted'
  BY <1>3, <1>4 DEF Inv, Attempted
<1>6. AskedOnce'
  BY <1>3 DEF Inv, AskedOnce
<1> QED
  BY <1>1, <1>2, <1>5, <1>6

LEMMA WorkerKeepsInv ==
  ASSUME Inv, NEW i \in Items, Return(i) \/ Timeout(i) \/ Fail(i)
  PROVE  Inv'
<1> USE CallsAssumption
<1> DEFINE n == item[i].n
<1>1. call \in [Items \X Attempts -> CallRecord] /\ item[i].n \in 0..MaxAttempts
  BY DEF Inv, TypeOK, WorkersTyped, CallRecord
<1>2. /\ UNCHANGED <<pipe, setup, discards, disk, asked, served>>
      /\ unsettled' \subseteq Items /\ CacheTyped'
  <2>1. CASE Return(i) \/ Timeout(i)
    BY <2>1 DEF Return, Timeout, Inv, TypeOK, PipeTyped, CacheTyped, memory, history
  <2>2. CASE Fail(i)
    <3>1. UNCHANGED memory \/ discard(i)
      BY <2>2 DEF Fail
    <3>2. CacheTyped' /\ served' = served
      BY <3>1 DEF discard, Inv, TypeOK, CacheTyped, Entry, memory
    <3> QED
      BY <2>2, <3>2 DEF Fail, Inv, TypeOK, PipeTyped
  <2> QED
    BY <2>1, <2>2
<1>3. PICK st \in {"done", "backoff", "failing", "failed"} :
         /\ item' = [item EXCEPT ![i].st = st]
         /\ st = "backoff" => item[i].n < MaxAttempts
  BY DEF Return, Timeout, Fail, Worker, AfterFailure
<1>4. \/ call' = call
      \/ \E c \in CallRecord :
            /\ item[i].st = "calling" /\ n \in Attempts
            /\ call' = [call EXCEPT ![<<i, n>>] = c]
            /\ \/ c.st = call[<<i, n>>].st /\ c.resp = call[<<i, n>>].resp
               \/ c.st = "ret" /\ Returned(i, n)
  <2>1. CASE Fail(i)
    BY <2>1 DEF Fail
  <2>2. CASE Return(i) \/ Timeout(i)
    <3>1. item[i].st = "calling" /\ n \in Attempts
      <4>1. item[i].st = "calling"
        BY <2>2 DEF Return, Timeout
      <4>2. n > 0
        BY <4>1 DEF Inv, Attempted
      <4> QED
        BY <1>1, <4>1, <4>2 DEF Attempts
    <3>2. call[<<i, n>>] \in CallRecord
      BY <1>1, <3>1
    <3>3. /\ [call[<<i, n>>] EXCEPT !.st = "ret", !.resp = "none"] \in CallRecord
          /\ [call[<<i, n>>] EXCEPT !.ab = TRUE] \in CallRecord
      BY <3>2 DEF CallRecord
    <3>4. CASE Return(i)
      <4>1. /\ Returned(i, n)
            /\ call' = [call EXCEPT ![<<i, n>>] =
                   [call[<<i, n>>] EXCEPT !.st = "ret", !.resp = "none"]]
        BY <3>4 DEF Return
      <4>2. [call[<<i, n>>] EXCEPT !.st = "ret", !.resp = "none"].st = "ret"
        BY <3>2 DEF CallRecord
      <4> QED
        BY <3>1, <3>3, <4>1, <4>2
    <3>5. CASE Timeout(i)
      <4>1. CASE Returned(i, n)
        <5>1. call' = [call EXCEPT ![<<i, n>>] =
                 [call[<<i, n>>] EXCEPT !.st = "ret", !.resp = "none"]]
          BY <3>5, <4>1 DEF Timeout
        <5>2. [call[<<i, n>>] EXCEPT !.st = "ret", !.resp = "none"].st = "ret"
          BY <3>2 DEF CallRecord
        <5> QED
          BY <3>1, <3>3, <4>1, <5>1, <5>2
      <4>2. CASE ~Returned(i, n)
        <5>1. call' = [call EXCEPT ![<<i, n>>] = [call[<<i, n>>] EXCEPT !.ab = TRUE]]
          BY <3>5, <4>2 DEF Timeout
        <5>2. /\ [call[<<i, n>>] EXCEPT !.ab = TRUE].st = call[<<i, n>>].st
              /\ [call[<<i, n>>] EXCEPT !.ab = TRUE].resp = call[<<i, n>>].resp
          BY <3>2 DEF CallRecord
        <5> QED
          BY <3>1, <3>3, <5>1, <5>2
      <4> QED
        BY <4>1, <4>2
    <3> QED
      BY <2>2, <3>4, <3>5
  <2> QED
    BY <2>1, <2>2
<1> DEFINE Settles ==
        \A t \in Items \X Attempts :
           /\ call'[t].st # call[t].st => call'[t].st = "ret" /\ call[t].st = "hand"
           /\ call'[t].st = "store" => call'[t].resp = call[t].resp
           /\ call'[t].st # call[t].st => due[t] = <<>>
<1>5. Settles
  <2>1. CASE call' = call
    BY <2>1
  <2>2. ASSUME NEW c \in CallRecord,
               n \in Attempts, call' = [call EXCEPT ![<<i, n>>] = c],
               \/ c.st = call[<<i, n>>].st /\ c.resp = call[<<i, n>>].resp
               \/ c.st = "ret" /\ Returned(i, n)
        PROVE  Settles
    <3>1. \A t \in Items \X Attempts :
             IF t = <<i, n>> THEN call'[t] = c ELSE call'[t] = call[t]
      BY <1>1, <2>2
    <3>2. Returned(i, n) => \/ call[<<i, n>>].st = "ret"
                            \/ call[<<i, n>>].st = "hand" /\ due[<<i, n>>] = <<>>
      BY DEF Returned
    <3> QED
      BY <2>2, <3>1, <3>2
  <2> QED
    BY <1>4, <2>1, <2>2
<1>6. PipeTyped'
  BY <1>2 DEF Inv, TypeOK, PipeTyped, pipe, past
<1>7. WorkersTyped'
  <2>1. call' \in [Items \X Attempts -> CallRecord]
    BY <1>1, <1>4
  <2> QED
    BY <1>2, <1>3, <2>1, ZenonT(60) DEF Inv, TypeOK, WorkersTyped, CallRecord
<1>8. FilesTyped' /\ NoSegmentLost'
  BY <1>2, FilesKept DEF pipe, past
<1>9. Answered' /\ Attempted' /\ AskedOnce' /\ HandingOff'
  BY <1>2, <1>3, <1>5, WorkerMoves DEF pipe, disk
<1> QED
  BY <1>2, <1>6, <1>7, <1>8, <1>9 DEF Inv, TypeOK

-----------------------------------------------------------------------------
(* The pipeline's thread.                                                  *)

\* Steps of the pipeline's thread leave the workers and their calls alone.
LEMMA PipelineKeepsWorkers ==
  ASSUME Inv, UNCHANGED <<workers, served, asked>>
  PROVE  WorkersTyped' /\ Answered' /\ Attempted' /\ AskedOnce'
BY DEF Inv, TypeOK, WorkersTyped, Answered, Attempted, AskedOnce, LookedUp, workers

LEMMA PipelineKeepsInv ==
  ASSUME Inv, Completed \/ Stop \/ SyncToS3 \/ Deactivate
  PROVE  Inv'
<1>1. /\ UNCHANGED <<past, workers, served, pending, written, files, due, history>>
      /\ abandoned' \in BOOLEAN
      /\ setup' = setup \/ Fault
      /\ entries' \in [Items -> {"none", "good", "bad"}]
  BY DEF Completed, Stop, SyncToS3, Deactivate, disk, memory, Inv, TypeOK,
         PipeTyped, CacheTyped
<1>2. /\ main' \in {"flush", "close", "closed"} /\ due[<<Main, 0>>] = <<>>
      /\ s3 \subseteq s3' /\ s3' \subseteq s3 \cup local
  BY DEF Completed, Stop, SyncToS3, Deactivate, Goto, Inv, HandingOff, disk
<1>3. setup' \in SetupRecord
  BY <1>1, FaultTyped
<1>4. PipeTyped' /\ CacheTyped'
  BY <1>1, <1>2, <1>3 DEF Inv, TypeOK, PipeTyped, CacheTyped, SetupRecord, past, history
<1>5. FilesTyped'
  BY <1>1, <1>2 DEF Inv, TypeOK, FilesTyped, Segments, files, past
<1>6. NoSegmentLost'
  BY <1>1, <1>2 DEF Inv, NoSegmentLost, files, past
<1>7. HandingOff'
  BY <1>1, <1>2 DEF Inv, HandingOff, workers
<1>8. WorkersTyped' /\ Answered' /\ Attempted' /\ AskedOnce'
  BY <1>1, PipelineKeepsWorkers DEF history
<1> QED
  BY <1>4, <1>5, <1>6, <1>7, <1>8 DEF Inv, TypeOK

LEMMA FlushInMainKeepsInv ==
  ASSUME Inv, FlushInMain
  PROVE  Inv'
<1> DEFINE t == <<Main, 0>>
<1>1. /\ t \in Threads /\ due[t] = <<>>
      /\ \A u \in Items \X Attempts : u \in Threads \ {t}
  BY CallsAssumption DEF FlushInMain, Inv, HandingOff, Threads
<1>2. UNCHANGED <<past, abandoned, workers, s3, asked>>
  BY DEF FlushInMain
<1>3. /\ CacheTyped' /\ FilesTyped' /\ NoSegmentLost' /\ served' = served
      /\ \A u \in Threads \ {t} : due'[u] = due[u]
      /\ due'[t] = <<>> \/ main' \in {"sync", "deactivate"}
      /\ main' \in {"sync", "deactivate", "close", "closed"}
      /\ unsettled' \subseteq Items
      /\ Fault \/ setup' = setup
  <2>1. CASE flush(t) /\ UNCHANGED <<setup, unsettled>>
                      /\ main' \in {"sync", "deactivate"}
    BY <1>1, <1>2, <2>1, FlushKeeps DEF past, Inv, TypeOK, PipeTyped
  <2>2. CASE WriteFails /\ main' \in {"close", "closed"}
    <3>1. FilesTyped' /\ NoSegmentLost'
      BY <1>2, <2>2, FilesKept DEF WriteFails, past, disk, files
    <3> QED
      BY <1>1, <1>2, <2>2, <3>1 DEF WriteFails, Inv, TypeOK, CacheTyped, PipeTyped,
                              Pending, Entry
  <2> QED
    BY <2>1, <2>2 DEF FlushInMain, Goto
<1>4. setup' \in SetupRecord
  BY <1>3, FaultTyped
<1>5. PipeTyped'
  BY <1>2, <1>3, <1>4 DEF Inv, TypeOK, PipeTyped, SetupRecord, past
<1>6. HandingOff'
  BY <1>1, <1>2, <1>3 DEF Inv, HandingOff, workers
<1>7. WorkersTyped' /\ Answered' /\ Attempted' /\ AskedOnce'
  BY <1>2, <1>3, PipelineKeepsWorkers
<1> QED
  BY <1>3, <1>5, <1>6, <1>7 DEF Inv, TypeOK

\* A new run starts with what the segments it finds load as.
LEMMA NextRunKeepsInv ==
  ASSUME Inv, NextRun(local) \/ NextRun(s3)
  PROVE  Inv'
<1> USE CallsAssumption
<1>1. PICK found \in SUBSET Segments : NextRun(found)
  BY DEF Inv, TypeOK, FilesTyped
<1>2. Idle /\ Opened(found) /\ (setup' = setup \/ Fault)
  BY <1>1 DEF NextRun
<1>3. setup' \in SetupRecord
  BY <1>2, FaultTyped
<1>4. PipeTyped'
  <2>1. before' \in [Items -> {"answered", "failed", "unknown"}]
    BY <1>1 DEF NextRun, Outcome
  <2>2. run' \in 1..MaxRuns
    BY <1>1 DEF NextRun, Inv, TypeOK, PipeTyped
  <2> QED
    BY <1>2, <1>3, <2>1, <2>2 DEF Idle, PipeTyped, SetupRecord
<1>5. WorkersTyped'
  BY <1>2 DEF Idle, WorkersTyped, NoCall
<1>6. CacheTyped'
  <2>1. Load(found) \in [Items -> {"none", "good", "bad"}]
    BY LoadTyped DEF Inv
  <2> QED
    BY <1>2, <2>1 DEF Opened, CacheTyped, Entry
<1>7. FilesTyped'
  <2>1. /\ segments' = segments /\ s3' = s3 /\ local' = found /\ base' = Len(segments)
        /\ unsynced' = <<>> /\ due' = [t \in Threads |-> <<>>]
    BY <1>1, <1>2 DEF NextRun, Opened, Idle
  <2>2. <<>> \in Seq(Segments) /\ Len(segments) \in Nat
    BY EmptySeq, LenProperties DEF Inv, TypeOK, FilesTyped
  <2> QED
    BY <2>1, <2>2 DEF Inv, TypeOK, FilesTyped, Segments
<1>8. NoSegmentLost'
  <2>1. \A k \in local' : k <= base'
    BY <1>1 DEF NextRun, Segments
  <2> QED
    BY <2>1 DEF NoSegmentLost
<1>9. Answered' /\ Attempted' /\ AskedOnce'
  BY <1>2 DEF Idle, Answered, Attempted, AskedOnce, LookedUp, NoCall, Attempts
<1>10. HandingOff'
  BY <1>2 DEF Idle, HandingOff, Threads
<1> QED
  BY <1>4, <1>5, <1>6, <1>7, <1>8, <1>9, <1>10 DEF Inv, TypeOK

LEMMA NextInv == Inv /\ [Next]_vars => Inv'
<1> SUFFICES ASSUME Inv, [Next]_vars PROVE Inv'
  OBVIOUS
<1>1. CASE UNCHANGED vars
  <2>1. UNCHANGED <<pipe, setup, workers, memory, disk, history>>
    BY <1>1 DEF vars
  <2>2. WorkersTyped' /\ Answered' /\ Attempted' /\ AskedOnce'
    BY <2>1, PipelineKeepsWorkers DEF memory, history
  <2>3. FilesTyped' /\ NoSegmentLost'
    BY <2>1, FilesKept DEF pipe, past
  <2>4. PipeTyped' /\ CacheTyped' /\ HandingOff'
    BY <2>1 DEF Inv, TypeOK, PipeTyped, CacheTyped, HandingOff, pipe, past, workers,
                memory, disk, history
  <2> QED
    BY <2>2, <2>3, <2>4 DEF Inv, TypeOK
<1>2. ASSUME NEW i \in Items, Caller(i) PROVE Inv'
  BY <1>2, AttemptKeepsInv, WorkerKeepsInv DEF Caller
<1>3. ASSUME NEW i \in Items, NEW a \in Attempts, Call(i, a) PROVE Inv'
  <2>1. <<i, a>> \in Threads
    BY DEF Threads
  <2> QED
    BY <1>3, <2>1, LookupKeepsInv, CallKeepsInv, FlushInCallKeepsInv, HandOffKeepsInv
       DEF Call
<1>4. CASE Pipeline \/ Stop
  <2>1. <<Main, 0>> \in Threads
    BY DEF Threads
  <2> QED
    BY <1>4, <2>1, PipelineKeepsInv, FlushInMainKeepsInv, HandOffKeepsInv DEF Pipeline
<1>5. CASE NextRun(local) \/ NextRun(s3)
  BY <1>5, NextRunKeepsInv
<1> QED
  BY <1>1, <1>2, <1>3, <1>4, <1>5 DEF Next

LEMMA Invariance == Spec => []Inv
  BY InitInv, NextInv, PTL DEF Spec

(* Every variable keeps its type. *)
THEOREM TypeCorrect == Spec => []TypeOK
<1>1. Inv => TypeOK
  BY DEF Inv
<1> QED
  BY <1>1, Invariance, PTL

(* response_cache.py, flush: however threads flush at the same time, and   *)
(* whichever uploads fail, no segment of the run is forgotten.             *)
THEOREM SegmentsAreKept == Spec => []NoSegmentLost
<1>1. Inv => NoSegmentLost
  BY DEF Inv
<1> QED
  BY <1>1, Invariance, PTL

(* response_cache.py, lookup: an item that has used all its attempts has   *)
(* asked the model, since its stored response is served once.              *)
THEOREM FailuresAreFresh == Spec => []FailureIsFresh
<1>1. Inv => FailureIsFresh
  <2> SUFFICES ASSUME Inv, NEW i \in Items,
                      item[i].n = MaxAttempts, MaxAttempts > 1,
                      \A a \in Attempts : call[<<i, a>>].st # "start",
                      i \notin asked
               PROVE  FALSE
    BY DEF FailureIsFresh
  <2>1. 1 \in Attempts /\ 2 \in Attempts
    BY CallsAssumption DEF Attempts
  <2>2. \A a \in Attempts : LookedUp(i, a)
    BY CallsAssumption DEF Inv, Attempted, LookedUp, Attempts
  <2> QED
    BY <2>1, <2>2 DEF Inv, AskedOnce
<1> QED
  BY <1>1, Invariance, PTL

-----------------------------------------------------------------------------
(* What a run leaves is what the next one finds.  An item is settled unless *)
(* it is in unsettled; what the segments and the pending entries make of it *)
(* then follows its call, its worker and the entries a lookup would serve.  *)

\* What the segments of this host load as once the pending entry is written.
Remembered(i) ==
    IF pending[i] = "none" THEN Load(local)[i]
    ELSE IF pending[i] = "gone" THEN "none" ELSE pending[i]

\* The response a lookup of i would serve.
Servable(i) ==
    IF open /\ setup.lookups /\ i \notin served THEN entries[i] ELSE "none"

\* The call the worker of i waits for.
Current(i, a) == item[i].st = "calling" /\ item[i].n = a

\* A response in the hands of a call is the one remembered, until the worker
\* takes it; nothing is stored of an item that could be served.
CallSettled(i, a) ==
    LET c == call[<<i, a>>] IN
    /\ c.st = "none" \/ Current(i, a) => ~c.ab
    /\ c.st \in {"hit", "store", "stored", "full"} => ~c.ab
    /\ c.st \notin {"none", "ret"} /\ ~c.ab => Current(i, a)
    /\ c.st \in {"hit", "stored", "full"} => Remembered(i) = c.resp
    /\ c.st \in {"flush", "hand", "ret"} /\ Current(i, a) /\ c.resp = "good"
           => Remembered(i) = "good"
    /\ c.st \in {"ask", "store"} /\ ~c.ab => Servable(i) = "none"

\* An item that ended well is remembered, one that failed is forgotten.
EndSettled(i) ==
    /\ item[i].st = "done" => Remembered(i) = "good"
    /\ item[i].st = "failed" /\ i \in discards => Remembered(i) = "none"

Settled(i) ==
    /\ \A a \in Attempts : CallSettled(i, a)
    /\ EndSettled(i)
    /\ Servable(i) # "none" => Remembered(i) = Servable(i)

\* discard knows of every response a segment holds.
WrittenKnown == \A i \in Items : Load(local)[i] # "none" => i \in written

\* What waits for S3, and what is there, is on this host.
FilesHere ==
    /\ s3 \subseteq local
    /\ \A k : In(unsynced, k) => k \in local
    /\ \A t \in Threads : \A k : In(due[t], k) => k \in local

CarryInv ==
    /\ Inv
    /\ \A i \in Items \ unsettled : Settled(i)
    /\ WrittenKnown /\ FilesHere /\ CarriesOver

\* Segments that say nothing of an item do not change what it loads as.
LEMMA LoadOfSame ==
  ASSUME NEW ks, NEW js, NEW i \in Items,
         {k \in ks : segments[k][i] # "none"} = {k \in js : segments[k][i] # "none"}
  PROVE  Load(ks)[i] = Load(js)[i]
BY DEF Load

\* The last segment decides.
LEMMA LoadOfNewest ==
  ASSUME TypeOK, NEW ks \in SUBSET Segments, NEW i \in Items,
         NEW new \in ks, \A k \in ks : k <= new, segments[new][i] # "none"
  PROVE  Load(ks)[i] = IF segments[new][i] = "gone" THEN "none" ELSE segments[new][i]
<1> DEFINE K == {k \in ks : segments[k][i] # "none"}
<1>1. Len(segments) \in Nat
  BY LenProperties DEF TypeOK, FilesTyped
<1>2. K \in SUBSET (1..Len(segments)) /\ new \in K /\ K # {}
  BY DEF Segments
<1>3. Max(K) \in K /\ \A k \in K : Max(K) >= k
  <2>1. \A k \in K : new >= k
    BY <1>1, <1>2
  <2> QED
    BY <1>2, <2>1 DEF Max
<1>4. Max(K) = new
  <2>1. PICK m : m = Max(K)
    OBVIOUS
  <2>2. m \in Nat /\ new \in Nat /\ m >= new /\ new >= m
    <3>1. m \in 1..Len(segments) /\ new \in 1..Len(segments)
      BY <1>2, <1>3, <2>1
    <3>2. m >= new /\ m \in ks
      BY <1>2, <1>3, <2>1
    <3> QED
      BY <1>1, <3>1, <3>2
  <2> QED
    BY <2>1, <2>2
<1> QED
  BY <1>2, <1>4 DEF Load

\* What a step must leave of an item to leave it settled.
LEMMA SettledKept ==
  ASSUME NEW i \in Items, Settled(i),
         item'[i] = item[i], \A a \in Attempts : call'[<<i, a>>] = call[<<i, a>>],
         i \in discards' <=> i \in discards,
         Remembered(i)' = Remembered(i), Servable(i)' \in {"none", Servable(i)}
  PROVE  Settled(i)'
<1>1. \A a \in Attempts : CallSettled(i, a)'
  BY DEF Settled, CallSettled, Current
<1>2. EndSettled(i)'
  BY DEF Settled, EndSettled
<1> QED
  BY <1>1, <1>2 DEF Settled

\* A load is of the segments, whatever else changes.
LEMMA LoadKept ==
  ASSUME UNCHANGED <<segments, local>>
  PROVE  \A i \in Items : Load(local)'[i] = Load(local)[i]
BY DEF Load

\* A flush moves what is remembered from memory to a segment.
LEMMA FlushRemembers ==
  ASSUME CarryInv, NEW t \in Threads, flush(t), UNCHANGED s3
  PROVE  /\ \A i \in Items : Remembered(i)' = Remembered(i)
         /\ WrittenKnown' /\ FilesHere' /\ UNCHANGED <<entries, served>>
<1>1. CASE Pending = {} \/ ~open
  <2>1. UNCHANGED <<memory, files, due>>
    BY <1>1 DEF flush
  <2>2. \A i \in Items : Load(local)'[i] = Load(local)[i]
    BY <2>1, LoadKept DEF files
  <2>3. \A i \in Items : Remembered(i)' = Remembered(i)
    BY <2>1, <2>2 DEF Remembered, memory
  <2>4. WrittenKnown' /\ FilesHere'
    BY <2>1, <2>2 DEF CarryInv, WrittenKnown, FilesHere, memory, files
  <2> QED
    BY <2>1, <2>3, <2>4 DEF memory
<1>2. CASE ~(Pending = {} \/ ~open)
  <2> DEFINE new == Len(segments) + 1
  <2>1. /\ segments' = Append(segments, pending)
        /\ local' = local \cup {Len(segments')}
        /\ pending' = [i \in Items |-> "none"]
        /\ written' = written \cup {i \in Pending : pending[i] # "gone"}
        /\ due' = [due EXCEPT ![t] = Append(unsynced, Len(segments'))]
        /\ unsynced' = <<>>
        /\ entries' = entries /\ served' = served
    BY <1>2 DEF flush
  <2>2. /\ segments \in Seq([Items -> Entry]) /\ pending \in [Items -> Entry]
        /\ unsynced \in Seq(Segments) /\ due \in [Threads -> Seq(Segments)]
        /\ local \subseteq Segments
    BY DEF CarryInv, Inv, TypeOK, CacheTyped, FilesTyped
  <2>3. /\ Len(segments) \in Nat /\ Len(segments') = new /\ segments'[new] = pending
        /\ \A k \in Segments : segments'[k] = segments[k]
    BY <2>1, <2>2, AppendProperties, LenProperties DEF Segments
  <2>4. /\ local' = local \cup {new} /\ new \notin local
        /\ local' \subseteq 1..new /\ \A k \in local' : k <= new
    <3>1. local' = local \cup {new}
      BY <2>1, <2>3
    <3>2. \A k \in local : k \in 1..new /\ k < new
      BY <2>2, <2>3 DEF Segments
    <3>3. new \in 1..new /\ new <= new /\ ~(new < new)
      BY <2>3
    <3> HIDE DEF new
    <3>4. new \notin local
      BY <3>2, <3>3
    <3>5. \A k \in local' : k \in 1..new /\ k <= new
      BY <3>1, <3>2, <3>3
    <3> QED
      BY <3>1, <3>4, <3>5
  <2>5. ASSUME NEW i \in Items
        PROVE  /\ Load(local)'[i] = Remembered(i)
               /\ Remembered(i)' = Remembered(i)
               /\ Load(local)'[i] # "none" => i \in written'
    <3> DEFINE K == {k \in local : segments[k][i] # "none"}
               L == {k \in local' : segments'[k][i] # "none"}
    <3>1. CASE pending[i] = "none"
      <4>1. L = K
        BY <2>2, <2>3, <2>4, <3>1
      <4>2. \A k \in K : segments'[k] = segments[k]
        BY <2>2, <2>3
      <4>3. K # {} => Max(K) \in K
        BY <2>2, <2>3, MaxIn DEF Segments
      <4>4. Load(local)'[i] = Load(local)[i]
        <5>1. Load(local)'[i] = IF L = {} \/ segments'[Max(L)][i] = "gone" THEN "none"
                                ELSE segments'[Max(L)][i]
          BY DEF Load
        <5>2. Load(local)[i] = IF K = {} \/ segments[Max(K)][i] = "gone" THEN "none"
                                ELSE segments[Max(K)][i]
          BY DEF Load
        <5> HIDE DEF K, L
        <5> QED
          BY <5>1, <5>2, <4>1, <4>2, <4>3
      <4> QED
        BY <2>1, <3>1, <4>4 DEF Remembered, CarryInv, WrittenKnown
    <3>2. CASE pending[i] # "none"
      <4>1. new \in L /\ L \subseteq 1..new
        BY <2>3, <2>4, <3>2
      <4>2. \A k \in L : new >= k
        BY <2>3, <4>1
      <4>3. Max(L) = new
        <5>1. Max(L) \in L /\ \A k \in L : Max(L) >= k
          BY <4>1, <4>2 DEF Max
        <5>2. PICK m : m = Max(L)
          OBVIOUS
        <5>3. m \in 1..new /\ m >= new
          BY <4>1, <5>1, <5>2
        <5> QED
          BY <2>3, <5>2, <5>3
      <4>4. Load(local)'[i] = IF pending[i] = "gone" THEN "none" ELSE pending[i]
        <5>1. Load(local)'[i] = IF L = {} \/ segments'[Max(L)][i] = "gone" THEN "none"
                                ELSE segments'[Max(L)][i]
          BY DEF Load
        <5> HIDE DEF L
        <5> QED
          BY <5>1, <4>1, <4>3, <2>3
      <4>5. pending[i] # "gone" => i \in written'
        BY <2>1, <3>2 DEF Pending
      <4> QED
        BY <2>1, <3>2, <4>4, <4>5 DEF Remembered
    <3> QED
      BY <3>1, <3>2
  <2>6. FilesHere'
    <3>1. Append(unsynced, new) \in Seq(1..new)
      <4>1. unsynced \in Seq(1..new)
        BY <2>2, <2>3, SeqMonotonic DEF Segments
      <4> QED
        BY <2>3, <4>1, AppendProperties
    <3>2. \A k : In(due'[t], k) => In(unsynced, k) \/ k = new
      <4>1. due'[t] = Append(unsynced, new) /\ unsynced \in Seq(1..new) /\ new \in 1..new
        BY <2>1, <2>2, <2>3, SeqMonotonic DEF Segments
      <4> QED
        BY <4>1, InAppend
    <3>3. \A u \in Threads \ {t} : due'[u] = due[u]
      BY <2>1, <2>2
    <3>4. \A k : ~In(unsynced', k)
      BY <2>1 DEF In
    <3> QED
      BY <2>4, <3>2, <3>3, <3>4 DEF CarryInv, FilesHere
  <2>7. WrittenKnown'
    BY <2>5 DEF WrittenKnown
  <2> QED
    BY <2>1, <2>5, <2>6, <2>7
<1> QED
  BY <1>1, <1>2

LEMMA FilesHereKept ==
  ASSUME CarryInv, UNCHANGED <<segments, local, written, unsynced, due, s3>>
  PROVE  /\ WrittenKnown' /\ FilesHere'
         /\ \A i \in Items : Load(local)'[i] = Load(local)[i]
<1>1. \A i \in Items : Load(local)'[i] = Load(local)[i]
  BY LoadKept
<1> QED
  BY <1>1 DEF CarryInv, WrittenKnown, FilesHere

\* A write that fails unsettles what it loses.
LEMMA WriteFailsRemembers ==
  ASSUME CarryInv, WriteFails, UNCHANGED s3
  PROVE  /\ \A i \in Items \ unsettled' : Remembered(i)' = Remembered(i)
         /\ WrittenKnown' /\ FilesHere' /\ UNCHANGED <<entries, served>>
         /\ unsettled \subseteq unsettled'
<1>1. /\ pending' = [i \in Items |-> "none"]
      /\ unsettled' = unsettled \cup Pending
      /\ UNCHANGED <<entries, served, written, segments, local, unsynced, due>>
  BY DEF WriteFails, files
<1>2. /\ WrittenKnown' /\ FilesHere'
      /\ \A i \in Items : Load(local)'[i] = Load(local)[i]
  BY <1>1, FilesHereKept
<1>3. ASSUME NEW i \in Items \ unsettled' PROVE Remembered(i)' = Remembered(i)
  <2>1. pending[i] = "none" /\ pending'[i] = "none"
    BY <1>1 DEF Pending
  <2> QED
    BY <1>2, <2>1 DEF Remembered
<1> QED
  BY <1>1, <1>2, <1>3

\* A step of one call that leaves what is remembered.
LEMMA CallMovesOn ==
  ASSUME CarryInv, NEW i \in Items, NEW a \in Attempts,
         UNCHANGED item, unsettled \subseteq unsettled',
         \A t \in Items \X Attempts : t # <<i, a>> => call'[t] = call[t],
         \A k \in Items \ unsettled' : /\ Remembered(k)' = Remembered(k)
                                       /\ Servable(k)' \in {"none", Servable(k)}
                                       /\ k # i => (k \in discards' <=> k \in discards),
         i \notin unsettled' => CallSettled(i, a)',
         i \in discards' => i \in discards \/ i \in unsettled' \/ item[i].st # "failed"
  PROVE  \A k \in Items \ unsettled' : Settled(k)'
<1> SUFFICES ASSUME NEW k \in Items \ unsettled' PROVE Settled(k)'
  OBVIOUS
<1>1. Settled(k)
  BY DEF CarryInv
<1>2. CASE k # i
  BY <1>1, <1>2, SettledKept
<1>3. CASE k = i
  <2>1. \A b \in Attempts : CallSettled(i, b)'
    <3> SUFFICES ASSUME NEW b \in Attempts, b # a PROVE CallSettled(i, b)'
      BY <1>3
    <3>1. call'[<<i, b>>] = call[<<i, b>>]
      OBVIOUS
    <3> QED
      BY <1>1, <1>3, <3>1 DEF Settled, CallSettled, Current
  <2>2. EndSettled(i)'
    BY <1>1, <1>3 DEF Settled, EndSettled
  <2> QED
    BY <1>1, <1>3, <2>1, <2>2 DEF Settled
<1> QED
  BY <1>2, <1>3

LEMMA LookupCarries ==
  ASSUME CarryInv, NEW i \in Items, NEW a \in Attempts, lookup(i, a)
  PROVE  (\A k \in Items \ unsettled' : Settled(k)') /\ WrittenKnown' /\ FilesHere'
<1> DEFINE c == call[<<i, a>>]
           r == Hit(i, c)
<1>1. /\ c.st = "start"
      /\ call' = [call EXCEPT
             ![<<i, a>>].st = IF r = "none" THEN "ask" ELSE "hit",
             ![<<i, a>>].resp = r]
      /\ served' = IF r = "none" THEN served ELSE served \cup {i}
      /\ UNCHANGED <<pipe, setup, item, discards, entries, pending, written, disk,
                     unsettled>>
      /\ call \in [Items \X Attempts -> CallRecord]
  BY DEF lookup, CarryInv, Inv, TypeOK, WorkersTyped, CallRecord
<1>2. c \in CallRecord /\ \A t \in Items \X Attempts : t # <<i, a>> => call'[t] = call[t]
  BY <1>1
<1>3. call'[<<i, a>>] = [c EXCEPT !.st = IF r = "none" THEN "ask" ELSE "hit",
                                  !.resp = r]
  BY <1>1
<1>4. /\ call'[<<i, a>>].ab = c.ab /\ call'[<<i, a>>].resp = r
      /\ call'[<<i, a>>].st = IF r = "none" THEN "ask" ELSE "hit"
  BY <1>2, <1>3 DEF CallRecord
<1>5. r = IF c.ab THEN "none" ELSE Servable(i)
  BY DEF Hit, Servable
<1>6. WrittenKnown' /\ FilesHere' /\ \A k \in Items : Load(local)'[k] = Load(local)[k]
  BY <1>1, FilesHereKept DEF disk, files
<1>7. \A k \in Items : Remembered(k)' = Remembered(k)
  BY <1>1, <1>6 DEF Remembered
<1>8. \A k \in Items : Servable(k)' \in {"none", Servable(k)}
  BY <1>1 DEF Servable, pipe, open
<1>9. ASSUME i \notin unsettled' PROVE CallSettled(i, a)'
  <2>1. Settled(i) /\ CallSettled(i, a)
    BY <1>1, <1>9 DEF CarryInv, Settled
  <2>2. ~c.ab => Current(i, a)'
    BY <1>1, <2>1 DEF CallSettled, Current
  <2>3. Current(i, a)' => ~c.ab
    BY <1>1, <2>1 DEF CallSettled, Current
  <2>4. CASE r = "none"
    <3>1. ~c.ab => Servable(i)' = "none"
      BY <1>5, <1>8, <2>4
    <3> QED
      BY <1>4, <2>2, <2>3, <2>4, <3>1 DEF CallSettled
  <2>5. CASE r # "none"
    <3>1. ~c.ab /\ Remembered(i)' = r
      BY <1>5, <1>7, <2>1, <2>5 DEF Settled
    <3> QED
      BY <1>4, <2>2, <2>3, <2>5, <3>1 DEF CallSettled
  <2> QED
    BY <2>4, <2>5
<1> QED
  BY <1>1, <1>2, <1>6, <1>7, <1>8, <1>9, CallMovesOn

\* A registered discard, the answer of the model.
LEMMA CallCarries ==
  ASSUME CarryInv, NEW i \in Items, NEW a \in Attempts,
         discard_if_item_fails(i, a) \/ \E r \in Answers : Answer(i, a, r)
  PROVE  (\A k \in Items \ unsettled' : Settled(k)') /\ WrittenKnown' /\ FilesHere'
<1> DEFINE c == call[<<i, a>>]
<1>1. /\ UNCHANGED <<pipe, setup, item, memory, disk, history>>
      /\ discards' \in {discards, discards \cup {i}}
      /\ call \in [Items \X Attempts -> CallRecord] /\ c \in CallRecord
  BY DEF discard_if_item_fails, Answer, CarryInv, Inv, TypeOK, WorkersTyped, CallRecord
<1>2. WrittenKnown' /\ FilesHere' /\ \A k \in Items : Load(local)'[k] = Load(local)[k]
  BY <1>1, FilesHereKept DEF disk, files, memory
<1>3. \A k \in Items : Remembered(k)' = Remembered(k) /\ Servable(k)' = Servable(k)
  BY <1>1, <1>2 DEF Remembered, Servable, memory, pipe, open
<1>4. \E d \in CallRecord : call' = [call EXCEPT ![<<i, a>>] = d]
  <2>1. CASE discard_if_item_fails(i, a)
    <3>1. [c EXCEPT !.st = "flush"] \in CallRecord /\ Ended(c, c.resp) \in CallRecord
      BY <1>1 DEF CallRecord, Ended
    <3>2. call' = [call EXCEPT ![<<i, a>>] =
             IF c.st = "full" THEN [c EXCEPT !.st = "flush"] ELSE Ended(c, c.resp)]
      BY <2>1 DEF discard_if_item_fails
    <3> QED
      BY <3>1, <3>2
  <2>2. ASSUME NEW r \in Answers, Answer(i, a, r)
        PROVE  \E d \in CallRecord : call' = [call EXCEPT ![<<i, a>>] = d]
    <3>1. [c EXCEPT !.st = "store", !.resp = r] \in CallRecord /\ Ended(c, r) \in CallRecord
      BY <1>1 DEF CallRecord, Ended
    <3>2. call' = [call EXCEPT ![<<i, a>>] =
             IF Storable(c, r) THEN [c EXCEPT !.st = "store", !.resp = r] ELSE Ended(c, r)]
      BY <2>2 DEF Answer
    <3> QED
      BY <3>1, <3>2
  <2> QED
    BY <2>1, <2>2
<1>5. \A t \in Items \X Attempts : t # <<i, a>> => call'[t] = call[t]
  BY <1>1, <1>4
<1>6. ASSUME i \notin unsettled' PROVE CallSettled(i, a)'
  <2>1. CallSettled(i, a) /\ UNCHANGED <<Current(i, a), Remembered(i), Servable(i)>>
    BY <1>1, <1>3, <1>6 DEF CarryInv, Settled, history, Current
  <2>2. CASE discard_if_item_fails(i, a)
    <3>1. c.st \in {"hit", "stored", "full"}
      BY <2>2 DEF discard_if_item_fails
    <3>2. ~c.ab /\ Remembered(i) = c.resp
      BY <2>1, <3>1 DEF CallSettled
    <3>3. PICK d : /\ call'[<<i, a>>] = d /\ d.ab = c.ab /\ d.resp = c.resp
                   /\ d.st \in {"flush", "ret"}
      <4>1. call'[<<i, a>>] = IF c.st = "full" THEN [c EXCEPT !.st = "flush"]
                              ELSE [c EXCEPT !.st = "ret", !.resp = c.resp]
        BY <1>1, <2>2, <3>2 DEF discard_if_item_fails, Ended
      <4> QED
        BY <1>1, <4>1 DEF CallRecord
    <3> QED
      BY <2>1, <3>1, <3>2, <3>3 DEF CallSettled
  <2>3. ASSUME NEW r \in Answers, Answer(i, a, r) PROVE CallSettled(i, a)'
    <3>1. c.st = "ask"
      BY <2>3 DEF Answer
    <3>2. CASE Storable(c, r)
      <4>1. call'[<<i, a>>] = [c EXCEPT !.st = "store", !.resp = r]
        BY <1>1, <2>3, <3>2 DEF Answer
      <4>2. call'[<<i, a>>].st = "store" /\ call'[<<i, a>>].ab = FALSE
        BY <1>1, <3>2, <4>1 DEF CallRecord, Storable
      <4> QED
        BY <2>1, <3>1, <3>2, <4>2 DEF CallSettled, Storable
    <3>3. CASE ~Storable(c, r)
      <4>1. call'[<<i, a>>] = [c EXCEPT !.st = "ret",
                                        !.resp = IF c.ab THEN "none" ELSE r]
        BY <1>1, <2>3, <3>3 DEF Answer, Ended
      <4>2. call'[<<i, a>>].st = "ret" /\ call'[<<i, a>>].ab = c.ab
            /\ call'[<<i, a>>].resp # "good"
        BY <1>1, <3>3, <4>1 DEF CallRecord, Storable
      <4> QED
        BY <2>1, <3>1, <4>2 DEF CallSettled
    <3> QED
      BY <3>2, <3>3
  <2> QED
    BY <2>2, <2>3
<1>7. i \in discards' => i \in discards \/ i \in unsettled' \/ item[i].st # "failed"
  <2>1. CASE discard_if_item_fails(i, a) /\ i \notin unsettled'
    <3>1. CallSettled(i, a) /\ c.st \in {"hit", "stored", "full"}
      BY <1>1, <2>1 DEF CarryInv, Settled, history, discard_if_item_fails
    <3>2. Current(i, a)
      BY <3>1 DEF CallSettled
    <3> QED
      BY <3>2 DEF Current
  <2> QED
    BY <2>1 DEF Answer
<1>8. UNCHANGED <<item, unsettled>>
      /\ \A k \in Items : k # i => (k \in discards' <=> k \in discards)
  BY <1>1 DEF history
<1> QED
  BY <1>2, <1>3, <1>5, <1>6, <1>7, <1>8, CallMovesOn

\* A response replaces what is remembered of its item.
LEMMA UpdateCarries ==
  ASSUME CarryInv, NEW i \in Items, NEW a \in Attempts, update(i, a)
  PROVE  (\A k \in Items \ unsettled' : Settled(k)') /\ WrittenKnown' /\ FilesHere'
<1> DEFINE c == call[<<i, a>>]
<1>1. /\ UNCHANGED <<pipe, setup, item, discards, entries, served, written, disk>>
      /\ call \in [Items \X Attempts -> CallRecord] /\ c \in CallRecord
      /\ c.st = "store" /\ c.resp \in {"good", "bad"} /\ pending \in [Items -> Entry]
  BY DEF update, CarryInv, Inv, TypeOK, WorkersTyped, CacheTyped, CallRecord, Answered
<1>2. WrittenKnown' /\ FilesHere' /\ \A k \in Items : Load(local)'[k] = Load(local)[k]
  BY <1>1, FilesHereKept DEF disk, files
<1>3. \A k \in Items : Servable(k)' = Servable(k)
  BY <1>1 DEF Servable, pipe, open
<1>4. CASE ~open
  <2>1. /\ pending' = pending /\ unsettled' = unsettled \cup {i}
        /\ call' = [call EXCEPT ![<<i, a>>] = Ended(c, c.resp)]
    BY <1>4 DEF update
  <2>2. \A k \in Items : Remembered(k)' = Remembered(k)
    BY <1>2, <2>1 DEF Remembered
  <2>3. \A t \in Items \X Attempts : t # <<i, a>> => call'[t] = call[t]
    BY <1>1, <2>1
  <2> QED
    BY <1>1, <1>2, <1>3, <2>1, <2>2, <2>3, CallMovesOn
<1>5. CASE open
  <2>1. PICK s \in {"full", "stored"} : call' = [call EXCEPT ![<<i, a>>].st = s]
    BY <1>5 DEF update
  <2>2. pending' = [pending EXCEPT ![i] = c.resp] /\ unsettled' = unsettled
    BY <1>5 DEF update
  <2>3. /\ \A t \in Items \X Attempts : t # <<i, a>> => call'[t] = call[t]
        /\ call'[<<i, a>>] = [c EXCEPT !.st = s]
    BY <1>1, <2>1
  <2>4. /\ Remembered(i)' = c.resp
        /\ \A k \in Items : k # i => Remembered(k)' = Remembered(k)
    BY <1>1, <1>2, <2>2 DEF Remembered
  <2> SUFFICES ASSUME NEW k \in Items \ unsettled' PROVE Settled(k)'
    BY <1>2
  <2>5. Settled(k) /\ discards' = discards
    BY <1>1, <2>2 DEF CarryInv
  <2>6. CASE k # i
    <3>1. \A b \in Attempts : call'[<<k, b>>] = call[<<k, b>>]
      BY <2>3, <2>6
    <3> QED
      BY <1>1, <1>3, <2>4, <2>5, <2>6, <3>1, SettledKept
  <2>7. CASE k = i
    <3>1. CallSettled(i, a) /\ ~c.ab /\ Current(i, a) /\ Servable(i) = "none"
      BY <1>1, <2>5, <2>7 DEF Settled, CallSettled
    <3>2. CallSettled(i, a)'
      <4>1. call'[<<i, a>>].st = s /\ call'[<<i, a>>].ab = c.ab
            /\ call'[<<i, a>>].resp = c.resp
        BY <1>1, <2>3 DEF CallRecord
      <4>2. Current(i, a)'
        BY <1>1, <3>1 DEF Current
      <4> QED
        BY <2>4, <3>1, <4>1, <4>2 DEF CallSettled
    <3>3. ASSUME NEW b \in Attempts, b # a PROVE CallSettled(i, b)'
      <4>1. call'[<<i, b>>] = call[<<i, b>>]
        BY <2>3, <3>3
      <4>2. CallSettled(i, b) /\ ~Current(i, b) /\ ~Current(i, b)'
        BY <1>1, <2>5, <2>7, <3>1, <3>3 DEF Settled, Current
      <4> QED
        BY <1>3, <4>1, <4>2 DEF CallSettled
    <3>4. EndSettled(i)'
      BY <1>1, <3>1 DEF EndSettled, Current
    <3> QED
      BY <1>3, <2>7, <3>1, <3>2, <3>3, <3>4 DEF Settled
  <2> QED
    BY <2>6, <2>7
<1> QED
  BY <1>4, <1>5

LEMMA FlushInCallCarries ==
  ASSUME CarryInv, NEW i \in Items, NEW a \in Attempts, FlushInCall(i, a)
  PROVE  (\A k \in Items \ unsettled' : Settled(k)') /\ WrittenKnown' /\ FilesHere'
<1> DEFINE c == call[<<i, a>>]
<1>1. /\ UNCHANGED <<pipe, item, discards, s3>>
      /\ call \in [Items \X Attempts -> CallRecord] /\ c \in CallRecord
      /\ c.st = "flush" /\ <<i, a>> \in Threads
  BY DEF FlushInCall, CarryInv, Inv, TypeOK, WorkersTyped, CallRecord, Threads
<1>2. /\ \A k \in Items \ unsettled' : Remembered(k)' = Remembered(k)
      /\ WrittenKnown' /\ FilesHere' /\ UNCHANGED <<entries, served>>
      /\ unsettled \subseteq unsettled'
      /\ setup' = setup \/ Fault
      /\ \/ call' = [call EXCEPT ![<<i, a>>].st = "hand"]
         \/ \E r \in {"error", "fatal"} : call' = [call EXCEPT ![<<i, a>>] = Ended(c, r)]
  <2>1. CASE WriteFails /\ \E r \in {"error", "fatal"} :
                              call' = [call EXCEPT ![<<i, a>>] = Ended(c, r)]
    BY <1>1, <2>1, WriteFailsRemembers DEF WriteFails
  <2>2. CASE /\ flush(<<i, a>>) /\ call' = [call EXCEPT ![<<i, a>>].st = "hand"]
             /\ UNCHANGED <<setup, unsettled>>
    BY <1>1, <2>2, FlushRemembers
  <2> QED
    BY <2>1, <2>2 DEF FlushInCall
<1>3. setup'.lookups = setup.lookups
  BY <1>2 DEF Fault, CarryInv, Inv, TypeOK, PipeTyped
<1>4. \A k \in Items : Servable(k)' = Servable(k)
  BY <1>1, <1>2, <1>3 DEF Servable, pipe, open
<1>5. /\ \A t \in Items \X Attempts : t # <<i, a>> => call'[t] = call[t]
      /\ call'[<<i, a>>].ab = c.ab
      /\ \/ call'[<<i, a>>].st = "hand" /\ call'[<<i, a>>].resp = c.resp
         \/ call'[<<i, a>>].st = "ret" /\ call'[<<i, a>>].resp # "good"
  <2>1. CASE call' = [call EXCEPT ![<<i, a>>].st = "hand"]
    <3>1. call'[<<i, a>>] = [c EXCEPT !.st = "hand"]
      BY <1>1, <2>1
    <3> QED
      BY <1>1, <2>1, <3>1 DEF CallRecord
  <2>2. ASSUME NEW r \in {"error", "fatal"},
               call' = [call EXCEPT ![<<i, a>>] = Ended(c, r)]
        PROVE  /\ \A t \in Items \X Attempts : t # <<i, a>> => call'[t] = call[t]
               /\ call'[<<i, a>>].ab = c.ab
               /\ call'[<<i, a>>].st = "ret" /\ call'[<<i, a>>].resp # "good"
    <3>1. call'[<<i, a>>] = [c EXCEPT !.st = "ret", !.resp = IF c.ab THEN "none" ELSE r]
      BY <1>1, <2>2 DEF Ended
    <3> QED
      BY <1>1, <2>2, <3>1 DEF CallRecord
  <2> QED
    BY <1>2, <2>1, <2>2
<1>6. ASSUME i \notin unsettled' PROVE CallSettled(i, a)'
  <2>1. CallSettled(i, a) /\ Remembered(i)' = Remembered(i)
    BY <1>2, <1>6 DEF CarryInv, Settled
  <2>2. Current(i, a)' <=> Current(i, a)
    BY <1>1 DEF Current
  <2> QED
    BY <1>1, <1>5, <2>1, <2>2 DEF CallSettled
<1> QED
  BY <1>1, <1>2, <1>4, <1>5, <1>6, CallMovesOn

\* A hand-off moves segments between memory and S3.
LEMMA HandOffCarries ==
  ASSUME CarryInv, NEW t \in Threads, Upload(t) \/ UploadFails(t)
  PROVE  (\A k \in Items \ unsettled' : Settled(k)') /\ WrittenKnown' /\ FilesHere'
<1>1. /\ UNCHANGED <<pipe, workers, memory, segments, local, history>>
      /\ setup' = setup \/ Fault
  BY DEF Upload, UploadFails, files
<1>2. \A k \in Items : Load(local)'[k] = Load(local)[k]
  BY <1>1, LoadKept
<1>3. setup'.lookups = setup.lookups
  BY <1>1 DEF Fault, CarryInv, Inv, TypeOK, PipeTyped
<1>4. ASSUME NEW k \in Items \ unsettled' PROVE Settled(k)'
  <2>1. Remembered(k)' = Remembered(k) /\ Servable(k)' = Servable(k)
    BY <1>1, <1>2, <1>3 DEF Remembered, Servable, memory, pipe, open
  <2>2. Settled(k)
    BY <1>1, <1>4 DEF CarryInv, history
  <2> QED
    BY <1>1, <2>1, <2>2, SettledKept DEF workers
<1>5. WrittenKnown'
  BY <1>1, <1>2 DEF CarryInv, WrittenKnown, memory
<1>6. /\ due[t] # <<>> /\ due[t] \in Seq(Segments) /\ unsynced \in Seq(Segments)
      /\ due \in [Threads -> Seq(Segments)]
  BY DEF CarryInv, Inv, TypeOK, FilesTyped, Upload, UploadFails
<1>7. FilesHere'
  <2>1. CASE Upload(t)
    <3>1. /\ s3' = s3 \cup {Head(due[t])} /\ due' = [due EXCEPT ![t] = Tail(due[t])]
          /\ unsynced' = unsynced
      BY <2>1 DEF Upload, files
    <3>2. /\ Len(due[t]) \in Nat \ {0} /\ DOMAIN due[t] = 1..Len(due[t])
          /\ Head(due[t]) = due[t][1]
          /\ DOMAIN Tail(due[t]) = 1..(Len(due[t]) - 1)
          /\ \A n \in 1..(Len(due[t]) - 1) : Tail(due[t])[n] = due[t][n + 1]
      BY <1>6, HeadTailProperties, LenProperties, EmptySeq
    <3>3. In(due[t], Head(due[t]))
      BY <3>2 DEF In
    <3>4. ASSUME NEW k, In(Tail(due[t]), k) PROVE In(due[t], k)
      <4>1. PICK n \in 1..(Len(due[t]) - 1) : due[t][n + 1] = k
        BY <3>2, <3>4 DEF In
      <4>2. n + 1 \in DOMAIN due[t]
        BY <3>2
      <4> QED
        BY <4>1, <4>2 DEF In
    <3>5. \A u \in Threads : \A k : In(due'[u], k) => In(due[u], k)
      BY <1>6, <3>1, <3>4
    <3> QED
      BY <1>1, <3>1, <3>3, <3>5 DEF CarryInv, FilesHere
  <2>2. CASE UploadFails(t)
    <3>1. /\ unsynced' = due[t] \o unsynced /\ due' = [due EXCEPT ![t] = <<>>]
          /\ s3' = s3
      BY <2>2 DEF UploadFails, PutBack
    <3>2. ASSUME NEW k, In(unsynced', k) PROVE In(due[t], k) \/ In(unsynced, k)
      <4> DEFINE s == due[t]
      <4>1. /\ Len(s) \in Nat /\ DOMAIN s = 1..Len(s)
            /\ Len(unsynced) \in Nat /\ DOMAIN unsynced = 1..Len(unsynced)
            /\ DOMAIN (s \o unsynced) = 1..(Len(s) + Len(unsynced))
            /\ \A n \in 1..(Len(s) + Len(unsynced)) :
                  (s \o unsynced)[n] = IF n <= Len(s) THEN s[n] ELSE unsynced[n - Len(s)]
        BY <1>6, ConcatProperties, LenProperties
      <4>2. PICK n \in 1..(Len(s) + Len(unsynced)) : (s \o unsynced)[n] = k
        BY <3>1, <3>2, <4>1 DEF In
      <4> HIDE DEF s
      <4>3. CASE n <= Len(s)
        BY <4>1, <4>2, <4>3 DEF In, s
      <4>4. CASE ~(n <= Len(s))
        <5>1. n - Len(s) \in 1..Len(unsynced)
          BY <4>1, <4>4
        <5> QED
          BY <4>1, <4>2, <4>4, <5>1 DEF In
      <4> QED
        BY <4>3, <4>4
    <3>3. \A u \in Threads : \A k : In(due'[u], k) => In(due[u], k)
      BY <1>6, <3>1 DEF In
    <3> QED
      BY <1>1, <3>1, <3>2, <3>3 DEF CarryInv, FilesHere
  <2> QED
    BY <2>1, <2>2
<1> QED
  BY <1>4, <1>5, <1>7

\* The steps of a worker, whose other calls have all been abandoned.
LEMMA WorkerCarries ==
  ASSUME CarryInv, NEW i \in Items, Attempt(i) \/ Return(i) \/ Timeout(i)
  PROVE  (\A k \in Items \ unsettled' : Settled(k)') /\ WrittenKnown' /\ FilesHere'
<1> USE CallsAssumption
<1>1. /\ UNCHANGED <<pipe, discards, memory, disk>> /\ unsettled \subseteq unsettled'
      /\ setup'.lookups = setup.lookups
  <2>1. setup'.lookups = setup.lookups
    BY DEF Attempt, Return, Timeout, CarryInv, Inv, TypeOK, PipeTyped
  <2> QED
    BY <2>1 DEF Attempt, Return, Timeout, history
<1>2. WrittenKnown' /\ FilesHere' /\ \A k \in Items : Load(local)'[k] = Load(local)[k]
  BY <1>1, FilesHereKept DEF disk, files, memory
<1>3. \A k \in Items : Remembered(k)' = Remembered(k) /\ Servable(k)' = Servable(k)
  BY <1>1, <1>2 DEF Remembered, Servable, memory, pipe, open
<1>4. /\ call \in [Items \X Attempts -> CallRecord]
      /\ item \in [Items -> [n : 0..MaxAttempts,
           st : {"queued", "calling", "backoff", "failing",
                 "done", "failed", "dropped"}]]
  BY DEF CarryInv, Inv, TypeOK, WorkersTyped, CallRecord
<1>5. /\ \A k \in Items : k # i => item'[k] = item[k]
      /\ \A k \in Items, b \in Attempts : k # i => call'[<<k, b>>] = call[<<k, b>>]
  <2>1. CASE Attempt(i)
    BY <1>4, <2>1, ZenonT(60) DEF Attempt, Worker
  <2>2. CASE Return(i)
    BY <1>4, <2>2, ZenonT(60) DEF Return, Worker
  <2>3. CASE Timeout(i)
    BY <1>4, <2>3, ZenonT(60) DEF Timeout, Worker
  <2> QED
    BY <2>1, <2>2, <2>3
<1>6. ASSUME i \notin unsettled' PROVE Settled(i)'
  <2>1. Settled(i)
    BY <1>1, <1>6 DEF CarryInv
  <2>2. CASE Attempt(i)
    <3>1. item[i].st \in {"queued", "backoff"} /\ \A b \in Attempts : ~Current(i, b)
      BY <2>2 DEF Attempt, Current
    <3>2. CASE abandoned
      <4>1. item'[i] = [item[i] EXCEPT !.st = "dropped"] /\ call' = call
        BY <1>4, <2>2, <3>2 DEF Attempt, Worker
      <4>2. item'[i].st = "dropped"
        BY <1>4, <4>1
      <4>3. \A b \in Attempts : CallSettled(i, b)'
        BY <1>3, <2>1, <3>1, <4>1, <4>2 DEF Settled, CallSettled, Current
      <4> QED
        BY <1>3, <2>1, <4>2, <4>3 DEF Settled, EndSettled
    <3>3. CASE ~abandoned
      <4>3. PICK n \in Attempts : n = item[i].n + 1
        <5>1. item[i].n \in 0..MaxAttempts /\ item[i].n < MaxAttempts
          BY <3>1 DEF CarryInv, Inv, TypeOK, WorkersTyped, Attempted
        <5> QED
          BY <5>1 DEF Attempts
      <4>1. item' = [item EXCEPT ![i] = [st |-> "calling", n |-> n]]
        BY <2>2, <3>3, <4>3 DEF Attempt
      <4>2. PICK slow \in BOOLEAN :
               call' = [call EXCEPT ![<<i, n>>].st = "start", ![<<i, n>>].slow = slow]
        BY <2>2, <3>3, <4>3 DEF Attempt
      <4>4. call[<<i, n>>].st = "none" /\ call[<<i, n>>] \in CallRecord
        <5>1. item[i].n \in Nat /\ n > item[i].n
          BY <1>4, <4>3
        <5> QED
          BY <1>4, <5>1 DEF CarryInv, Inv, Attempted
      <4>5. ~call[<<i, n>>].ab
        BY <2>1, <4>3, <4>4 DEF Settled, CallSettled
      <4>6. /\ call'[<<i, n>>].st = "start" /\ ~call'[<<i, n>>].ab
            /\ \A b \in Attempts : b # n => call'[<<i, b>>] = call[<<i, b>>]
        <5>1. call'[<<i, n>>] = [call[<<i, n>>] EXCEPT !.st = "start", !.slow = slow]
          BY <1>4, <4>2, <4>3
        <5>2. [call[<<i, n>>] EXCEPT !.st = "start", !.slow = slow].st = "start"
              /\ [call[<<i, n>>] EXCEPT !.st = "start", !.slow = slow].ab
                    = call[<<i, n>>].ab
          BY <4>4 DEF CallRecord
        <5> QED
          BY <1>4, <4>2, <4>3, <4>5, <5>1, <5>2
      <4>7. \A b \in Attempts : Current(i, b)' <=> b = n
        <5>1. item'[i] = [st |-> "calling", n |-> n]
          BY <1>4, <4>1
        <5>2. item'[i].st = "calling" /\ item'[i].n = n
          BY <5>1
        <5> QED
          BY <5>2 DEF Current
      <4>8. CallSettled(i, n)'
        BY <4>6, <4>7, <4>3 DEF CallSettled
      <4>9. ASSUME NEW b \in Attempts, b # n PROVE CallSettled(i, b)'
        <5>1. CallSettled(i, b) /\ ~Current(i, b) /\ ~Current(i, b)'
              /\ call'[<<i, b>>] = call[<<i, b>>]
          BY <2>1, <3>1, <4>6, <4>7, <4>9 DEF Settled
        <5> QED
          BY <1>3, <5>1 DEF CallSettled
      <4>10. item'[i].st = "calling"
        BY <1>4, <4>1
      <4>11. EndSettled(i)' /\ \A b \in Attempts : CallSettled(i, b)'
        BY <4>8, <4>9, <4>10 DEF EndSettled
      <4> QED
        BY <1>3, <2>1, <4>11 DEF Settled
    <3> QED
      BY <3>2, <3>3
  <2>3. CASE Return(i) \/ Timeout(i)
    <3>0. item[i].st = "calling" /\ item[i].n \in Attempts
      <4>1. item[i].st = "calling"
        BY <2>3 DEF Return, Timeout
      <4>2. item[i].n > 0
        BY <4>1 DEF CarryInv, Inv, Attempted
      <4> QED
        BY <1>4, <4>1, <4>2 DEF Attempts
    <3>1. PICK n \in Attempts : n = item[i].n /\ item[i].st = "calling"
      BY <3>0
    <3> DEFINE c == call[<<i, n>>]
    <3>2. c \in CallRecord /\ c.st # "none" /\ ~c.ab /\ CallSettled(i, n)
      <4>1. CallSettled(i, n) /\ Current(i, n)
        BY <2>1, <3>1 DEF Settled, Current
      <4>2. c.st # "none"
        <5>1. n \in Nat /\ ~(n > item[i].n)
          BY <1>4, <3>1
        <5> QED
          BY <3>1, <5>1 DEF CarryInv, Inv, Attempted
      <4> QED
        BY <1>4, <3>1, <4>1, <4>2 DEF CallSettled
    <3>3. PICK st \in {"done", "backoff", "failing"} :
             /\ item' = [item EXCEPT ![i].st = st]
             /\ st = "done" => Return(i) /\ c.resp = "good"
      BY <2>3, <3>1 DEF Return, Timeout, Worker, AfterFailure
    <3>4. item'[i].st = st
      BY <1>4, <3>3
    <3>5. /\ \A b \in Attempts : b # n => call'[<<i, b>>] = call[<<i, b>>]
          /\ \/ call'[<<i, n>>].st = "ret" /\ ~call'[<<i, n>>].ab
             \/ /\ call'[<<i, n>>].ab /\ call'[<<i, n>>].st = c.st
                /\ c.st \notin {"hit", "store", "stored", "full"}
      <4>1. CASE call' = [call EXCEPT ![<<i, n>>] = [c EXCEPT !.st = "ret", !.resp = "none"]]
        <5>1. call'[<<i, n>>] = [c EXCEPT !.st = "ret", !.resp = "none"]
          BY <1>4, <3>1, <4>1
        <5>2. [c EXCEPT !.st = "ret", !.resp = "none"].st = "ret"
              /\ [c EXCEPT !.st = "ret", !.resp = "none"].ab = c.ab
          BY <3>2 DEF CallRecord
        <5> QED
          BY <1>4, <3>1, <3>2, <4>1, <5>1, <5>2
      <4>2. CASE Timeout(i) /\ call' = [call EXCEPT ![<<i, n>>] = [c EXCEPT !.ab = TRUE]]
        <5>1. call'[<<i, n>>] = [c EXCEPT !.ab = TRUE]
          BY <1>4, <3>1, <4>2
        <5>2. [c EXCEPT !.ab = TRUE].st = c.st /\ [c EXCEPT !.ab = TRUE].ab = TRUE
          BY <3>2 DEF CallRecord
        <5>3. c.st \notin {"hit", "store", "stored", "full"}
          BY <1>6, <3>1, <4>2 DEF Timeout
        <5> QED
          BY <1>4, <3>1, <3>2, <4>2, <5>1, <5>2, <5>3
      <4>3. Return(i) =>
               call' = [call EXCEPT ![<<i, n>>] = [c EXCEPT !.st = "ret", !.resp = "none"]]
        BY <1>4, <3>1, <3>2 DEF Return
      <4>4. Timeout(i) =>
               call' = [call EXCEPT ![<<i, n>>] =
                   IF Returned(i, n) THEN [c EXCEPT !.st = "ret", !.resp = "none"]
                   ELSE [c EXCEPT !.ab = TRUE]]
        BY <3>1 DEF Timeout
      <4> HIDE DEF c
      <4> QED
        BY <2>3, <4>1, <4>2, <4>3, <4>4
    <3>6. \A b \in Attempts : ~Current(i, b)' /\ (Current(i, b) <=> b = n)
      <4>1. item'[i].st # "calling"
        BY <3>4
      <4> QED
        BY <3>1, <4>1 DEF Current
    <3>7. CallSettled(i, n)'
      BY <3>2, <3>5, <3>6 DEF CallSettled
    <3>8. ASSUME NEW b \in Attempts, b # n PROVE CallSettled(i, b)'
      <4>1. CallSettled(i, b) /\ call'[<<i, b>>] = call[<<i, b>>]
        BY <2>1, <3>5, <3>8 DEF Settled
      <4> QED
        BY <1>3, <3>6, <3>8, <4>1 DEF CallSettled
    <3>9. EndSettled(i)'
      <4>1. st = "done" => Remembered(i) = "good"
        <5>1. st = "done" => Current(i, n) /\ c.st \in {"ret", "hand"} /\ c.resp = "good"
          BY <3>1, <3>3 DEF Return, Returned, Current
        <5> QED
          BY <3>2, <5>1 DEF CallSettled
      <4> QED
        BY <1>3, <3>4, <4>1 DEF EndSettled
    <3>10. \A b \in Attempts : CallSettled(i, b)'
      BY <3>7, <3>8
    <3> QED
      BY <1>3, <2>1, <3>9, <3>10 DEF Settled
  <2> QED
    BY <2>2, <2>3
<1>7. ASSUME NEW k \in Items \ unsettled', k # i PROVE Settled(k)'
  <2>1. Settled(k)
    BY <1>1, <1>7 DEF CarryInv
  <2> QED
    BY <1>1, <1>3, <1>5, <1>7, <2>1, SettledKept
<1> QED
  BY <1>2, <1>6, <1>7

\* A failed item is forgotten, wherever its response is.
LEMMA FailCarries ==
  ASSUME CarryInv, NEW i \in Items, Fail(i)
  PROVE  (\A k \in Items \ unsettled' : Settled(k)') /\ WrittenKnown' /\ FilesHere'
<1>1. /\ UNCHANGED <<pipe, setup, call, discards, disk, served, written>>
      /\ unsettled \subseteq unsettled'
      /\ item[i].st = "failing" /\ item' = [item EXCEPT ![i].st = "failed"]
      /\ item \in [Items -> [n : 0..MaxAttempts,
           st : {"queued", "calling", "backoff", "failing",
                 "done", "failed", "dropped"}]]
      /\ pending \in [Items -> Entry] /\ entries \in [Items -> {"none", "good", "bad"}]
  BY DEF Fail, Worker, discard, memory, CarryInv, Inv, TypeOK, WorkersTyped, CacheTyped
<1>2. WrittenKnown' /\ FilesHere' /\ \A k \in Items : Load(local)'[k] = Load(local)[k]
  BY <1>1, FilesHereKept DEF disk, files
<1>3. item'[i].st = "failed" /\ \A k \in Items : k # i => item'[k] = item[k]
  BY <1>1
<1>4. /\ \A k \in Items : k # i => pending'[k] = pending[k] /\ entries'[k] = entries[k]
      /\ UNCHANGED memory \/ discard(i)
  BY <1>1 DEF Fail, discard, memory
<1>5. ASSUME NEW k \in Items \ unsettled', k # i PROVE Settled(k)'
  <2>1. Settled(k)
    BY <1>1, <1>5 DEF CarryInv
  <2>2. Remembered(k)' = Remembered(k) /\ Servable(k)' = Servable(k)
    BY <1>1, <1>2, <1>4, <1>5 DEF Remembered, Servable, pipe, open
  <2> QED
    BY <1>1, <1>3, <1>5, <2>1, <2>2, SettledKept
<1>6. ASSUME i \notin unsettled' PROVE Settled(i)'
  <2>1. Settled(i) /\ i \notin unsettled
    BY <1>1, <1>6 DEF CarryInv
  <2>2. open
    BY <1>1, <1>6 DEF Fail
  <2>3. \A b \in Attempts : CallSettled(i, b)'
    <3> TAKE b \in Attempts
    <3>1. CallSettled(i, b) /\ ~Current(i, b) /\ ~Current(i, b)'
      BY <1>1, <1>3, <2>1 DEF Settled, Current
    <3>2. \/ call[<<i, b>>].st = "none" \/ call[<<i, b>>].st = "ret"
          \/ call[<<i, b>>].ab
      BY <3>1 DEF CallSettled
    <3> QED
      BY <1>1, <3>1, <3>2 DEF CallSettled
  <2>4. CASE i \in discards
    <3>1. discard(i)
      BY <2>2, <2>4 DEF Fail
    <3>2. /\ entries'[i] = "none"
          /\ pending'[i] = IF i \in written THEN "gone" ELSE "none"
      BY <1>1, <3>1 DEF discard
    <3>3. i \notin written => Load(local)'[i] = "none"
      BY <1>2 DEF CarryInv, WrittenKnown
    <3>4. Remembered(i)' = "none" /\ Servable(i)' = "none"
      BY <3>2, <3>3 DEF Remembered, Servable
    <3> QED
      BY <1>3, <2>3, <3>4 DEF Settled, EndSettled
  <2>5. CASE i \notin discards
    <3>1. UNCHANGED memory
      BY <2>5 DEF Fail
    <3>2. Remembered(i)' = Remembered(i) /\ Servable(i)' = Servable(i)
      BY <1>1, <1>2, <3>1 DEF Remembered, Servable, memory, pipe, open
    <3> QED
      BY <1>1, <1>3, <2>1, <2>3, <2>5, <3>2 DEF Settled, EndSettled
  <2> QED
    BY <2>4, <2>5
<1> QED
  BY <1>2, <1>5, <1>6

\* The pipeline's thread.
LEMMA PipelineCarries ==
  ASSUME CarryInv, Completed \/ Stop \/ SyncToS3 \/ Deactivate \/ FlushInMain
  PROVE  (\A k \in Items \ unsettled' : Settled(k)') /\ WrittenKnown' /\ FilesHere'
<1>1. /\ UNCHANGED workers /\ unsettled \subseteq unsettled'
      /\ setup' = setup \/ Fault
      /\ main # "closed"
  BY DEF Completed, Stop, SyncToS3, Deactivate, FlushInMain, WriteFails, history
<1>2. setup'.lookups = setup.lookups
  BY <1>1 DEF Fault, CarryInv, Inv, TypeOK, PipeTyped
<1>3. /\ WrittenKnown' /\ FilesHere' /\ served' = served
      /\ entries' \in {entries, [i \in Items |-> "none"]}
      /\ \A k \in Items \ unsettled' : Remembered(k)' = Remembered(k)
  <2>1. CASE FlushInMain
    <3>1. <<Main, 0>> \in Threads /\ s3' = s3
      BY <2>1 DEF FlushInMain, Threads
    <3> QED
      BY <2>1, <3>1, FlushRemembers, WriteFailsRemembers DEF FlushInMain
  <2>2. CASE Completed \/ Stop \/ SyncToS3 \/ Deactivate
    <3>1. /\ UNCHANGED <<segments, local, pending, written, unsynced, due, served>>
          /\ entries' \in {entries, [i \in Items |-> "none"]}
          /\ s3' \subseteq s3 \cup local
      BY <2>2 DEF Completed, Stop, SyncToS3, Deactivate, memory, disk, files
    <3>2. \A k \in Items : Load(local)'[k] = Load(local)[k]
      BY <3>1, LoadKept
    <3>3. \A k \in Items : Remembered(k)' = Remembered(k)
      BY <3>1, <3>2 DEF Remembered
    <3>4. WrittenKnown' /\ FilesHere'
      BY <3>1, <3>2 DEF CarryInv, WrittenKnown, FilesHere
    <3> QED
      BY <3>1, <3>3, <3>4
  <2> QED
    BY <2>1, <2>2 DEF Completed, Stop, SyncToS3, Deactivate, FlushInMain
<1>4. ASSUME NEW k \in Items \ unsettled' PROVE Settled(k)'
  <2>1. Settled(k)
    BY <1>1, <1>4 DEF CarryInv
  <2>2. Servable(k)' \in {"none", Servable(k)}
    BY <1>1, <1>2, <1>3 DEF Servable, open
  <2> QED
    BY <1>1, <1>3, <1>4, <2>1, <2>2, SettledKept DEF workers
<1> QED
  BY <1>3, <1>4

\* How an item ended is what the segments a new run finds load as.
LEMMA NextRunCarries ==
  ASSUME CarryInv, NextRun(local) \/ NextRun(s3)
  PROVE  /\ (\A k \in Items \ unsettled' : Settled(k)') /\ WrittenKnown' /\ FilesHere'
         /\ CarriesOver'
<1>1. PICK found \in {local, s3} : NextRun(found)
  OBVIOUS
<1>2. Idle /\ Opened(found) /\ local' = found /\ segments' = segments /\ s3' = s3
  BY <1>1 DEF NextRun
<1>3. s3 \subseteq found /\ found \subseteq local
  BY <1>1 DEF CarryInv, FilesHere
<1>4. Load(local)' = Load(found) /\ entries' = Load(found)
  BY <1>2 DEF Opened, Load
<1>5. ASSUME NEW i \in Items PROVE Settled(i)'
  <2>1. /\ item'[i].st = "queued" /\ pending'[i] = "none"
        /\ \A a \in Attempts : call'[<<i, a>>] = NoCall
    BY <1>2 DEF Idle, Opened
  <2>2. Remembered(i)' = entries'[i]
    BY <1>4, <2>1 DEF Remembered
  <2>3. \A a \in Attempts : CallSettled(i, a)'
    BY <2>1 DEF CallSettled, NoCall, Current
  <2>4. Servable(i)' # "none" => Servable(i)' = entries'[i]
    BY DEF Servable
  <2> QED
    BY <2>1, <2>2, <2>3, <2>4 DEF Settled, EndSettled
<1>6. WrittenKnown'
  BY <1>2, <1>4 DEF Opened, WrittenKnown
<1>7. FilesHere'
  <2>1. unsynced' = <<>> /\ \A t \in Threads : due'[t] = <<>>
    BY <1>2 DEF Idle, Opened
  <2> QED
    BY <1>2, <1>3, <2>1 DEF FilesHere, In
<1>8. ASSUME NEW i \in Items
      PROVE  /\ before'[i] = "answered" => entries'[i] = "good"
             /\ before'[i] = "failed" => entries'[i] = "none"
  <2>1. before'[i] = Outcome(i, found)
    BY <1>1 DEF NextRun
  <2> SUFFICES ASSUME Outcome(i, found) # "unknown"
               PROVE  /\ Outcome(i, found) = "answered" => entries'[i] = "good"
                      /\ Outcome(i, found) = "failed" => entries'[i] = "none"
    BY <2>1
  <2>2. /\ i \notin unsettled /\ pending[i] = "none"
        /\ \A k \in local \ found : segments[k][i] = "none"
        /\ Outcome(i, found) = "answered" => item[i].st = "done"
        /\ Outcome(i, found) = "failed" => item[i].st = "failed" /\ i \in discards
    BY DEF Outcome
  <2>3. Load(found)[i] = Load(local)[i]
    <3>1. {k \in found : segments[k][i] # "none"} = {k \in local : segments[k][i] # "none"}
      BY <1>3, <2>2
    <3> QED
      BY <3>1, LoadOfSame
  <2>4. Remembered(i) = entries'[i] /\ EndSettled(i)
    BY <1>4, <2>2, <2>3 DEF Remembered, CarryInv, Settled
  <2> QED
    BY <2>2, <2>4 DEF EndSettled
<1> QED
  BY <1>5, <1>6, <1>7, <1>8 DEF CarriesOver

\* Within a run nothing that starts a run comes back.
LEMMA StepKeepsCarriesOver ==
  ASSUME CarryInv, [Next]_vars, ~NextRun(local), ~NextRun(s3)
  PROVE  CarriesOver'
<1>1. SUFFICES ASSUME main' = "batch", \A i \in Items : item'[i].st = "queued"
      PROVE  /\ main = "batch" /\ \A i \in Items : item[i].st = "queued"
             /\ UNCHANGED <<before, entries>>
  BY DEF CarryInv, CarriesOver
<1>2. CASE UNCHANGED vars
  BY <1>1, <1>2 DEF vars, pipe, past, workers, memory
<1>3. ASSUME NEW i \in Items, Caller(i)
      PROVE  main = "batch" /\ (\A k \in Items : item[k].st = "queued")
                                   /\ UNCHANGED <<before, entries>>
  <2>1. item'[i].st # "queued"
    BY <1>3 DEF Caller, Attempt, Return, Timeout, Fail, Worker, AfterFailure,
                CarryInv, Inv, TypeOK, WorkersTyped
  <2> QED
    BY <1>1, <2>1
<1>4. ASSUME NEW i \in Items, NEW a \in Attempts, Call(i, a)
      PROVE  main = "batch" /\ (\A k \in Items : item[k].st = "queued")
                                   /\ UNCHANGED <<before, entries>>
  BY <1>1, <1>4 DEF Call, lookup, discard_if_item_fails, update, FlushInCall, Answer,
                    Upload, UploadFails, flush, WriteFails, pipe, past, workers, memory
<1>5. CASE Pipeline \/ Stop
  BY <1>1, <1>5 DEF Pipeline, Stop, Completed, FlushInMain, SyncToS3, Deactivate, Goto,
                    Upload, UploadFails, pipe, past, workers, memory
<1> QED
  BY <1>2, <1>3, <1>4, <1>5 DEF Next

LEMMA InitCarries == Init => CarryInv
<1> SUFFICES ASSUME Init PROVE CarryInv
  OBVIOUS
<1>1. Inv
  BY InitInv
<1>2. Load(local) = setup.earlier
  <2>1. /\ setup.earlier \in [Items -> {"none", "good", "bad"}]
        /\ segments = <<setup.earlier>> /\ local = {1} /\ segments[1] = setup.earlier
    BY CallsAssumption DEF Init
  <2>2. ASSUME NEW i \in Items PROVE Load(local)[i] = setup.earlier[i]
    <3> DEFINE K == {k \in local : segments[k][i] # "none"}
    <3>1. CASE setup.earlier[i] = "none"
      <4>1. K = {}
        BY <2>1, <3>1
      <4> QED
        BY <3>1, <4>1 DEF Load
    <3>2. CASE setup.earlier[i] # "none"
      <4>1. TypeOK /\ local \in SUBSET Segments /\ 1 \in local
            /\ \A k \in local : k <= 1
        BY <1>1, <2>1 DEF Inv, TypeOK, FilesTyped
      <4>2. Load(local)[i] = IF segments[1][i] = "gone" THEN "none" ELSE segments[1][i]
        BY <2>1, <3>2, <4>1, LoadOfNewest
      <4>3. segments[1][i] # "gone"
        BY <2>1
      <4> QED
        BY <2>1, <4>2, <4>3
    <3> QED
      BY <3>1, <3>2
  <2> QED
    BY <2>1, <2>2 DEF Load
<1>3. ASSUME NEW i \in Items PROVE Settled(i)
  <2>1. /\ item[i].st = "queued" /\ Remembered(i) = entries[i]
        /\ \A a \in Attempts : call[<<i, a>>] = NoCall
    BY <1>2 DEF Init, Remembered
  <2>2. \A a \in Attempts : CallSettled(i, a)
    BY <2>1 DEF CallSettled, NoCall, Current
  <2> QED
    BY <2>1, <2>2 DEF Settled, EndSettled, Servable
<1>4. WrittenKnown /\ CarriesOver
  BY <1>2 DEF Init, WrittenKnown, CarriesOver
<1>5. FilesHere
  BY DEF Init, FilesHere, In
<1> QED
  BY <1>1, <1>3, <1>4, <1>5 DEF CarryInv

LEMMA NextCarries == CarryInv /\ [Next]_vars => CarryInv'
<1> SUFFICES ASSUME CarryInv, [Next]_vars PROVE CarryInv'
  OBVIOUS
<1> DEFINE Carried ==
        (\A k \in Items \ unsettled' : Settled(k)') /\ WrittenKnown' /\ FilesHere'
<1>1. ASSUME UNCHANGED vars PROVE Carried
  <2>1. /\ UNCHANGED <<main, setup, item, call, discards, entries, served, pending,
                       written, unsettled, segments, local, unsynced, due, s3>>
    BY <1>1 DEF vars, pipe, workers, memory, disk, files, history
  <2>2. WrittenKnown' /\ FilesHere' /\ \A k \in Items : Load(local)'[k] = Load(local)[k]
    BY <2>1, FilesHereKept
  <2>3. ASSUME NEW k \in Items \ unsettled' PROVE Settled(k)'
    <3>1. Remembered(k)' = Remembered(k) /\ Servable(k)' = Servable(k) /\ Settled(k)
      BY <2>1, <2>2 DEF Remembered, Servable, open, CarryInv
    <3> QED
      BY <2>1, <3>1, SettledKept
  <2> QED
    BY <2>2, <2>3
<1>2. ASSUME NEW i \in Items, Caller(i) PROVE Carried
  BY <1>2, WorkerCarries, FailCarries DEF Caller
<1>3. ASSUME NEW i \in Items, NEW a \in Attempts, Call(i, a) PROVE Carried
  <2>1. <<i, a>> \in Threads
    BY DEF Threads
  <2> QED
    BY <1>3, <2>1, LookupCarries, CallCarries, UpdateCarries, FlushInCallCarries,
       HandOffCarries DEF Call
<1>4. ASSUME Pipeline \/ Stop PROVE Carried
  <2>1. <<Main, 0>> \in Threads
    BY DEF Threads
  <2> QED
    BY <1>4, <2>1, PipelineCarries, HandOffCarries DEF Pipeline
<1>5. ASSUME NextRun(local) \/ NextRun(s3) PROVE Carried
  BY <1>5, NextRunCarries
<1>6. Carried
  BY <1>1, <1>2, <1>3, <1>4, <1>5 DEF Next
<1>7. CarriesOver'
  BY StepKeepsCarriesOver, NextRunCarries
<1>8. Inv'
  BY NextInv DEF CarryInv
<1> QED
  BY <1>6, <1>7, <1>8 DEF CarryInv

(* response_cache.py, with the retries of langchain.py and the flushes of   *)
(* pipeline.py: whatever attempts time out, flushes overlap and uploads     *)
(* fail, the next run finds the answer of every settled item that ended     *)
(* well, and no response of one that failed.                                *)
THEOREM ResponsesCarryOver == Spec => []CarriesOver
<1>1. CarryInv => CarriesOver
  BY DEF CarryInv
<1> QED
  BY <1>1, InitCarries, NextCarries, PTL DEF Spec
=============================================================================
