----------------------- MODULE TextUnitRemovalProofs -----------------------
(***************************************************************************)
(* The removal of text units (TextUnitRemoval), for any units, names,      *)
(* resolution and bounds: the variables have their types; what a live unit *)
(* states is in the graph at every moment; what a removed unit stated does *)
(* not come back; and a removal that reported no failure leaves both stores *)
(* as a build of the units left would.                                     *)
(***************************************************************************)
EXTENDS TextUnitRemoval, TLAPS, WellFoundedInduction, FiniteSetTheorems

-----------------------------------------------------------------------------
(* The inductive invariants.                                               *)

Deleting == pc \in {"delete_vector", "delete_graph"}
Writing == pc \in {"note", "gained", "edges", "vector_edges", "kept"}
Finishing == pc \in {"finish", "record"}

\* The stores and the job have the fields their updates name, and what a copy
\* cites states its name.
Shaped ==
    /\ {"ent", "edge"} \subseteq DOMAIN graph
    /\ {"unit", "ent", "edge"} \subseteq DOMAIN vector
    /\ {"ent", "edge", "vectorOnly", "sharedEnt", "sharedEdge", "newEnt", "newEdge", "first",
        "noting", "ok", "strip"} \subseteq DOMAIN job
    /\ job.ent \subseteq Ids /\ job.sharedEnt \subseteq Ids
    /\ job.edge \subseteq EdgeIds /\ job.sharedEdge \subseteq EdgeIds
    /\ job.ok \in BOOLEAN /\ job.strip \in BOOLEAN
    /\ \A i \in Ids : \A u \in graph.ent[i] : NameKey[i] \in Mentions[u]

\* A removal deletes the entities that no other unit states before it derives
\* any: what it derives has a unit.
Stated ==
    /\ Deleting /\ job.strip =>
         \A i \in Ids : graph.ent[i] \subseteq removing /\ graph.ent[i] # {} => i \in job.ent
    /\ pc = "derive" => \A i \in Ids : graph.ent[i] \subseteq removing => graph.ent[i] = {}

\* What is about to be written is of units and states its name.
Written ==
    Writing =>
        /\ DOMAIN job.newEnt \subseteq Ids
        /\ \A i \in DOMAIN job.newEnt :
             /\ job.newEnt[i] \subseteq Units /\ job.newEnt[i] # {}
             /\ \A u \in job.newEnt[i] : NameKey[i] \in Mentions[u]
        /\ \A e \in DOMAIN job.newEdge : job.newEdge[e] \subseteq Units
        /\ job.noting.ent \subseteq Ids /\ job.noting.edge \subseteq EdgeIds
        /\ ~job.strip

Typed == TypeOK /\ Shaped /\ Stated /\ Written
-----------------------------------------------------------------------------
(* What names resolve to.                                                  *)

LEMMA IdsOfEdges == \A e \in EdgeIds : e[1] \in Ids /\ e[2] \in Ids
BY DEF EdgeIds

LEMMA UnitsOfEntity ==
  ASSUME NEW i, NEW us
  PROVE  EntityUnits(i, us) \subseteq us
BY DEF EntityUnits

LEMMA StatementOf ==
  ASSUME NEW i \in Ids, NEW u \in Units, NameKey[i] \in Mentions[u]
  PROVE  /\ <<u, NameKey[i]>> \in Statements
         /\ <<u, NameKey[i]>>[1] = u /\ <<u, NameKey[i]>>[2] = NameKey[i]
BY DEF Statements

\* A statement of a name resolves to an entity of that name, which has its unit.
LEMMA Resolves ==
  ASSUME NEW us \in SUBSET Units, NEW i \in Ids, NEW u \in us, NameKey[i] \in Mentions[u]
  PROVE  LET j == Resolved[us][<<u, NameKey[i]>>] IN
         j \in Ids /\ NameKey[j] = NameKey[i] /\ u \in EntityUnits(j, us)
<1>1. <<u, NameKey[i]>> \in Statements /\ <<u, NameKey[i]>>[2] = NameKey[i]
  BY StatementOf
<1>2. Resolved[us] \in [Statements -> Ids]
      /\ NameKey[Resolved[us][<<u, NameKey[i]>>]] = NameKey[i]
  BY <1>1, RemovalAssumption
<1> QED
  BY <1>1, <1>2 DEF EntityUnits

\* What is one entity for some units is one for fewer of them.
LEMMA Together ==
  ASSUME NEW us \in SUBSET Units, NEW fewer \in SUBSET us, NEW i \in Ids,
         NEW u \in EntityUnits(i, us) \cap fewer, NEW w \in EntityUnits(i, us) \cap fewer
  PROVE  Resolved[fewer][<<u, NameKey[i]>>] = Resolved[fewer][<<w, NameKey[i]>>]
<1>1. /\ NameKey[i] \in Mentions[u] /\ Resolved[us][<<u, NameKey[i]>>] = i /\ u \in Units
      /\ NameKey[i] \in Mentions[w] /\ Resolved[us][<<w, NameKey[i]>>] = i /\ w \in Units
      /\ u \in us /\ w \in us
  BY DEF EntityUnits
<1>2. /\ <<u, NameKey[i]>> \in Statements /\ <<u, NameKey[i]>>[1] = u
      /\ <<w, NameKey[i]>> \in Statements /\ <<w, NameKey[i]>>[1] = w
  BY <1>1, StatementOf
<1>3. \A s, t \in Statements :
        (s[1] \in us /\ t[1] \in us /\ Resolved[us][s] = Resolved[us][t]) =>
          ({s[1], t[1]} \subseteq fewer => Resolved[fewer][s] = Resolved[fewer][t])
  BY RemovalAssumption
<1> QED
  BY <1>1, <1>2, <1>3

\* An entity that keeps its id keeps its units.
LEMMA Stays ==
  ASSUME NEW us \in SUBSET Units, NEW fewer \in SUBSET us, NEW i \in Ids,
         EntityUnits(i, fewer) # {}
  PROVE  EntityUnits(i, us) \cap fewer \subseteq EntityUnits(i, fewer)
<1> SUFFICES ASSUME NEW u \in EntityUnits(i, us) \cap fewer
             PROVE  u \in EntityUnits(i, fewer)
  OBVIOUS
<1>1. PICK w \in fewer : NameKey[i] \in Mentions[w] /\ Resolved[fewer][<<w, NameKey[i]>>] = i
  BY DEF EntityUnits
<1>2. <<w, NameKey[i]>> \in Statements /\ <<w, NameKey[i]>>[1] = w
  BY <1>1, StatementOf
<1>3. PICK t \in Statements : t[1] \in fewer /\ Spelling(t) = i /\ Resolved[fewer][t] = i
  BY <1>1, <1>2, ResolutionAssumption
<1>4. NameKey[i] = t[2] /\ t[2] \in Mentions[t[1]] /\ t[1] \in Units /\ t = <<t[1], t[2]>>
  <2>1. t[2] \in Mentions[t[1]] /\ t[1] \in Units /\ t = <<t[1], t[2]>>
    BY DEF Statements
  <2>2. NameKey[Resolved[fewer][t]] = t[2]
    BY RemovalAssumption
  <2> QED
    BY <1>3, <2>1, <2>2
<1>5. NameKey[i] \in Mentions[u] /\ u \in us /\ Resolved[us][<<u, NameKey[i]>>] = i /\ u \in Units
  BY DEF EntityUnits
<1>6. <<u, NameKey[i]>> \in Statements /\ <<u, NameKey[i]>>[1] = u
  BY <1>5, StatementOf
<1>7. PICK x \in Statements : x[1] \in us /\ Spelling(x) = i /\ Resolved[us][x] = i
  BY <1>5, <1>6, ResolutionAssumption
<1>8. Resolved[us][t] = i
  <2>1. t[1] \in us /\ x[1] \in us /\ Spelling(t) = Spelling(x)
    BY <1>3, <1>7
  <2>2. Resolved[us][t] = Resolved[us][x]
    BY <2>1, ResolutionAssumption
  <2> QED
    BY <2>2, <1>7
<1>9. t[1] \in EntityUnits(i, us) \cap fewer
  BY <1>3, <1>4, <1>8 DEF EntityUnits
<1>10. Resolved[fewer][<<u, NameKey[i]>>] = Resolved[fewer][<<t[1], NameKey[i]>>]
  BY <1>9, Together
<1> QED
  BY <1>3, <1>4, <1>5, <1>10 DEF EntityUnits

\* Units that go with all that they state of each entity of a name, or with
\* nothing of it, leave the others of the name as they are.
LEMMA Whole ==
  ASSUME NEW us \in SUBSET Units, NEW fewer \in SUBSET us, NEW i \in Ids,
         \A j \in Ids : NameKey[j] = NameKey[i] =>
           EntityUnits(j, us) \subseteq fewer \/ EntityUnits(j, us) \cap fewer = {}
  PROVE  /\ \A u \in fewer : NameKey[i] \in Mentions[u] =>
              Resolved[fewer][<<u, NameKey[i]>>] = Resolved[us][<<u, NameKey[i]>>]
         /\ EntityUnits(i, fewer) = EntityUnits(i, us) \cap fewer
<1>1. ASSUME NEW u \in fewer, NameKey[i] \in Mentions[u]
      PROVE  Resolved[fewer][<<u, NameKey[i]>>] = Resolved[us][<<u, NameKey[i]>>]
  <2> DEFINE s == <<u, NameKey[i]>>
  <2>1. s \in Statements /\ s[1] = u /\ s[2] = NameKey[i] /\ s[1] \in us
    BY <1>1, StatementOf
  <2> HIDE DEF s
  <2>2. ASSUME NEW t \in Statements, NEW r \in Statements, {t[1], r[1]} \subseteq us,
               t[2] = NameKey[i], r[2] = NameKey[i], Resolved[us][t] = Resolved[us][r]
        PROVE  t[1] \in fewer <=> r[1] \in fewer
    <3> DEFINE j == Resolved[us][t]
    <3>1. /\ t = <<t[1], t[2]>> /\ t[2] \in Mentions[t[1]]
          /\ r = <<r[1], r[2]>> /\ r[2] \in Mentions[r[1]]
      BY DEF Statements
    <3>2. j \in Ids /\ NameKey[j] = NameKey[i] /\ Resolved[us][r] = j
      BY <2>2, RemovalAssumption
    <3>3. t[1] \in EntityUnits(j, us) /\ r[1] \in EntityUnits(j, us)
      BY <2>2, <3>1, <3>2 DEF EntityUnits
    <3> HIDE DEF j
    <3> QED
      BY <3>2, <3>3
  <2>3. \A s0 \in Statements : s0[1] \in us =>
          \A fewer0 \in SUBSET us :
                (/\ s0[1] \in fewer0
                 /\ \A t, r \in Statements :
                      {t[1], r[1]} \subseteq us /\ t[2] = s0[2] /\ r[2] = s0[2]
                        /\ Resolved[us][t] = Resolved[us][r]
                          => (t[1] \in fewer0 <=> r[1] \in fewer0))
                => Resolved[fewer0][s0] = Resolved[us][s0]
    BY ResolutionAssumption
  <2>4. \A t, r \in Statements :
          {t[1], r[1]} \subseteq us /\ t[2] = s[2] /\ r[2] = s[2]
            /\ Resolved[us][t] = Resolved[us][r] => (t[1] \in fewer <=> r[1] \in fewer)
    BY <2>1, <2>2
  <2>5. Resolved[fewer][s] = Resolved[us][s]
    BY <2>1, <2>3, <2>4
  <2> QED
    BY <2>5 DEF s
<1> QED
  BY <1>1 DEF EntityUnits

\* An entity is the same for units that state its name alike.
LEMMA SameUnits ==
  ASSUME NEW us \in SUBSET Units, NEW others \in SUBSET Units, NEW i \in Ids,
         {u \in others : NameKey[i] \in Mentions[u]} = {u \in us : NameKey[i] \in Mentions[u]}
  PROVE  /\ EntityUnits(i, us) = EntityUnits(i, others)
         /\ \A u \in us : NameKey[i] \in Mentions[u] =>
              Resolved[others][<<u, NameKey[i]>>] = Resolved[us][<<u, NameKey[i]>>]
<1> DEFINE both == us \cap others
<1>1. \A u \in Units : NameKey[i] \in Mentions[u] =>
        (u \in us <=> u \in both) /\ (u \in others <=> u \in both)
  OBVIOUS
<1>2. both \in SUBSET us /\ both \in SUBSET others
  OBVIOUS
<1> HIDE DEF both
<1>3. \A j \in Ids : NameKey[j] = NameKey[i] =>
        EntityUnits(j, us) \subseteq both /\ EntityUnits(j, others) \subseteq both
  BY <1>1 DEF EntityUnits
<1>4. /\ \A u \in both : NameKey[i] \in Mentions[u] =>
            Resolved[both][<<u, NameKey[i]>>] = Resolved[us][<<u, NameKey[i]>>]
      /\ EntityUnits(i, both) = EntityUnits(i, us) \cap both
  BY <1>2, <1>3, Whole
<1>5. /\ \A u \in both : NameKey[i] \in Mentions[u] =>
            Resolved[both][<<u, NameKey[i]>>] = Resolved[others][<<u, NameKey[i]>>]
      /\ EntityUnits(i, both) = EntityUnits(i, others) \cap both
  BY <1>2, <1>3, Whole
<1> QED
  BY <1>1, <1>3, <1>4, <1>5

-----------------------------------------------------------------------------
(* The rounds of a derivation.                                             *)

\* The least of a set of numbers.
LEMMA Least ==
  ASSUME NEW S \in SUBSET Nat, S # {}
  PROVE  \E m \in S : \A x \in S : m <= x
<1>1. PICK m \in S : \A x \in S : ~(<<x, m>> \in OpToRel(<, Nat))
  BY WFMin, NatLessThanWellFounded
<1>2. \A x \in S : m <= x
  <2> TAKE x \in S
  <2>1. ~(x < m)
    BY <1>1 DEF OpToRel
  <2> QED
    BY <2>1
<1> QED
  BY <1>2

\* The items of the rounds up to any are a function.
LEMMA RoundsExist ==
  ASSUME NEW read, NEW m \in Nat
  PROVE  \E f : f = [n \in 0 .. m |-> IF n = 0 THEN read ELSE NextRound(f[n - 1], read)]
<1> DEFINE G(x) == NextRound(x, read)
           Rounds(f, k) == f = [n \in 0 .. k |-> IF n = 0 THEN read ELSE G(f[n - 1])]
           Bad == {k \in Nat : ~(\E f : Rounds(f, k))}
<1> HIDE DEF G
<1>1. SUFFICES ASSUME Bad # {}
               PROVE  FALSE
  BY DEF G
<1>2. PICK k \in Bad : \A x \in Bad : k <= x
  <2> HIDE DEF Rounds
  <2> QED
    BY <1>1, Least
<1>3. k # 0
  <2> SUFFICES ASSUME k = 0
               PROVE  FALSE
    OBVIOUS
  <2> DEFINE f == [n \in 0 .. 0 |-> read]
  <2>1. f = [n \in 0 .. 0 |-> IF n = 0 THEN read ELSE G(f[n - 1])]
    OBVIOUS
  <2> HIDE DEF f
  <2>2. Rounds(f, 0)
    BY <2>1
  <2> QED
    BY <2>2
<1>4. PICK f : Rounds(f, k - 1)
  BY <1>2, <1>3
<1> DEFINE g == [n \in 0 .. k |-> IF n < k THEN f[n] ELSE G(f[k - 1])]
<1>5. \A n \in 0 .. k : g[n] = IF n = 0 THEN read ELSE G(g[n - 1])
  <2> TAKE n \in 0 .. k
  <2>1. k \in Nat /\ k >= 1
    BY <1>2, <1>3
  <2>2. \A j \in 0 .. (k - 1) : f[j] = IF j = 0 THEN read ELSE G(f[j - 1])
    BY <1>4
  <2>3. CASE n = k
    <3>1. g[n] = G(f[k - 1]) /\ g[k - 1] = f[k - 1]
      BY <2>1, <2>3
    <3> QED
      BY <2>1, <2>3, <3>1
  <2>4. CASE n < k
    <3>1. g[n] = f[n] /\ (n # 0 => g[n - 1] = f[n - 1]) /\ n \in 0 .. (k - 1)
      BY <2>1, <2>4
    <3> QED
      BY <2>2, <3>1
  <2> QED
    BY <2>1, <2>3, <2>4
<1>6. DOMAIN g = 0 .. k /\ g = [n \in 0 .. k |-> g[n]]
  OBVIOUS
<1> HIDE DEF g
<1>7. g = [n \in 0 .. k |-> IF n = 0 THEN read ELSE G(g[n - 1])]
  BY <1>5, <1>6
<1>8. Rounds(g, k)
  BY <1>7
<1> QED
  BY <1>2, <1>8

\* What holds of the items read, and of those of a round if it holds of the
\* round before, holds of the items derived.
LEMMA InRounds ==
  ASSUME NEW read, NEW S, read \in S, \A x \in S : NextRound(x, read) \in S
  PROVE  ItemsDerived(read) \in S
<1> DEFINE m == DeriveRounds - 1
           items[n \in 0 .. m] == IF n = 0 THEN read ELSE NextRound(items[n - 1], read)
<1>1. m \in Nat
  BY RemovalAssumption
<1>2. ItemsDerived(read) = items[m]
  BY DEF ItemsDerived
<1> HIDE DEF m
<1>3. items = [n \in 0 .. m |-> IF n = 0 THEN read ELSE NextRound(items[n - 1], read)]
  <2>1. \E f : f = [n \in 0 .. m |-> IF n = 0 THEN read ELSE NextRound(f[n - 1], read)]
    BY <1>1, RoundsExist
  <2> QED
    BY <2>1
<1> HIDE DEF items
<1>4. \A n \in 0 .. m : items[n] = IF n = 0 THEN read ELSE NextRound(items[n - 1], read)
  BY <1>3
<1> DEFINE Out == {n \in 0 .. m : items[n] \notin S}
<1>5. Out = {}
  <2> SUFFICES ASSUME Out # {}
               PROVE  FALSE
    OBVIOUS
  <2>1. Out \in SUBSET Nat
    OBVIOUS
  <2>2. PICK n \in Out : \A x \in Out : n <= x
    BY <2>1, Least
  <2>3. n # 0
    BY <1>1, <1>4, <2>2
  <2>4. n - 1 \in 0 .. m /\ n - 1 \notin Out
    BY <1>1, <2>2, <2>3
  <2>5. items[n - 1] \in S
    BY <2>4
  <2> QED
    BY <1>4, <2>2, <2>3, <2>5
<1> QED
  BY <1>1, <1>2, <1>5

-----------------------------------------------------------------------------
(* Type correctness.                                                       *)

\* A store's copies after some of them are written, or deleted.
LEMMA WriteTyped ==
  ASSUME NEW S, NEW T, NEW copies \in [S -> T], NEW new, NEW ids,
         \A i \in S \cap ids : new[i] \in T
  PROVE  /\ Write(copies, new, ids) \in [S -> T]
         /\ \A i \in S : Write(copies, new, ids)[i] = IF i \in ids THEN new[i] ELSE copies[i]
BY DEF Write

LEMMA DeleteTyped ==
  ASSUME NEW S, NEW T, NEW copies \in [S -> SUBSET T], NEW ids
  PROVE  /\ Delete(copies, ids) \in [S -> SUBSET T]
         /\ \A i \in S : Delete(copies, ids)[i] = IF i \in ids THEN {} ELSE copies[i]
BY DEF Delete

LEMMA OutcomesOf ==
  ASSUME NEW ids, NEW o \in Outcomes(ids)
  PROVE  o.done \subseteq ids /\ o.ok \in BOOLEAN /\ (o.ok => o.done = ids)
BY DEF Outcomes

LEMMA FaultTyped ==
  ASSUME NEW ok, Fault(ok), faults \in 0 .. MaxFaults
  PROVE  faults' \in 0 .. MaxFaults
BY RemovalAssumption DEF Fault

LEMMA BuiltTyped ==
  ASSUME NEW us \in SUBSET Units
  PROVE  /\ BuiltEntities(us) \in [Ids -> SUBSET Units]
         /\ BuiltEdges(us) \in [EdgeIds -> SUBSET Units]
         /\ \A i \in Ids : \A u \in BuiltEntities(us)[i] : NameKey[i] \in Mentions[u]
BY DEF BuiltEntities, BuiltEdges, EntityUnits, EdgeUnits

LEMMA NoJobIs ==
  /\ {"ent", "edge", "vectorOnly", "sharedEnt", "sharedEdge", "newEnt", "newEdge", "first",
      "noting", "ok", "strip"} \subseteq DOMAIN NoJob
  /\ NoJob.ent = {} /\ NoJob.edge = {} /\ NoJob.sharedEnt = {} /\ NoJob.sharedEdge = {}
  /\ NoJob.first = {} /\ NoJob.ok = TRUE /\ NoJob.strip = TRUE
BY DEF NoJob

LEMMA InitTyped == Init => Typed
<1> SUFFICES ASSUME Init
             PROVE  Typed
  OBVIOUS
<1>1. pc = "idle" /\ job = NoJob /\ note = NoNote
  BY DEF Init
<1>2. Stated /\ Written
  BY <1>1 DEF Stated, Written, Deleting, Writing
<1>3. /\ live \subseteq Units /\ removing \subseteq Units /\ live \cap removing = {}
      /\ faults \in 0 .. MaxFaults
      /\ graph.ent \in [Ids -> SUBSET Units] /\ graph.edge \in [EdgeIds -> SUBSET Units]
      /\ vector.ent \in [Ids -> SUBSET Units] /\ vector.edge \in [EdgeIds -> SUBSET Units]
      /\ vector.unit \subseteq Units
      /\ {"ent", "edge"} \subseteq DOMAIN graph
      /\ {"unit", "ent", "edge"} \subseteq DOMAIN vector
      /\ \A i \in Ids : \A u \in graph.ent[i] : NameKey[i] \in Mentions[u]
  <2>1. CASE Built
    BY <2>1, BuiltTyped, RemovalAssumption DEF Built
  <2>2. CASE KilledCommit
    <3> DEFINE before == Units \ Unwritten
    <3>1. PICK us, ents, edges, vents, vedges :
            /\ us \subseteq Unwritten
            /\ graph = [ent |-> Write(BuiltEntities(before), BuiltEntities(Units), ents),
                        edge |-> Write(BuiltEdges(before), BuiltEdges(Units), edges)]
            /\ vector = [unit |-> before \cup us,
                         ent |-> Write(BuiltEntities(before), BuiltEntities(Units), vents),
                         edge |-> Write(BuiltEdges(before), BuiltEdges(Units), vedges)]
      BY <2>2 DEF KilledCommit
    <3>2. /\ live = before /\ removing = Unwritten /\ faults = 0 /\ Unwritten \subseteq Units
          /\ MaxFaults \in Nat
      BY <2>2, RemovalAssumption DEF KilledCommit
    <3>3. /\ BuiltEntities(before) \in [Ids -> SUBSET Units]
          /\ BuiltEdges(before) \in [EdgeIds -> SUBSET Units]
          /\ BuiltEntities(Units) \in [Ids -> SUBSET Units]
          /\ BuiltEdges(Units) \in [EdgeIds -> SUBSET Units]
          /\ \A i \in Ids : \A u \in BuiltEntities(before)[i] : NameKey[i] \in Mentions[u]
          /\ \A i \in Ids : \A u \in BuiltEntities(Units)[i] : NameKey[i] \in Mentions[u]
      BY BuiltTyped
    <3> HIDE DEF before
    <3>4. /\ \A ids :
               Write(BuiltEntities(before), BuiltEntities(Units), ids) \in [Ids -> SUBSET Units]
          /\ \A ids :
               Write(BuiltEdges(before), BuiltEdges(Units), ids) \in [EdgeIds -> SUBSET Units]
          /\ \A ids : \A i \in Ids : Write(BuiltEntities(before), BuiltEntities(Units), ids)[i]
               \in {BuiltEntities(before)[i], BuiltEntities(Units)[i]}
      BY <3>3 DEF Write
    <3>5. /\ graph.ent \in [Ids -> SUBSET Units] /\ graph.edge \in [EdgeIds -> SUBSET Units]
          /\ vector.ent \in [Ids -> SUBSET Units] /\ vector.edge \in [EdgeIds -> SUBSET Units]
          /\ vector.unit = before \cup us
          /\ {"ent", "edge"} \subseteq DOMAIN graph
          /\ {"unit", "ent", "edge"} \subseteq DOMAIN vector
      BY <3>1, <3>4
    <3>6. \A i \in Ids : \A u \in graph.ent[i] : NameKey[i] \in Mentions[u]
      <4>1. \A i \in Ids : graph.ent[i] \in {BuiltEntities(before)[i], BuiltEntities(Units)[i]}
        BY <3>1, <3>4
      <4> QED
        BY <4>1, <3>3
    <3>7. /\ live \subseteq Units /\ removing \subseteq Units /\ live \cap removing = {}
          /\ faults \in 0 .. MaxFaults /\ vector.unit \subseteq Units
      BY <3>1, <3>2, <3>5 DEF before
    <3> QED
      BY <3>5, <3>6, <3>7
  <2> QED
    BY <2>1, <2>2 DEF Init
<1> QED
  BY <1>1, <1>2, <1>3, NoJobIs DEF Typed, TypeOK, Shaped, NoNote

-----------------------------------------------------------------------------
(* What the actions do to the stores and the job.                          *)

\* What a removal deletes and strips are items of the stores or of the note.
LEMMA RemoveEffect ==
  ASSUME Typed, remove_text_units
  PROVE  /\ pc = "idle" /\ pc' = "delete_vector"
         /\ graph' = graph /\ vector' = vector /\ note' = note /\ faults' = faults
         /\ live' \subseteq live /\ removing \subseteq removing' /\ removing' # {}
         /\ live \cup removing = live' \cup removing' /\ live' \cap removing' = {}
         /\ removing' \subseteq Units
         /\ job'.ent = Exclusive(CitedEntities(removing'), removing')
         /\ job'.edge = Exclusive(CitedEdges(removing'), removing')
         /\ job'.sharedEnt = (Shared(CitedEntities(removing'), removing') \cup note.ent) \ job'.ent
         /\ job'.sharedEdge = (Shared(CitedEdges(removing'), removing') \cup note.edge) \ job'.edge
         /\ job'.strip = TRUE /\ job'.ok = TRUE /\ job'.first = {}
         /\ DOMAIN job' = DOMAIN NoJob
<1>1. PICK more \in SUBSET live : removing' = removing \cup more /\ live' = live \ more
  BY DEF remove_text_units
<1>2. live \subseteq Units /\ removing \subseteq Units /\ live \cap removing = {}
  BY DEF Typed, TypeOK
<1>3. /\ pc = "idle" /\ pc' = "delete_vector"
      /\ graph' = graph /\ vector' = vector /\ note' = note /\ faults' = faults /\ removing' # {}
  BY DEF remove_text_units, stores
<1>4. /\ live' \subseteq live /\ removing \subseteq removing'
      /\ live \cup removing = live' \cup removing' /\ live' \cap removing' = {}
      /\ removing' \subseteq Units
  BY <1>1, <1>2
<1>5. /\ job'.ent = Exclusive(CitedEntities(removing'), removing')
      /\ job'.edge = Exclusive(CitedEdges(removing'), removing')
      /\ job'.sharedEnt = (Shared(CitedEntities(removing'), removing') \cup note.ent) \ job'.ent
      /\ job'.sharedEdge = (Shared(CitedEdges(removing'), removing') \cup note.edge) \ job'.edge
      /\ job'.strip = TRUE /\ job'.ok = TRUE /\ job'.first = {}
      /\ DOMAIN job' = DOMAIN NoJob
  BY DEF remove_text_units, NoJob
<1> QED
  BY <1>3, <1>4, <1>5

\* Deleting vector copies: of all removed units, if it succeeds the first time.
LEMMA DeleteVectorEffect ==
  ASSUME Typed, DeleteVector
  PROVE  /\ pc = "delete_vector" /\ pc' = "delete_graph"
         /\ live' = live /\ removing' = removing /\ graph' = graph /\ note' = note
         /\ DOMAIN vector' = {"unit", "ent", "edge"}
         /\ vector'.unit \subseteq vector.unit /\ vector.unit \ vector'.unit \subseteq removing
         /\ vector'.ent \in [Ids -> SUBSET Units] /\ vector'.edge \in [EdgeIds -> SUBSET Units]
         /\ \A i \in Ids : \/ vector'.ent[i] = vector.ent[i]
                           \/ i \in job.ent /\ vector'.ent[i] = {}
         /\ \A e \in EdgeIds :
              \/ vector'.edge[e] = vector.edge[e]
              \/ (e \in job.edge \/ e[1] \in job.ent \/ e[2] \in job.ent) /\ vector'.edge[e] = {}
         /\ job'.ok => /\ \A i \in job.ent : vector'.ent[i] = {}
                       /\ \A e \in job.edge : vector'.edge[e] = {}
         /\ DOMAIN job' = DOMAIN job /\ \A x \in DOMAIN job : x # "ok" => job'[x] = job[x]
         /\ job'.ok \in BOOLEAN
         /\ job'.ok /\ job.strip => removing \cap vector'.unit = {}
         /\ faults' \in 0 .. MaxFaults
<1>1. /\ vector.ent \in [Ids -> SUBSET Units] /\ vector.edge \in [EdgeIds -> SUBSET Units]
      /\ faults \in 0 .. MaxFaults /\ {"ok", "strip"} \subseteq DOMAIN job
  BY DEF Typed, TypeOK, Shaped
<1>2. PICK us, ents, edges :
        /\ us \in IF job.strip THEN Outcomes(removing \cap vector.unit) ELSE Outcomes({})
        /\ ents \in Outcomes(job.ent \cap Held(vector.ent))
        /\ edges \in Outcomes((job.edge \cup Incident(graph.edge, job.ent)
                                    \cup Incident(vector.edge, job.ent \cap job.vectorOnly))
                             \cap Held(vector.edge))
        /\ vector' = [unit |-> vector.unit \ us.done,
                      ent |-> Delete(vector.ent, ents.done),
                      edge |-> Delete(vector.edge, edges.done)]
        /\ job' = [job EXCEPT !.ok = us.ok /\ ents.ok /\ edges.ok]
        /\ Fault(us.ok /\ ents.ok /\ edges.ok)
  BY DEF DeleteVector
<1>3. /\ ents.ok \in BOOLEAN /\ edges.ok \in BOOLEAN
      /\ ents.done \subseteq job.ent
      /\ ents.ok => ents.done = job.ent \cap Held(vector.ent)
      /\ edges.done \subseteq job.edge \cup Incident(graph.edge, job.ent)
                                      \cup Incident(vector.edge, job.ent \cap job.vectorOnly)
      /\ edges.ok => job.edge \cap Held(vector.edge) \subseteq edges.done
  BY <1>2, OutcomesOf
<1>4. /\ us.ok \in BOOLEAN /\ us.done \subseteq removing
      /\ us.ok /\ job.strip => us.done = removing \cap vector.unit
  <2>1. CASE job.strip
    <3>1. us \in Outcomes(removing \cap vector.unit)
      BY <1>2, <2>1
    <3> QED
      BY <3>1, OutcomesOf
  <2>2. CASE ~job.strip
    <3>1. us \in Outcomes({})
      BY <1>2, <2>2
    <3>2. us.done \subseteq {} /\ us.ok \in BOOLEAN
      BY <3>1, OutcomesOf
    <3> QED
      BY <2>2, <3>2
  <2> QED
    BY <2>1, <2>2
<1>5. /\ Delete(vector.ent, ents.done) \in [Ids -> SUBSET Units]
      /\ Delete(vector.edge, edges.done) \in [EdgeIds -> SUBSET Units]
      /\ \A i \in Ids : Delete(vector.ent, ents.done)[i]
                         = IF i \in ents.done THEN {} ELSE vector.ent[i]
      /\ \A e \in EdgeIds : Delete(vector.edge, edges.done)[e]
                         = IF e \in edges.done THEN {} ELSE vector.edge[e]
  BY <1>1 DEF Delete
<1>6. /\ DOMAIN vector' = {"unit", "ent", "edge"} /\ vector'.unit = vector.unit \ us.done
      /\ vector'.ent = Delete(vector.ent, ents.done)
      /\ vector'.edge = Delete(vector.edge, edges.done)
  BY <1>2
<1>7. /\ DOMAIN job' = DOMAIN job /\ \A x \in DOMAIN job : x # "ok" => job'[x] = job[x]
      /\ job'.ok = (us.ok /\ ents.ok /\ edges.ok)
  BY <1>1, <1>2
<1>8. faults' \in 0 .. MaxFaults
  BY <1>1, <1>2, FaultTyped
<1>9. /\ pc = "delete_vector" /\ pc' = "delete_graph"
      /\ live' = live /\ removing' = removing /\ graph' = graph /\ note' = note
  BY DEF DeleteVector, corpus
<1>10. job'.ok \in BOOLEAN /\ (job'.ok /\ job.strip => removing \cap vector'.unit = {})
  BY <1>2, <1>3, <1>4, <1>6, <1>7
<1>11. vector'.unit \subseteq vector.unit /\ vector.unit \ vector'.unit \subseteq removing
  BY <1>4, <1>6
<1>12. \A i \in Ids : \/ vector'.ent[i] = vector.ent[i]
                      \/ i \in job.ent /\ vector'.ent[i] = {}
  BY <1>3, <1>5, <1>6
<1>13. \A e \in EdgeIds :
         \/ vector'.edge[e] = vector.edge[e]
         \/ (e \in job.edge \/ e[1] \in job.ent \/ e[2] \in job.ent) /\ vector'.edge[e] = {}
  BY <1>3, <1>5, <1>6 DEF Incident
<1>14. job'.ok => /\ \A i \in job.ent : vector'.ent[i] = {}
                  /\ \A e \in job.edge : vector'.edge[e] = {}
  <2>1. job.ent \subseteq Ids /\ job.edge \subseteq EdgeIds
    BY DEF Typed, Shaped
  <2>2. /\ \A i \in Ids : i \notin Held(vector.ent) => vector.ent[i] = {}
        /\ \A e \in EdgeIds : e \notin Held(vector.edge) => vector.edge[e] = {}
    BY <1>1 DEF Held
  <2> SUFFICES ASSUME job'.ok
               PROVE  /\ \A i \in job.ent : vector'.ent[i] = {}
                      /\ \A e \in job.edge : vector'.edge[e] = {}
    OBVIOUS
  <2>3. ents.ok /\ edges.ok
    BY <1>7
  <2> QED
    BY <1>3, <1>5, <1>6, <2>1, <2>2, <2>3
<1> QED
  BY <1>5, <1>6, <1>7, <1>8, <1>9, <1>10, <1>11, <1>12, <1>13, <1>14

\* Deleting from the graph: an entity goes with the edges at it, and what is
\* derived next, or recorded, is what is left when all of it succeeded.
LEMMA DeleteGraphEffect ==
  ASSUME Typed, DeleteGraph
  PROVE  /\ pc = "delete_graph"
         /\ live' = live /\ removing' = removing /\ vector' = vector /\ note' = note
         /\ DOMAIN graph' = {"ent", "edge"}
         /\ graph'.ent \in [Ids -> SUBSET Units] /\ graph'.edge \in [EdgeIds -> SUBSET Units]
         /\ \A i \in Ids : \/ graph'.ent[i] = graph.ent[i]
                           \/ i \in job.ent /\ graph'.ent[i] = {}
         /\ \A e \in EdgeIds :
              \/ graph'.edge[e] = graph.edge[e]
              \/ (e \in job.edge \/ e[1] \in job.ent \/ e[2] \in job.ent) /\ graph'.edge[e] = {}
         /\ \A e \in EdgeIds :
              /\ graph'.ent[e[1]] = {} /\ graph.ent[e[1]] # {} => graph'.edge[e] = {}
              /\ graph'.ent[e[2]] = {} /\ graph.ent[e[2]] # {} => graph'.edge[e] = {}
         /\ \/ pc' = "idle" /\ job' = NoJob
            \/ /\ job.ok /\ job' = [job EXCEPT !.ok = TRUE]
               /\ pc' = IF job.strip /\ job.sharedEnt \cup job.sharedEdge # {}
                        THEN "derive" ELSE "finish"
               /\ \A i \in job.ent : graph'.ent[i] = {}
               /\ \A e \in job.edge : graph'.edge[e] = {}
         /\ faults' \in 0 .. MaxFaults
<1>1. /\ graph.ent \in [Ids -> SUBSET Units] /\ graph.edge \in [EdgeIds -> SUBSET Units]
      /\ faults \in 0 .. MaxFaults /\ {"ok", "strip"} \subseteq DOMAIN job
      /\ job.ent \subseteq Ids /\ job.edge \subseteq EdgeIds /\ job.ok \in BOOLEAN
      /\ job.strip \in BOOLEAN
  BY DEF Typed, TypeOK, Shaped
<1>2. PICK edges \in Outcomes(job.edge \cap Held(graph.edge)) :
      \E ents \in IF edges.ok THEN Outcomes(job.ent \cap Held(graph.ent))
                   ELSE {[done |-> {}, ok |-> FALSE]} :
        /\ graph' = [ent |-> Delete(graph.ent, ents.done),
                     edge |-> Delete(graph.edge,
                                     edges.done \cup Incident(graph.edge, ents.done))]
        /\ LET ok == job.ok /\ edges.ok /\ ents.ok IN
           /\ job' = IF ok THEN [job EXCEPT !.ok = TRUE] ELSE NoJob
           /\ pc' = CASE ~ok -> "idle"
                      [] ok /\ job.strip /\ job.sharedEnt \cup job.sharedEdge # {} -> "derive"
                      [] OTHER -> "finish"
        /\ Fault(edges.ok /\ ents.ok)
  BY DEF DeleteGraph
<1>3. PICK ents \in IF edges.ok THEN Outcomes(job.ent \cap Held(graph.ent))
                   ELSE {[done |-> {}, ok |-> FALSE]} :
        /\ graph' = [ent |-> Delete(graph.ent, ents.done),
                     edge |-> Delete(graph.edge,
                                     edges.done \cup Incident(graph.edge, ents.done))]
        /\ job' = IF job.ok /\ edges.ok /\ ents.ok THEN [job EXCEPT !.ok = TRUE] ELSE NoJob
        /\ pc' = CASE ~(job.ok /\ edges.ok /\ ents.ok) -> "idle"
                   [] job.ok /\ edges.ok /\ ents.ok /\ job.strip
                      /\ job.sharedEnt \cup job.sharedEdge # {} -> "derive"
                   [] OTHER -> "finish"
        /\ Fault(edges.ok /\ ents.ok)
  BY <1>2
<1>4. edges.done \subseteq job.edge \cap Held(graph.edge) /\ edges.ok \in BOOLEAN
      /\ (edges.ok => edges.done = job.edge \cap Held(graph.edge))
  BY OutcomesOf
<1>5. ents.done \subseteq job.ent \cap Held(graph.ent) /\ ents.ok \in BOOLEAN
      /\ (ents.ok => ents.done = job.ent \cap Held(graph.ent))
  <2>1. CASE edges.ok
    <3>1. ents \in Outcomes(job.ent \cap Held(graph.ent))
      BY <1>3, <2>1
    <3> QED
      BY <3>1, OutcomesOf
  <2>2. CASE ~edges.ok
    <3>1. ents = [done |-> {}, ok |-> FALSE]
      BY <1>3, <2>2
    <3> QED
      BY <3>1
  <2> QED
    BY <2>1, <2>2, <1>4
<1>6. DOMAIN graph' = {"ent", "edge"} /\ graph'.ent = Delete(graph.ent, ents.done)
      /\ graph'.edge = Delete(graph.edge, edges.done \cup Incident(graph.edge, ents.done))
  BY <1>3
<1>7. /\ graph'.ent \in [Ids -> SUBSET Units]
      /\ \A i \in Ids : graph'.ent[i] = IF i \in ents.done THEN {} ELSE graph.ent[i]
  BY <1>1, <1>6 DEF Delete
<1>8. /\ graph'.edge \in [EdgeIds -> SUBSET Units]
      /\ \A e \in EdgeIds : graph'.edge[e] =
           IF e \in edges.done \cup Incident(graph.edge, ents.done) THEN {} ELSE graph.edge[e]
  BY <1>1, <1>6 DEF Delete
<1>9. \A i \in Ids : graph.ent[i] = {} <=> i \notin Held(graph.ent)
  BY <1>1 DEF Held
<1>10. /\ \A e \in EdgeIds : graph.edge[e] = {} <=> e \notin Held(graph.edge)
       /\ \A e \in EdgeIds : e \in Incident(graph.edge, ents.done) <=>
            graph.edge[e] # {} /\ (e[1] \in ents.done \/ e[2] \in ents.done)
  BY <1>1 DEF Held, Incident
<1>11. \A e \in EdgeIds :
         \/ graph'.edge[e] = graph.edge[e]
         \/ (e \in job.edge \/ e[1] \in job.ent \/ e[2] \in job.ent) /\ graph'.edge[e] = {}
  BY <1>4, <1>5, <1>8, <1>10
<1>12. \A e \in EdgeIds :
         /\ graph'.ent[e[1]] = {} /\ graph.ent[e[1]] # {} => graph'.edge[e] = {}
         /\ graph'.ent[e[2]] = {} /\ graph.ent[e[2]] # {} => graph'.edge[e] = {}
  <2> TAKE e \in EdgeIds
  <2>1. e[1] \in Ids /\ e[2] \in Ids
    BY IdsOfEdges
  <2>2. /\ graph'.ent[e[1]] = {} /\ graph.ent[e[1]] # {} => e[1] \in ents.done
        /\ graph'.ent[e[2]] = {} /\ graph.ent[e[2]] # {} => e[2] \in ents.done
    BY <1>7, <2>1
  <2> QED
    BY <1>8, <1>10, <2>2
<1>13. \/ pc' = "idle" /\ job' = NoJob
       \/ /\ job.ok /\ job' = [job EXCEPT !.ok = TRUE]
          /\ pc' = IF job.strip /\ job.sharedEnt \cup job.sharedEdge # {}
                   THEN "derive" ELSE "finish"
          /\ \A i \in job.ent : graph'.ent[i] = {}
          /\ \A e \in job.edge : graph'.edge[e] = {}
  <2> DEFINE ok == job.ok /\ edges.ok /\ ents.ok
             more == job.strip /\ job.sharedEnt \cup job.sharedEdge # {}
  <2>1. job' = IF ok THEN [job EXCEPT !.ok = TRUE] ELSE NoJob
    BY <1>3
  <2>2. pc' = CASE ~ok -> "idle" [] ok /\ more -> "derive" [] OTHER -> "finish"
    BY <1>3
  <2>3. ok \in BOOLEAN /\ more \in BOOLEAN /\ (ok => job.ok /\ edges.ok /\ ents.ok)
    BY <1>1, <1>4, <1>5
  <2> HIDE DEF ok, more
  <2>4. CASE ~ok
    <3>1. pc' = "idle"
      BY <2>2, <2>4
    <3>2. job' = NoJob
      BY <2>1, <2>4
    <3> QED
      BY <3>1, <3>2
  <2>5. CASE ok
    <3>1. \A i \in job.ent : graph'.ent[i] = {}
      BY <1>1, <1>5, <1>7, <1>9, <2>3, <2>5
    <3>2. \A e \in job.edge : graph'.edge[e] = {}
      BY <1>1, <1>4, <1>8, <1>10, <2>3, <2>5
    <3>3. job' = [job EXCEPT !.ok = TRUE]
      BY <2>1, <2>5
    <3>4. pc' = IF more THEN "derive" ELSE "finish"
      BY <2>2, <2>3, <2>5
    <3>5. pc' = IF job.strip /\ job.sharedEnt \cup job.sharedEdge # {} THEN "derive" ELSE "finish"
      BY <3>4 DEF more
    <3> QED
      BY <2>3, <2>5, <3>1, <3>2, <3>3, <3>5
  <2> QED
    BY <2>3, <2>4, <2>5
<1>14. faults' \in 0 .. MaxFaults
  BY <1>1, <1>3, FaultTyped
<1>15. pc = "delete_graph" /\ live' = live /\ removing' = removing /\ vector' = vector
       /\ note' = note
  BY DEF DeleteGraph, corpus
<1>16. \A i \in Ids : \/ graph'.ent[i] = graph.ent[i]
                      \/ i \in job.ent /\ graph'.ent[i] = {}
  BY <1>5, <1>7
<1> QED
  BY <1>6, <1>7, <1>8, <1>11, <1>12, <1>13, <1>14, <1>15, <1>16


-----------------------------------------------------------------------------
(* The derivation.                                                         *)

Items == ItemsDerived(ReadShared)
ItemUnits == UnitsOf(Items, ReadShared)
NewId(i) == DerivedId(i, ItemUnits, ReadShared)
NewEdge(e) == <<NewId(e[1]), NewId(e[2])>>
NewEntities == {NewId(i) : i \in Items.ent}
NewEdges == {NewEdge(e) : e \in Items.edge}
\* What a stored entity cites, without the removed units if it was read first.
Cites(i) == IF i \in ReadShared.ent THEN graph.ent[i] \ removing ELSE graph.ent[i]
CitesEdge(e) == IF e \in ReadShared.edge THEN graph.edge[e] \ removing ELSE graph.edge[e]

\* The items are stored, and those read are among them.
LEMMA ItemsHeld ==
  ASSUME Typed
  PROVE  /\ Items.ent \subseteq Held(graph.ent) /\ Items.edge \subseteq Held(graph.edge)
         /\ ReadShared.ent \subseteq Items.ent /\ ReadShared.edge \subseteq Items.edge
         /\ Held(graph.ent) \subseteq Ids /\ Held(graph.edge) \subseteq EdgeIds
<1> DEFINE read == ReadShared
           S == {x \in [ent : SUBSET Held(graph.ent), edge : SUBSET Held(graph.edge)] :
                   read.ent \subseteq x.ent /\ read.edge \subseteq x.edge}
<1>1. read \in S
  BY DEF ReadShared
<1>2. ASSUME NEW x \in S
      PROVE  NextRound(x, read) \in S
  BY DEF NextRound, Siblings, Parted, Incident
<1> HIDE DEF S, read
<1>3. ItemsDerived(read) \in S
  BY <1>1, <1>2, InRounds
<1>4. Held(graph.ent) \subseteq Ids /\ Held(graph.edge) \subseteq EdgeIds
  BY DEF Typed, TypeOK, Held
<1> QED
  BY <1>3, <1>4 DEF S, read, Items

\* The units of some items are those they cite.
LEMMA UnitsOfItems ==
  ASSUME Typed, NEW x, x.ent \subseteq Held(graph.ent), x.edge \subseteq Held(graph.edge)
  PROVE  /\ UnitsOf(x, ReadShared) \subseteq Units
         /\ \A i \in x.ent : Cites(i) \subseteq UnitsOf(x, ReadShared)
         /\ \A e \in x.edge : CitesEdge(e) \subseteq UnitsOf(x, ReadShared)
         /\ \A u \in UnitsOf(x, ReadShared) : \/ \E i \in x.ent : u \in Cites(i)
                                              \/ \E e \in x.edge : u \in CitesEdge(e)
<1>1. UnitsOf(x, ReadShared)
        = (UNION {Cites(i) : i \in x.ent}) \cup (UNION {CitesEdge(e) : e \in x.edge})
  BY DEF UnitsOf, Cites, CitesEdge
<1>2. /\ \A i \in x.ent : Cites(i) \subseteq Units
      /\ \A e \in x.edge : CitesEdge(e) \subseteq Units
  <2>1. /\ \A i \in x.ent : graph.ent[i] \subseteq Units
        /\ \A e \in x.edge : graph.edge[e] \subseteq Units
    BY ItemsHeld DEF Typed, TypeOK
  <2> QED
    BY <2>1 DEF Cites, CitesEdge
<1> QED
  BY <1>1, <1>2

LEMMA ItemUnitsAre ==
  ASSUME Typed
  PROVE  /\ ItemUnits \subseteq Units
         /\ \A i \in Items.ent : Cites(i) \subseteq ItemUnits
         /\ \A e \in Items.edge : CitesEdge(e) \subseteq ItemUnits
         /\ \A u \in ItemUnits : \/ \E i \in Items.ent : u \in Cites(i)
                                \/ \E e \in Items.edge : u \in CitesEdge(e)
BY ItemsHeld, UnitsOfItems DEF ItemUnits

\* A stored entity derives to one of its name, of its own id or the one that a
\* unit it cites states.
LEMMA DerivesToOf ==
  ASSUME Typed, pc = "derive",
         NEW x, x.ent \subseteq Held(graph.ent), x.edge \subseteq Held(graph.edge), NEW i \in x.ent,
         NEW us, us = UnitsOf(x, ReadShared)
  PROVE  /\ DerivedId(i, us, ReadShared) \in Ids
         /\ NameKey[DerivedId(i, us, ReadShared)] = NameKey[i]
         /\ EntityUnits(DerivedId(i, us, ReadShared), us) # {}
         /\ EntityUnits(i, us) # {} => DerivedId(i, us, ReadShared) = i
         /\ EntityUnits(i, us) = {} =>
              \E u \in Cites(i) : DerivedId(i, us, ReadShared) = Resolved[us][<<u, NameKey[i]>>]
<1>1. i \in Ids /\ graph.ent[i] # {} /\ us \in SUBSET Units
  BY ItemsHeld, UnitsOfItems DEF Held
<1>2. CASE EntityUnits(i, us) # {}
  <2>1. DerivedId(i, us, ReadShared) = i
    BY <1>2 DEF DerivedId
  <2> QED
    BY <1>1, <1>2, <2>1
<1>3. CASE EntityUnits(i, us) = {}
  <2> DEFINE mine == UnitsOf([ent |-> {i}, edge |-> {}], ReadShared)
             u == CHOOSE w \in mine : TRUE
  <2>1. mine = Cites(i)
    BY DEF UnitsOf, Cites
  <2>2. DerivedId(i, us, ReadShared) = Resolved[us][<<u, NameKey[i]>>]
    BY <1>3 DEF DerivedId
  <2>3. Cites(i) # {}
    <3>1. ~(graph.ent[i] \subseteq removing)
      BY <1>1 DEF Typed, Stated
    <3> QED
      BY <1>1, <3>1 DEF Cites
  <2>4. u \in Cites(i)
    BY <2>1, <2>3
  <2> HIDE DEF u, mine
  <2>5. u \in us /\ NameKey[i] \in Mentions[u]
    <3>1. u \in graph.ent[i] /\ u \in us
      BY <2>4, UnitsOfItems DEF Cites
    <3> QED
      BY <1>1, <3>1 DEF Typed, Shaped
  <2>6. LET j == Resolved[us][<<u, NameKey[i]>>] IN
        j \in Ids /\ NameKey[j] = NameKey[i] /\ u \in EntityUnits(j, us)
    BY <1>1, <2>5, Resolves
  <2> QED
    BY <1>3, <2>2, <2>4, <2>6
<1> QED
  BY <1>2, <1>3

LEMMA DerivesTo ==
  ASSUME Typed, pc = "derive", NEW i \in Items.ent
  PROVE  /\ NewId(i) \in Ids /\ NameKey[NewId(i)] = NameKey[i]
         /\ EntityUnits(NewId(i), ItemUnits) # {}
         /\ EntityUnits(i, ItemUnits) # {} => NewId(i) = i
         /\ EntityUnits(i, ItemUnits) = {} =>
              \E u \in Cites(i) : NewId(i) = Resolved[ItemUnits][<<u, NameKey[i]>>]
BY ItemsHeld, DerivesToOf DEF NewId, ItemUnits

\* The derivation decides what to write, to note and to delete.
LEMMA DeriveEffect ==
  ASSUME Typed, Derive
  PROVE  /\ pc = "derive" /\ pc' = "note"
         /\ live' = live /\ removing' = removing /\ faults' = faults
         /\ graph' = graph /\ vector' = vector /\ note' = note
         /\ DOMAIN job' = DOMAIN job /\ job'.strip = FALSE /\ job'.ok = job.ok
         /\ job'.sharedEnt = job.sharedEnt /\ job'.sharedEdge = job.sharedEdge
         /\ DOMAIN job'.newEnt = NewEntities
         /\ \A i \in NewEntities : job'.newEnt[i] = EntityUnits(i, ItemUnits)
         /\ DOMAIN job'.newEdge = NewEdges
         /\ \A e \in NewEdges : job'.newEdge[e] = EdgeUnits(e, ItemUnits)
         /\ job'.ent = (Items.ent \ NewEntities)
                         \cup (job.sharedEnt \ (ReadShared.ent \cup NewEntities))
         /\ job'.edge = (Items.edge \ NewEdges)
                         \cup (job.sharedEdge \ (ReadShared.edge \cup NewEdges))
         /\ job'.first = {i \in NewEntities : i \notin ReadShared.ent
                             \/ ~(EntityUnits(i, ItemUnits) \subseteq graph.ent[i])}
         /\ job'.noting.ent
              = (Items.ent \ NewEntities) \cup {NewId(i) : i \in Items.ent \ NewEntities}
         /\ job'.noting.edge = Items.edge \ NewEdges
<1> DEFINE newEnt == [i \in NewEntities |-> EntityUnits(i, ItemUnits)]
           newEdge == [e \in NewEdges |-> EdgeUnits(e, ItemUnits)]
           absent == job.sharedEnt \ (ReadShared.ent \cup DOMAIN newEnt)
           oldEnt == Items.ent \ DOMAIN newEnt
           oldEdge == Items.edge \ DOMAIN newEdge
<1>1. job' = [job EXCEPT
            !.ent = oldEnt \cup absent,
            !.edge = oldEdge \cup (job.sharedEdge \ (ReadShared.edge \cup DOMAIN newEdge)),
            !.vectorOnly = absent,
            !.newEnt = newEnt,
            !.newEdge = newEdge,
            !.first = Gained(newEnt, ReadShared),
            !.noting = [ent |-> oldEnt \cup {NewId(i) : i \in oldEnt},
                        edge |-> oldEdge],
            !.strip = FALSE]
  BY DEF Derive, Items, ItemUnits, NewId, NewEdge, NewEntities, NewEdges, DerivedEdge
<1>2. {"ent", "edge", "vectorOnly", "sharedEnt", "sharedEdge", "newEnt", "newEdge", "first",
        "noting", "ok", "strip"} \subseteq DOMAIN job
  BY DEF Typed, Shaped
<1>3. /\ DOMAIN newEnt = NewEntities /\ DOMAIN newEdge = NewEdges
      /\ \A i \in NewEntities : newEnt[i] = EntityUnits(i, ItemUnits)
      /\ \A e \in NewEdges : newEdge[e] = EdgeUnits(e, ItemUnits)
      /\ Gained(newEnt, ReadShared) = {i \in NewEntities : i \notin ReadShared.ent
                             \/ ~(EntityUnits(i, ItemUnits) \subseteq graph.ent[i])}
  BY DEF Gained
<1>4. /\ pc = "derive" /\ pc' = "note"
      /\ live' = live /\ removing' = removing /\ faults' = faults
      /\ graph' = graph /\ vector' = vector /\ note' = note
  BY DEF Derive, corpus, stores
<1> HIDE DEF newEnt, newEdge
<1>5. /\ DOMAIN job' = DOMAIN job /\ job'.strip = FALSE /\ job'.ok = job.ok
      /\ job'.sharedEnt = job.sharedEnt /\ job'.sharedEdge = job.sharedEdge
      /\ job'.newEnt = newEnt /\ job'.newEdge = newEdge
      /\ job'.first = Gained(newEnt, ReadShared)
  BY <1>1, <1>2
<1>6. /\ job'.ent = oldEnt \cup absent
      /\ job'.edge = oldEdge \cup (job.sharedEdge \ (ReadShared.edge \cup DOMAIN newEdge))
      /\ job'.noting.ent = oldEnt \cup {NewId(i) : i \in oldEnt}
      /\ job'.noting.edge = oldEdge
  BY <1>1, <1>2
<1> QED
  BY <1>3, <1>4, <1>5, <1>6

-----------------------------------------------------------------------------
(* The writes.                                                             *)

\* A job that only learns how a request went.
LearnsOk ==
    /\ DOMAIN job' = DOMAIN job /\ job'.ok \in BOOLEAN
    /\ job'.ent = job.ent /\ job'.edge = job.edge /\ job'.first = job.first
    /\ job'.sharedEnt = job.sharedEnt /\ job'.sharedEdge = job.sharedEdge
    /\ job'.newEnt = job.newEnt /\ job'.newEdge = job.newEdge
    /\ job'.noting = job.noting /\ job'.strip = job.strip

LEMMA OkOnly ==
  ASSUME Typed, NEW b \in BOOLEAN, job' = [job EXCEPT !.ok = b]
  PROVE  LearnsOk /\ job'.ok = b
BY DEF Typed, Shaped, LearnsOk

LEMMA NoteEffect ==
  ASSUME Typed, NoteStrip
  PROVE  /\ pc = "note" /\ pc' = "gained"
         /\ live' = live /\ removing' = removing /\ faults' = faults
         /\ graph' = graph /\ vector' = vector /\ job' = job
         /\ note'.ent = note.ent \cup job.noting.ent
         /\ note'.edge = note.edge \cup job.noting.edge
<1>1. /\ pc = "note" /\ pc' = "gained"
      /\ live' = live /\ removing' = removing /\ faults' = faults
      /\ graph' = graph /\ vector' = vector /\ job' = job
  BY DEF NoteStrip, corpus
<1>2. CASE job.noting = NoNote /\ note' = note
  BY <1>1, <1>2 DEF NoNote
<1>3. CASE note' = [ent |-> note.ent \cup job.noting.ent, edge |-> note.edge \cup job.noting.edge]
  BY <1>1, <1>3
<1> QED
  BY <1>1, <1>2, <1>3 DEF NoteStrip

LEMMA GainedEffect ==
  ASSUME Typed, WriteGained
  PROVE  /\ pc = "gained" /\ pc' = "edges"
         /\ live' = live /\ removing' = removing /\ vector' = vector /\ note' = note
         /\ DOMAIN graph' = DOMAIN graph /\ graph'.edge = graph.edge
         /\ graph'.ent \in [Ids -> SUBSET Units]
         /\ \A i \in Ids : \/ graph'.ent[i] = graph.ent[i]
                           \/ i \in job.first /\ graph'.ent[i] = job.newEnt[i]
         /\ job'.ok => \A i \in job.first : graph'.ent[i] = job.newEnt[i]
         /\ LearnsOk /\ faults' \in 0 .. MaxFaults
<1>1. PICK o \in Outcomes(job.first) :
        /\ graph' = [graph EXCEPT !.ent = Write(@, job.newEnt, o.done)]
        /\ job' = [job EXCEPT !.ok = o.ok]
        /\ Fault(o.ok)
  BY DEF WriteGained
<1>2. /\ graph.ent \in [Ids -> SUBSET Units] /\ {"ent", "edge"} \subseteq DOMAIN graph
      /\ job.first \subseteq DOMAIN job.newEnt /\ DOMAIN job.newEnt \subseteq Ids
      /\ \A i \in DOMAIN job.newEnt : job.newEnt[i] \subseteq Units
      /\ faults \in 0 .. MaxFaults
  <2>1. pc = "gained"
    BY DEF WriteGained
  <2> QED
    BY <2>1 DEF Typed, TypeOK, Shaped, Written, Writing
<1>3. o.done \subseteq job.first /\ o.ok \in BOOLEAN /\ (o.ok => o.done = job.first)
  BY OutcomesOf
<1>4. DOMAIN graph' = DOMAIN graph /\ graph'.edge = graph.edge
      /\ graph'.ent = Write(graph.ent, job.newEnt, o.done)
  BY <1>1, <1>2
<1>5. /\ graph'.ent \in [Ids -> SUBSET Units]
      /\ \A i \in Ids : graph'.ent[i] = IF i \in o.done THEN job.newEnt[i] ELSE graph.ent[i]
  BY <1>2, <1>3, <1>4 DEF Write
<1>6. LearnsOk /\ job'.ok = o.ok
  BY <1>1, <1>3, OkOnly
<1>7. faults' \in 0 .. MaxFaults
  BY <1>1, <1>2, FaultTyped
<1>8. /\ pc = "gained" /\ pc' = "edges"
      /\ live' = live /\ removing' = removing /\ vector' = vector /\ note' = note
  BY DEF WriteGained, corpus
<1> QED
  BY <1>2, <1>3, <1>4, <1>5, <1>6, <1>7, <1>8

LEMMA EdgesEffect ==
  ASSUME Typed, WriteEdges
  PROVE  /\ pc = "edges" /\ pc' = "vector_edges"
         /\ live' = live /\ removing' = removing /\ vector' = vector /\ note' = note
         /\ DOMAIN graph' = DOMAIN graph /\ graph'.ent = graph.ent
         /\ graph'.edge \in [EdgeIds -> SUBSET Units]
         /\ \A e \in EdgeIds :
              \/ graph'.edge[e] = graph.edge[e]
              \/ /\ e \in DOMAIN job.newEdge /\ graph'.edge[e] = job.newEdge[e]
                 /\ {e[1], e[2]} \subseteq Held(graph.ent)
         /\ job'.ok => /\ job.ok
                       /\ \A e \in DOMAIN job.newEdge \cap EdgeIds :
                            graph'.edge[e] = job.newEdge[e]
         /\ LearnsOk /\ faults' \in 0 .. MaxFaults
<1> DEFINE edges == DOMAIN job.newEdge
           writable == {e \in edges : Ends({e}) \subseteq Held(graph.ent)}
<1>1. PICK o \in Outcomes(writable) :
        /\ graph' = [graph EXCEPT !.edge = Write(@, job.newEdge, o.done)]
        /\ job' = [job EXCEPT !.ok = @ /\ o.ok /\ writable = edges]
        /\ Fault(o.ok)
  BY DEF WriteEdges
<1>2. /\ graph.edge \in [EdgeIds -> SUBSET Units] /\ {"ent", "edge"} \subseteq DOMAIN graph
      /\ \A e \in DOMAIN job.newEdge : job.newEdge[e] \subseteq Units
      /\ faults \in 0 .. MaxFaults /\ job.ok \in BOOLEAN /\ "ok" \in DOMAIN job
  <2>1. pc = "edges"
    BY DEF WriteEdges
  <2> QED
    BY <2>1 DEF Typed, TypeOK, Shaped, Written, Writing
<1>3. o.done \subseteq writable /\ o.ok \in BOOLEAN /\ (o.ok => o.done = writable)
  BY OutcomesOf
<1>4. DOMAIN graph' = DOMAIN graph /\ graph'.ent = graph.ent
      /\ graph'.edge = Write(graph.edge, job.newEdge, o.done)
  BY <1>1, <1>2
<1>5. /\ graph'.edge \in [EdgeIds -> SUBSET Units]
      /\ \A e \in EdgeIds : graph'.edge[e] = IF e \in o.done THEN job.newEdge[e] ELSE graph.edge[e]
  BY <1>2, <1>3, <1>4 DEF Write
<1>6. \A e \in writable : {e[1], e[2]} \subseteq Held(graph.ent)
  BY DEF Ends
<1>7. LearnsOk /\ job'.ok = (job.ok /\ o.ok /\ writable = edges)
  <2>1. (job.ok /\ o.ok /\ writable = edges) \in BOOLEAN
    BY <1>2, <1>3
  <2>2. job' = [job EXCEPT !.ok = (job.ok /\ o.ok /\ writable = edges)]
    BY <1>1, <1>2
  <2> QED
    BY <2>1, <2>2, OkOnly
<1>8. faults' \in 0 .. MaxFaults
  BY <1>1, <1>2, FaultTyped
<1>9. /\ pc = "edges" /\ pc' = "vector_edges"
      /\ live' = live /\ removing' = removing /\ vector' = vector /\ note' = note
  BY DEF WriteEdges, corpus
<1>10. \A e \in EdgeIds :
              \/ graph'.edge[e] = graph.edge[e]
              \/ /\ e \in DOMAIN job.newEdge /\ graph'.edge[e] = job.newEdge[e]
                 /\ {e[1], e[2]} \subseteq Held(graph.ent)
  BY <1>3, <1>5, <1>6
<1>11. job'.ok => /\ job.ok
                  /\ \A e \in DOMAIN job.newEdge \cap EdgeIds : graph'.edge[e] = job.newEdge[e]
  <2> SUFFICES ASSUME job'.ok
               PROVE  /\ job.ok
                      /\ \A e \in DOMAIN job.newEdge \cap EdgeIds : graph'.edge[e] = job.newEdge[e]
    OBVIOUS
  <2>1. job.ok /\ o.ok /\ writable = edges
    BY <1>7
  <2>2. o.done = edges
    BY <1>3, <2>1
  <2> HIDE DEF writable
  <2> QED
    BY <1>5, <2>1, <2>2
<1> HIDE DEF writable, edges
<1> QED
  BY <1>4, <1>5, <1>7, <1>8, <1>9, <1>10, <1>11

LEMMA VectorEdgesEffect ==
  ASSUME Typed, WriteVectorEdges
  PROVE  /\ pc = "vector_edges" /\ pc' = "kept"
         /\ live' = live /\ removing' = removing /\ graph' = graph /\ note' = note
         /\ DOMAIN vector' = DOMAIN vector
         /\ vector'.unit = vector.unit /\ vector'.ent = vector.ent
         /\ vector'.edge \in [EdgeIds -> SUBSET Units]
         /\ \A e \in EdgeIds :
              \/ vector'.edge[e] = vector.edge[e]
              \/ e \in DOMAIN job.newEdge /\ vector'.edge[e] = job.newEdge[e]
         /\ job'.ok => /\ job.ok
                       /\ \A e \in DOMAIN job.newEdge \cap EdgeIds :
                            vector'.edge[e] = job.newEdge[e]
         /\ LearnsOk /\ faults' \in 0 .. MaxFaults
<1>1. PICK o \in Outcomes(DOMAIN job.newEdge) :
        /\ vector' = [vector EXCEPT !.edge = Write(@, job.newEdge, o.done)]
        /\ job' = [job EXCEPT !.ok = @ /\ o.ok]
        /\ Fault(o.ok)
  BY DEF WriteVectorEdges
<1>2. /\ vector.edge \in [EdgeIds -> SUBSET Units]
      /\ {"unit", "ent", "edge"} \subseteq DOMAIN vector
      /\ \A e \in DOMAIN job.newEdge : job.newEdge[e] \subseteq Units
      /\ faults \in 0 .. MaxFaults /\ job.ok \in BOOLEAN /\ "ok" \in DOMAIN job
  <2>1. pc = "vector_edges"
    BY DEF WriteVectorEdges
  <2> QED
    BY <2>1 DEF Typed, TypeOK, Shaped, Written, Writing
<1>3. /\ o.done \subseteq DOMAIN job.newEdge /\ o.ok \in BOOLEAN
      /\ (o.ok => o.done = DOMAIN job.newEdge)
  BY OutcomesOf
<1>4. DOMAIN vector' = DOMAIN vector /\ vector'.unit = vector.unit /\ vector'.ent = vector.ent
      /\ vector'.edge = Write(vector.edge, job.newEdge, o.done)
  BY <1>1, <1>2
<1>5. /\ vector'.edge \in [EdgeIds -> SUBSET Units]
      /\ \A e \in EdgeIds :
           vector'.edge[e] = IF e \in o.done THEN job.newEdge[e] ELSE vector.edge[e]
  BY <1>2, <1>3, <1>4 DEF Write
<1>6. LearnsOk /\ job'.ok = (job.ok /\ o.ok)
  <2>1. (job.ok /\ o.ok) \in BOOLEAN
    BY <1>2, <1>3
  <2>2. job' = [job EXCEPT !.ok = (job.ok /\ o.ok)]
    BY <1>1, <1>2
  <2> QED
    BY <2>1, <2>2, OkOnly
<1>7. faults' \in 0 .. MaxFaults
  BY <1>1, <1>2, FaultTyped
<1>8. /\ pc = "vector_edges" /\ pc' = "kept"
      /\ live' = live /\ removing' = removing /\ graph' = graph /\ note' = note
  BY DEF WriteVectorEdges, corpus
<1> QED
  BY <1>3, <1>4, <1>5, <1>6, <1>7, <1>8

LEMMA KeptEffect ==
  ASSUME Typed, WriteKept
  PROVE  /\ pc = "kept"
         /\ live' = live /\ removing' = removing /\ note' = note
         /\ DOMAIN graph' = DOMAIN graph /\ graph'.edge = graph.edge
         /\ DOMAIN vector' = DOMAIN vector
         /\ vector'.unit = vector.unit /\ vector'.edge = vector.edge
         /\ graph'.ent \in [Ids -> SUBSET Units] /\ vector'.ent \in [Ids -> SUBSET Units]
         /\ \A i \in Ids : \/ graph'.ent[i] = graph.ent[i]
                           \/ i \in DOMAIN job.newEnt /\ graph'.ent[i] = job.newEnt[i]
         /\ \A i \in Ids : \/ vector'.ent[i] = vector.ent[i]
                           \/ i \in DOMAIN job.newEnt /\ vector'.ent[i] = job.newEnt[i]
         /\ \/ pc' = "idle" /\ job' = NoJob
            \/ /\ job.ok /\ pc' = "delete_vector"
               /\ DOMAIN job' = DOMAIN NoJob
               /\ job'.ent = job.ent /\ job'.edge = job.edge
               /\ job'.sharedEnt = {} /\ job'.sharedEdge = {} /\ job'.first = {}
               /\ job'.ok = TRUE /\ job'.strip = FALSE
               /\ \A i \in DOMAIN job.newEnt \ job.first : graph'.ent[i] = job.newEnt[i]
               /\ \A i \in DOMAIN job.newEnt : vector'.ent[i] = job.newEnt[i]
         /\ faults' \in 0 .. MaxFaults
<1>1. PICK o \in Outcomes(DOMAIN job.newEnt \ job.first), v \in Outcomes(DOMAIN job.newEnt) :
        /\ graph' = [graph EXCEPT !.ent = Write(@, job.newEnt, o.done)]
        /\ vector' = [vector EXCEPT !.ent = Write(@, job.newEnt, v.done)]
        /\ job' = IF job.ok /\ o.ok /\ v.ok
                  THEN [NoJob EXCEPT !.ent = job.ent, !.edge = job.edge,
                                     !.vectorOnly = job.vectorOnly, !.strip = FALSE]
                  ELSE NoJob
        /\ pc' = IF job.ok /\ o.ok /\ v.ok THEN "delete_vector" ELSE "idle"
        /\ Fault(o.ok /\ v.ok)
  BY DEF WriteKept
<1>2. /\ vector.ent \in [Ids -> SUBSET Units] /\ graph.ent \in [Ids -> SUBSET Units]
      /\ {"unit", "ent", "edge"} \subseteq DOMAIN vector /\ {"ent", "edge"} \subseteq DOMAIN graph
      /\ \A i \in DOMAIN job.newEnt : job.newEnt[i] \subseteq Units
      /\ DOMAIN job.newEnt \subseteq Ids
      /\ faults \in 0 .. MaxFaults
  <2>1. pc = "kept"
    BY DEF WriteKept
  <2> QED
    BY <2>1 DEF Typed, TypeOK, Shaped, Written, Writing
<1>3. /\ o.done \subseteq DOMAIN job.newEnt \ job.first /\ o.ok \in BOOLEAN
      /\ (o.ok => o.done = DOMAIN job.newEnt \ job.first)
      /\ v.done \subseteq DOMAIN job.newEnt /\ v.ok \in BOOLEAN
      /\ (v.ok => v.done = DOMAIN job.newEnt)
  BY OutcomesOf
<1>4. /\ DOMAIN vector' = DOMAIN vector /\ vector'.unit = vector.unit /\ vector'.edge = vector.edge
      /\ vector'.ent = Write(vector.ent, job.newEnt, v.done)
      /\ DOMAIN graph' = DOMAIN graph /\ graph'.edge = graph.edge
      /\ graph'.ent = Write(graph.ent, job.newEnt, o.done)
  BY <1>1, <1>2
<1>5. /\ graph'.ent \in [Ids -> SUBSET Units]
      /\ \A i \in Ids : graph'.ent[i] = IF i \in o.done THEN job.newEnt[i] ELSE graph.ent[i]
  BY <1>2, <1>3, <1>4 DEF Write
<1>6. /\ vector'.ent \in [Ids -> SUBSET Units]
      /\ \A i \in Ids : vector'.ent[i] = IF i \in v.done THEN job.newEnt[i] ELSE vector.ent[i]
  BY <1>2, <1>3, <1>4 DEF Write
<1>7. \/ pc' = "idle" /\ job' = NoJob
      \/ /\ job.ok /\ pc' = "delete_vector"
         /\ DOMAIN job' = DOMAIN NoJob
         /\ job'.ent = job.ent /\ job'.edge = job.edge
         /\ job'.sharedEnt = {} /\ job'.sharedEdge = {} /\ job'.first = {}
         /\ job'.ok = TRUE /\ job'.strip = FALSE
         /\ \A i \in DOMAIN job.newEnt \ job.first : graph'.ent[i] = job.newEnt[i]
         /\ \A i \in DOMAIN job.newEnt : vector'.ent[i] = job.newEnt[i]
  <2>1. CASE job.ok /\ o.ok /\ v.ok
    <3>1. job' = [NoJob EXCEPT !.ent = job.ent, !.edge = job.edge,
                                     !.vectorOnly = job.vectorOnly, !.strip = FALSE]
          /\ pc' = "delete_vector"
      BY <1>1, <2>1
    <3>2. /\ DOMAIN job' = DOMAIN NoJob
          /\ job'.ent = job.ent /\ job'.edge = job.edge
          /\ job'.sharedEnt = {} /\ job'.sharedEdge = {} /\ job'.first = {}
          /\ job'.ok = TRUE /\ job'.strip = FALSE
      BY <3>1 DEF NoJob
    <3>3. /\ \A i \in DOMAIN job.newEnt \ job.first : graph'.ent[i] = job.newEnt[i]
          /\ \A i \in DOMAIN job.newEnt : vector'.ent[i] = job.newEnt[i]
      BY <1>2, <1>3, <1>5, <1>6, <2>1
    <3> QED
      BY <2>1, <3>1, <3>2, <3>3
  <2>2. CASE ~(job.ok /\ o.ok /\ v.ok)
    BY <1>1, <2>2
  <2> QED
    BY <2>1, <2>2
<1>8. faults' \in 0 .. MaxFaults
  BY <1>1, <1>2, FaultTyped
<1>9. pc = "kept" /\ live' = live /\ removing' = removing /\ note' = note
  BY DEF WriteKept, corpus
<1>10. /\ \A i \in Ids : \/ graph'.ent[i] = graph.ent[i]
                         \/ i \in DOMAIN job.newEnt /\ graph'.ent[i] = job.newEnt[i]
       /\ \A i \in Ids : \/ vector'.ent[i] = vector.ent[i]
                         \/ i \in DOMAIN job.newEnt /\ vector'.ent[i] = job.newEnt[i]
  BY <1>3, <1>5, <1>6
<1> QED
  BY <1>4, <1>5, <1>6, <1>7, <1>8, <1>9, <1>10

\* The steps that end a removal leave the stores as they are.
LEMMA EndEffect ==
  ASSUME Typed, ClearNote \/ Record \/ Stop
  PROVE  /\ pc # "idle" /\ graph' = graph /\ vector' = vector /\ live' = live
         /\ job' = NoJob \/ job' = job
         /\ ClearNote => pc = "finish" /\ pc' = "record" /\ removing' = removing /\ job' = NoJob
                         /\ (note' = note \/ note' = NoNote)
         /\ Record => /\ pc = "record" /\ pc' = "idle" /\ removing' = {} /\ note' = note
                      /\ job' = job
         /\ Stop => pc' = "idle" /\ removing' = removing /\ note' = note /\ job' = NoJob
         /\ faults' \in 0 .. MaxFaults
<1>1. faults \in 0 .. MaxFaults
  BY DEF Typed, TypeOK
<1>2. CASE ClearNote
  <2>1. PICK cleared \in BOOLEAN : /\ note' = IF cleared THEN NoNote ELSE note
                                   /\ Fault(cleared)
    BY <1>2 DEF ClearNote
  <2>2. faults' \in 0 .. MaxFaults
    BY <1>1, <2>1, FaultTyped
  <2>3. /\ pc = "finish" /\ pc' = "record" /\ job' = NoJob
        /\ live' = live /\ removing' = removing /\ graph' = graph /\ vector' = vector
    BY <1>2 DEF ClearNote, corpus
  <2>4. ~Record /\ ~Stop
    BY <2>3 DEF Record, Stop
  <2>5. note' = note \/ note' = NoNote
    BY <2>1
  <2>6. pc # "idle"
    BY <2>3
  <2> QED
    BY <2>2, <2>3, <2>4, <2>5, <2>6, Zenon
<1>3. CASE Record
  BY <1>1, <1>3 DEF ClearNote, Record, Stop, stores, corpus
<1>4. CASE Stop
  <2>1. faults' \in 0 .. MaxFaults
    BY <1>1, <1>4, FaultTyped DEF Stop
  <2> QED
    BY <2>1, <1>4 DEF ClearNote, Record, Stop, stores, corpus
<1> QED
  BY <1>2, <1>3, <1>4

-----------------------------------------------------------------------------
(* Type correctness: every step keeps the types.                           *)

LEMMA TypedNext ==
  ASSUME Typed, Next
  PROVE  Typed'
<1>1. /\ live \subseteq Units /\ removing \subseteq Units /\ live \cap removing = {}
      /\ graph.ent \in [Ids -> SUBSET Units] /\ graph.edge \in [EdgeIds -> SUBSET Units]
      /\ vector.ent \in [Ids -> SUBSET Units] /\ vector.edge \in [EdgeIds -> SUBSET Units]
      /\ vector.unit \subseteq Units
      /\ note.ent \subseteq Ids /\ note.edge \subseteq EdgeIds
      /\ job.first \subseteq DOMAIN job.newEnt
      /\ pc # "idle" => removing # {}
      /\ faults \in 0 .. MaxFaults
  BY DEF Typed, TypeOK
<1>2. /\ {"ent", "edge"} \subseteq DOMAIN graph
      /\ {"unit", "ent", "edge"} \subseteq DOMAIN vector
      /\ {"ent", "edge", "vectorOnly", "sharedEnt", "sharedEdge", "newEnt", "newEdge", "first",
          "noting", "ok", "strip"} \subseteq DOMAIN job
      /\ job.ent \subseteq Ids /\ job.sharedEnt \subseteq Ids
      /\ job.edge \subseteq EdgeIds /\ job.sharedEdge \subseteq EdgeIds
      /\ job.ok \in BOOLEAN /\ job.strip \in BOOLEAN
      /\ \A i \in Ids : \A u \in graph.ent[i] : NameKey[i] \in Mentions[u]
  BY DEF Typed, Shaped
<1>3. /\ {"ent", "edge", "vectorOnly", "sharedEnt", "sharedEdge", "newEnt", "newEdge", "first",
          "noting", "ok", "strip"} \subseteq DOMAIN NoJob
      /\ NoJob.ent = {} /\ NoJob.edge = {} /\ NoJob.sharedEnt = {} /\ NoJob.sharedEdge = {}
      /\ NoJob.first = {} /\ NoJob.ok = TRUE /\ NoJob.strip = TRUE
  BY NoJobIs
<1>4. CASE remove_text_units
  <2>1. /\ pc' = "delete_vector" /\ pc = "idle"
        /\ graph' = graph /\ vector' = vector /\ note' = note /\ faults' = faults
        /\ live' \subseteq live /\ live' \cap removing' = {}
        /\ removing' \subseteq Units /\ removing' # {}
        /\ job'.ent = Exclusive(CitedEntities(removing'), removing')
        /\ job'.edge = Exclusive(CitedEdges(removing'), removing')
        /\ job'.sharedEnt = (Shared(CitedEntities(removing'), removing') \cup note.ent) \ job'.ent
        /\ job'.sharedEdge = (Shared(CitedEdges(removing'), removing') \cup note.edge) \ job'.edge
        /\ job'.strip = TRUE /\ job'.ok = TRUE /\ job'.first = {}
        /\ DOMAIN job' = DOMAIN NoJob
    BY <1>4, RemoveEffect
  <2>2. DOMAIN CitedEntities(removing') \subseteq Ids
    BY <1>1 DEF CitedEntities, Found, Citing
  <2>3. DOMAIN CitedEdges(removing') \subseteq EdgeIds
    BY <1>1 DEF CitedEdges, Found, Citing, GraphEdgesCiting, IncidentCiting
  <2>4. \A i \in Ids : graph.ent[i] \subseteq removing' /\ graph.ent[i] # {} =>
          i \in Exclusive(CitedEntities(removing'), removing')
    BY <1>1 DEF CitedEntities, Found, Citing, Exclusive
  <2>5. /\ job'.ent \subseteq Ids /\ job'.sharedEnt \subseteq Ids
        /\ job'.edge \subseteq EdgeIds /\ job'.sharedEdge \subseteq EdgeIds
    BY <1>1, <2>1, <2>2, <2>3 DEF Exclusive, Shared
  <2>6. TypeOK'
    BY <1>1, <2>1 DEF TypeOK
  <2>7. Shaped'
    BY <1>2, <1>3, <2>1, <2>5 DEF Shaped
  <2>8. Stated'
    BY <2>1, <2>4 DEF Stated, Deleting
  <2>9. Written'
    BY <2>1 DEF Written, Writing
  <2> QED
    BY <2>6, <2>7, <2>8, <2>9 DEF Typed
<1>5. CASE DeleteVector
  <2>1. /\ pc = "delete_vector" /\ pc' = "delete_graph"
        /\ live' = live /\ removing' = removing /\ graph' = graph /\ note' = note
        /\ DOMAIN vector' = {"unit", "ent", "edge"}
        /\ vector'.unit \subseteq vector.unit
        /\ vector'.ent \in [Ids -> SUBSET Units] /\ vector'.edge \in [EdgeIds -> SUBSET Units]
        /\ DOMAIN job' = DOMAIN job /\ \A x \in DOMAIN job : x # "ok" => job'[x] = job[x]
        /\ job'.ok \in BOOLEAN /\ faults' \in 0 .. MaxFaults
    BY <1>5, DeleteVectorEffect
  <2>2. /\ job'.ent = job.ent /\ job'.edge = job.edge /\ job'.first = job.first
        /\ job'.sharedEnt = job.sharedEnt /\ job'.sharedEdge = job.sharedEdge
        /\ job'.newEnt = job.newEnt /\ job'.strip = job.strip
    BY <1>2, <2>1
  <2>3. TypeOK'
    BY <1>1, <2>1, <2>2 DEF TypeOK
  <2>4. Shaped'
    BY <1>2, <2>1, <2>2 DEF Shaped
  <2>5. Stated'
    BY <2>1, <2>2 DEF Typed, Stated, Deleting
  <2>6. Written'
    BY <2>1 DEF Written, Writing
  <2> QED
    BY <2>3, <2>4, <2>5, <2>6 DEF Typed
<1>6. CASE DeleteGraph
  <2>1. /\ pc = "delete_graph"
        /\ live' = live /\ removing' = removing /\ vector' = vector /\ note' = note
        /\ DOMAIN graph' = {"ent", "edge"}
        /\ graph'.ent \in [Ids -> SUBSET Units] /\ graph'.edge \in [EdgeIds -> SUBSET Units]
        /\ \A i \in Ids : \/ graph'.ent[i] = graph.ent[i]
                          \/ i \in job.ent /\ graph'.ent[i] = {}
        /\ \/ pc' = "idle" /\ job' = NoJob
           \/ /\ job.ok /\ job' = [job EXCEPT !.ok = TRUE]
              /\ pc' = IF job.strip /\ job.sharedEnt \cup job.sharedEdge # {}
                       THEN "derive" ELSE "finish"
              /\ \A i \in job.ent : graph'.ent[i] = {}
        /\ faults' \in 0 .. MaxFaults
    BY <1>6, DeleteGraphEffect
  <2>2. \A i \in Ids : \A u \in graph'.ent[i] : NameKey[i] \in Mentions[u]
    BY <1>2, <2>1
  <2>3. CASE pc' = "idle" /\ job' = NoJob
    <3>1. TypeOK'
      BY <1>1, <1>3, <2>1, <2>3 DEF TypeOK
    <3>2. Shaped'
      BY <1>2, <1>3, <2>1, <2>2, <2>3 DEF Shaped
    <3>3. Stated' /\ Written'
      BY <2>3 DEF Stated, Written, Deleting, Writing
    <3> QED
      BY <3>1, <3>2, <3>3 DEF Typed
  <2>4. CASE /\ job.ok /\ job' = [job EXCEPT !.ok = TRUE]
             /\ pc' = IF job.strip /\ job.sharedEnt \cup job.sharedEdge # {}
                       THEN "derive" ELSE "finish"
             /\ \A i \in job.ent : graph'.ent[i] = {}
    <3>1. LearnsOk /\ pc' \in {"derive", "finish"} /\ (pc' = "derive" => job.strip)
      <4>1. LearnsOk
        BY <2>4, OkOnly
      <4> QED
        BY <2>4, <4>1
    <3>2. TypeOK'
      BY <1>1, <2>1, <3>1 DEF TypeOK, LearnsOk
    <3>3. Shaped'
      BY <1>2, <2>1, <2>2, <3>1 DEF Shaped, LearnsOk
    <3>4. Stated'
      <4> SUFFICES ASSUME pc' = "derive", NEW i \in Ids, graph'.ent[i] \subseteq removing
                   PROVE  graph'.ent[i] = {}
        BY <2>1, <3>1 DEF Stated, Deleting
      <4>1. graph.ent[i] \subseteq removing /\ graph.ent[i] # {} => i \in job.ent
        BY <2>1, <3>1 DEF Typed, Stated, Deleting
      <4> QED
        BY <2>1, <2>4, <4>1
    <3>5. Written'
      BY <3>1 DEF Written, Writing
    <3> QED
      BY <3>2, <3>3, <3>4, <3>5 DEF Typed
  <2> QED
    BY <2>1, <2>3, <2>4
<1>7. CASE Derive
  <2>1. /\ pc = "derive" /\ pc' = "note"
        /\ live' = live /\ removing' = removing /\ faults' = faults
        /\ graph' = graph /\ vector' = vector /\ note' = note
        /\ DOMAIN job' = DOMAIN job /\ job'.strip = FALSE /\ job'.ok = job.ok
        /\ job'.sharedEnt = job.sharedEnt /\ job'.sharedEdge = job.sharedEdge
        /\ DOMAIN job'.newEnt = NewEntities
        /\ \A i \in NewEntities : job'.newEnt[i] = EntityUnits(i, ItemUnits)
        /\ DOMAIN job'.newEdge = NewEdges
        /\ \A e \in NewEdges : job'.newEdge[e] = EdgeUnits(e, ItemUnits)
        /\ job'.ent = (Items.ent \ NewEntities)
                         \cup (job.sharedEnt \ (ReadShared.ent \cup NewEntities))
        /\ job'.edge = (Items.edge \ NewEdges)
                         \cup (job.sharedEdge \ (ReadShared.edge \cup NewEdges))
        /\ job'.first = {i \in NewEntities : i \notin ReadShared.ent
                             \/ ~(EntityUnits(i, ItemUnits) \subseteq graph.ent[i])}
        /\ job'.noting.ent = (Items.ent \ NewEntities)
                                \cup {NewId(i) : i \in Items.ent \ NewEntities}
        /\ job'.noting.edge = Items.edge \ NewEdges
    BY <1>7, DeriveEffect
  <2>2. /\ Items.ent \subseteq Ids /\ Items.edge \subseteq EdgeIds /\ ItemUnits \subseteq Units
    BY ItemsHeld, ItemUnitsAre
  <2>3. \A i \in Items.ent : NewId(i) \in Ids /\ EntityUnits(NewId(i), ItemUnits) # {}
    BY <2>1, DerivesTo
  <2>4. NewEntities \subseteq Ids /\ \A i \in NewEntities : EntityUnits(i, ItemUnits) # {}
    BY <2>3 DEF NewEntities
  <2>5. \A i \in Ids : /\ EntityUnits(i, ItemUnits) \subseteq Units
                       /\ \A u \in EntityUnits(i, ItemUnits) : NameKey[i] \in Mentions[u]
    BY <2>2 DEF EntityUnits
  <2>6. \A e \in NewEdges : EdgeUnits(e, ItemUnits) \subseteq Units
    BY <2>2 DEF EdgeUnits, EntityUnits
  <2>7. /\ job'.ent \subseteq Ids /\ job'.edge \subseteq EdgeIds
        /\ job'.noting.edge \subseteq EdgeIds
        /\ job'.first \subseteq NewEntities
    BY <1>2, <2>1, <2>2
  <2>8. job'.noting.ent \subseteq Ids
    BY <2>1, <2>2, <2>3
  <2>9. TypeOK'
    BY <1>1, <2>1, <2>7 DEF TypeOK
  <2>10. Shaped'
    BY <1>2, <2>1, <2>7 DEF Shaped
  <2>11. Stated'
    BY <2>1 DEF Stated, Deleting
  <2>12. Written'
    BY <2>1, <2>4, <2>5, <2>6, <2>7, <2>8 DEF Written
  <2> QED
    BY <2>9, <2>10, <2>11, <2>12 DEF Typed
<1>8. CASE NoteStrip
  <2>1. /\ pc = "note" /\ pc' = "gained"
        /\ live' = live /\ removing' = removing /\ faults' = faults
        /\ graph' = graph /\ vector' = vector /\ job' = job
        /\ note'.ent = note.ent \cup job.noting.ent
        /\ note'.edge = note.edge \cup job.noting.edge
    BY <1>8, NoteEffect
  <2>2. Written /\ job.noting.ent \subseteq Ids /\ job.noting.edge \subseteq EdgeIds
    BY <2>1 DEF Typed, Written, Writing
  <2>3. TypeOK'
    BY <1>1, <2>1, <2>2 DEF TypeOK
  <2>4. Shaped'
    BY <1>2, <2>1 DEF Shaped
  <2>5. Stated'
    BY <2>1 DEF Stated, Deleting
  <2>6. Written'
    BY <2>1, <2>2 DEF Written, Writing
  <2> QED
    BY <2>3, <2>4, <2>5, <2>6 DEF Typed
<1>9. CASE WriteGained
  <2>1. /\ pc = "gained" /\ pc' = "edges"
        /\ live' = live /\ removing' = removing /\ vector' = vector /\ note' = note
        /\ DOMAIN graph' = DOMAIN graph /\ graph'.edge = graph.edge
        /\ graph'.ent \in [Ids -> SUBSET Units]
        /\ \A i \in Ids : \/ graph'.ent[i] = graph.ent[i]
                          \/ i \in job.first /\ graph'.ent[i] = job.newEnt[i]
        /\ LearnsOk /\ faults' \in 0 .. MaxFaults
    BY <1>9, GainedEffect
  <2>2. Written /\ \A i \in DOMAIN job.newEnt : \A u \in job.newEnt[i] : NameKey[i] \in Mentions[u]
    BY <2>1 DEF Typed, Written, Writing
  <2>3. \A i \in Ids : \A u \in graph'.ent[i] : NameKey[i] \in Mentions[u]
    BY <1>1, <1>2, <2>1, <2>2
  <2>4. TypeOK'
    BY <1>1, <2>1 DEF TypeOK, LearnsOk
  <2>5. Shaped'
    BY <1>2, <2>1, <2>3 DEF Shaped, LearnsOk
  <2>6. Stated'
    BY <2>1 DEF Stated, Deleting
  <2>7. Written'
    BY <2>1, <2>2 DEF Written, Writing, LearnsOk
  <2> QED
    BY <2>4, <2>5, <2>6, <2>7 DEF Typed
<1>10. CASE WriteEdges
  <2>1. /\ pc = "edges" /\ pc' = "vector_edges"
        /\ live' = live /\ removing' = removing /\ vector' = vector /\ note' = note
        /\ DOMAIN graph' = DOMAIN graph /\ graph'.ent = graph.ent
        /\ graph'.edge \in [EdgeIds -> SUBSET Units]
        /\ LearnsOk /\ faults' \in 0 .. MaxFaults
    BY <1>10, EdgesEffect
  <2>2. Written
    BY DEF Typed
  <2>3. TypeOK'
    BY <1>1, <2>1 DEF TypeOK, LearnsOk
  <2>4. Shaped'
    BY <1>2, <2>1 DEF Shaped, LearnsOk
  <2>5. Stated'
    BY <2>1 DEF Stated, Deleting
  <2>6. Written'
    BY <2>1, <2>2 DEF Written, Writing, LearnsOk
  <2> QED
    BY <2>3, <2>4, <2>5, <2>6 DEF Typed
<1>11. CASE WriteVectorEdges
  <2>1. /\ pc = "vector_edges" /\ pc' = "kept"
        /\ live' = live /\ removing' = removing /\ graph' = graph /\ note' = note
        /\ DOMAIN vector' = DOMAIN vector
        /\ vector'.unit = vector.unit /\ vector'.ent = vector.ent
        /\ vector'.edge \in [EdgeIds -> SUBSET Units]
        /\ LearnsOk /\ faults' \in 0 .. MaxFaults
    BY <1>11, VectorEdgesEffect
  <2>2. Written
    BY DEF Typed
  <2>3. TypeOK'
    BY <1>1, <2>1 DEF TypeOK, LearnsOk
  <2>4. Shaped'
    BY <1>2, <2>1 DEF Shaped, LearnsOk
  <2>5. Stated'
    BY <2>1 DEF Stated, Deleting
  <2>6. Written'
    BY <2>1, <2>2 DEF Written, Writing, LearnsOk
  <2> QED
    BY <2>3, <2>4, <2>5, <2>6 DEF Typed
<1>12. CASE WriteKept
  <2>1. /\ pc = "kept"
        /\ live' = live /\ removing' = removing /\ note' = note
        /\ DOMAIN graph' = DOMAIN graph /\ graph'.edge = graph.edge
        /\ DOMAIN vector' = DOMAIN vector
        /\ vector'.unit = vector.unit /\ vector'.edge = vector.edge
        /\ graph'.ent \in [Ids -> SUBSET Units] /\ vector'.ent \in [Ids -> SUBSET Units]
        /\ \A i \in Ids : \/ graph'.ent[i] = graph.ent[i]
                          \/ i \in DOMAIN job.newEnt /\ graph'.ent[i] = job.newEnt[i]
        /\ \/ pc' = "idle" /\ job' = NoJob
           \/ /\ job.ok /\ pc' = "delete_vector"
              /\ DOMAIN job' = DOMAIN NoJob
              /\ job'.ent = job.ent /\ job'.edge = job.edge
              /\ job'.sharedEnt = {} /\ job'.sharedEdge = {} /\ job'.first = {}
              /\ job'.ok = TRUE /\ job'.strip = FALSE
        /\ faults' \in 0 .. MaxFaults
    BY <1>12, KeptEffect
  <2>2. \A i \in DOMAIN job.newEnt : \A u \in job.newEnt[i] : NameKey[i] \in Mentions[u]
    BY <2>1 DEF Typed, Written, Writing
  <2>3. \A i \in Ids : \A u \in graph'.ent[i] : NameKey[i] \in Mentions[u]
    BY <1>2, <2>1, <2>2
  <2>4. /\ pc' \in {"idle", "delete_vector"} /\ job'.first = {} /\ DOMAIN job' = DOMAIN NoJob
        /\ job'.ent \subseteq Ids /\ job'.edge \subseteq EdgeIds
        /\ job'.sharedEnt = {} /\ job'.sharedEdge = {} /\ job'.ok = TRUE /\ job'.strip \in BOOLEAN
        /\ pc' = "delete_vector" => job'.strip = FALSE
    BY <1>2, <1>3, <2>1
  <2>5. TypeOK'
    BY <1>1, <2>1, <2>4 DEF TypeOK
  <2>6. Shaped'
    BY <1>2, <1>3, <2>1, <2>3, <2>4 DEF Shaped
  <2>7. Stated' /\ Written'
    BY <2>4 DEF Stated, Written, Deleting, Writing
  <2> QED
    BY <2>5, <2>6, <2>7 DEF Typed
<1>13. CASE ClearNote \/ Record \/ Stop
  <2>1. /\ pc # "idle" /\ graph' = graph /\ vector' = vector /\ live' = live
        /\ job' = NoJob \/ job' = job
        /\ pc' \in {"record", "idle"} /\ (note' = note \/ note' = NoNote)
        /\ removing' = removing \/ (pc' = "idle" /\ removing' = {})
        /\ faults' \in 0 .. MaxFaults
    BY <1>13, EndEffect
  <2>2. NoNote.ent = {} /\ NoNote.edge = {}
    BY DEF NoNote
  <2>3. TypeOK'
    BY <1>1, <1>3, <2>1, <2>2 DEF TypeOK
  <2>4. Shaped'
    BY <1>2, <1>3, <2>1 DEF Shaped
  <2>5. Stated' /\ Written'
    BY <2>1 DEF Stated, Written, Deleting, Writing
  <2> QED
    BY <2>3, <2>4, <2>5 DEF Typed
<1> QED
  BY <1>4, <1>5, <1>6, <1>7, <1>8, <1>9, <1>10, <1>11, <1>12, <1>13 DEF Next

LEMMA TypedInductive == Typed /\ [Next]_vars => Typed'
<1>1. Typed /\ Next => Typed'
  BY TypedNext
<1>2. Typed /\ UNCHANGED vars => Typed'
  BY DEF Typed, TypeOK, Shaped, Stated, Written, Deleting, Writing, vars, corpus, stores
<1> QED
  BY <1>1, <1>2

\* The types of the stores, the note and the running removal: in particular the
\* vertices a removal writes first are among those it derived.
THEOREM TypeCorrect == Spec => []TypeOK
<1>1. Typed => TypeOK
  BY DEF Typed
<1> QED
  BY InitTyped, TypedInductive, <1>1, PTL DEF Spec

-----------------------------------------------------------------------------
(* What is kept of the live units' statements: the invariant.              *)

\* Both stores' copies cite a unit.
Keeps(g, v, i, u) == u \in g[i] /\ u \in v[i]
KeepsEntity(i, u) == Keeps(graph.ent, vector.ent, i, u)
KeepsEdge(e, u) ==
    Keeps(graph.edge, vector.edge, e, u) /\ KeepsEntity(e[1], u) /\ KeepsEntity(e[2], u)

\* What a unit states is kept on an item other than those named.
MentionKept(u, k, ents) == \E i \in Ids \ ents : NameKey[i] = k /\ KeepsEntity(i, u)
RelationKept(u, p, ents, edges) ==
    \E e \in EdgeIds \ edges :
        /\ e[1] \notin ents /\ e[2] \notin ents
        /\ <<NameKey[e[1]], NameKey[e[2]]>> = p /\ KeepsEdge(e, u)
KeptBut(ents, edges) ==
    \A u \in live : /\ \A k \in Mentions[u] : MentionKept(u, k, ents)
                    /\ \A p \in Relates[u] : RelationKept(u, p, ents, edges)

\* An entity's units are some that a build of the live units, and maybe others,
\* gives it.
Derives(units, i) == \E us \in SUBSET Units : live \subseteq us /\ units \subseteq EntityUnits(i, us)

\* The graph's copies are of builds, and no edge dangles.
Stored ==
    /\ \A i \in Ids : graph.ent[i] \subseteq live \cup removing /\ Derives(graph.ent[i], i)
    /\ \A e \in EdgeIds :
         /\ graph.edge[e] \subseteq live \cup removing
         /\ \A u \in graph.edge[e] :
              /\ Derives({u}, e[1]) /\ Derives({u}, e[2])
              /\ <<NameKey[e[1]], NameKey[e[2]]>> \in Relates[u]
         /\ graph.edge[e] # {} => graph.ent[e[1]] # {} /\ graph.ent[e[2]] # {}

\* The ends of an edge cite what it cites.
Anchored(us, but) ==
    \A e \in EdgeIds : \A u \in graph.edge[e] \cap us :
        /\ u \in graph.ent[e[1]] \/ e[1] \in but
        /\ u \in graph.ent[e[2]] \/ e[2] \in but

Gone(us) == us \cap vector.unit = {}
Clean(ents, edges) ==
    Citing(graph.ent, removing) \subseteq ents /\ Citing(graph.edge, removing) \subseteq edges

\* A removal found every copy of the graph that cites a removed unit.
FoundAll ==
    Deleting /\ job.strip =>
        /\ Clean(job.ent \cup job.sharedEnt, job.edge \cup job.sharedEdge)
        /\ note.ent \subseteq job.ent \cup job.sharedEnt
        /\ pc = "delete_graph" /\ job.ok => Gone(removing)

Deriving ==
    pc = "derive" =>
        /\ Clean(job.sharedEnt, job.sharedEdge)
        /\ note.ent \cap Held(graph.ent) \subseteq job.sharedEnt
        /\ Gone(removing)

\* What is about to be written is a build of the live units, of all that cite a
\* removed unit and do not go; a vertex that gains a unit is noted.
Noted == note.ent \cup IF pc = "note" THEN job.noting.ent ELSE {}
Stripping ==
    Writing =>
        /\ \A i \in DOMAIN job.newEnt :
             /\ job.newEnt[i] = EntityUnits(i, live) /\ i \notin job.ent
             /\ job.newEnt[i] \subseteq graph.ent[i] \/ i \in Noted
        /\ \A e \in DOMAIN job.newEdge :
             /\ job.newEdge[e] = EdgeUnits(e, live) /\ e \notin job.edge
             /\ {e[1], e[2]} \subseteq DOMAIN job.newEnt
        /\ Clean(DOMAIN job.newEnt \cup job.ent, DOMAIN job.newEdge \cup job.edge)
        /\ Noted \cap Held(graph.ent) \subseteq DOMAIN job.newEnt \cup job.ent
        /\ Gone(removing)

\* What a live unit states is on an item that stays or on one to be written.
KeptOrNew ==
    Writing =>
        \A u \in live :
            /\ \A k \in Mentions[u] :
                 \/ MentionKept(u, k, job.ent)
                 \/ \E i \in DOMAIN job.newEnt : NameKey[i] = k /\ u \in job.newEnt[i]
            /\ \A p \in Relates[u] :
                 \/ RelationKept(u, p, job.ent, job.edge)
                 \/ \E e \in DOMAIN job.newEdge \cap EdgeIds :
                      <<NameKey[e[1]], NameKey[e[2]]>> = p /\ u \in job.newEdge[e]

\* Unless a phase failed, what the earlier ones wrote is there.
SoFar ==
    job.ok =>
        /\ pc \in {"edges", "vector_edges", "kept"} =>
             \A i \in job.first : graph.ent[i] = job.newEnt[i]
        /\ pc \in {"vector_edges", "kept"} =>
             \A e \in DOMAIN job.newEdge \cap EdgeIds : graph.edge[e] = job.newEdge[e]
        /\ pc = "kept" =>
             \A e \in DOMAIN job.newEdge \cap EdgeIds : vector.edge[e] = job.newEdge[e]

\* The old ids are all that still cites a removed unit.
Retiring ==
    Deleting /\ ~job.strip =>
        /\ Clean(job.ent, job.edge) /\ Anchored(live, job.ent) /\ Gone(removing)

Finished == Finishing => Clean({}, {}) /\ Anchored(Units, {})

Sound ==
    /\ live \subseteq vector.unit /\ Stored /\ Anchored(live, note.ent)
    /\ removing \subseteq vector.unit => Anchored(Units, {})
    /\ KeptBut({}, {})
    /\ Deleting => KeptBut(job.ent, job.edge)
Phases == FoundAll /\ Deriving /\ Stripping /\ KeptOrNew /\ SoFar /\ Retiring /\ Finished

Inv == Typed /\ Sound /\ Phases

-----------------------------------------------------------------------------
(* What the derivation decides.                                            *)

\* What builds give an entity, the build of the live units gives it too, if it
\* keeps its id.
LEMMA LiveStays ==
  ASSUME live \subseteq Units, NEW i \in Ids, NEW units, Derives(units, i),
         EntityUnits(i, live) # {}
  PROVE  units \cap live \subseteq EntityUnits(i, live)
<1>1. PICK us \in SUBSET Units : live \subseteq us /\ units \subseteq EntityUnits(i, us)
  BY DEF Derives
<1>2. EntityUnits(i, us) \cap live \subseteq EntityUnits(i, live)
  BY <1>1, Stays
<1> QED
  BY <1>1, <1>2

LEMMA LiveTogether ==
  ASSUME live \subseteq Units, NEW i \in Ids, NEW units, Derives(units, i),
         NEW u \in units \cap live, NEW w \in units \cap live
  PROVE  Resolved[live][<<u, NameKey[i]>>] = Resolved[live][<<w, NameKey[i]>>]
<1>1. PICK us \in SUBSET Units : live \subseteq us /\ units \subseteq EntityUnits(i, us)
  BY DEF Derives
<1> QED
  BY <1>1, Together

\* The ends of an item are items: no stored edge dangles.
LEMMA ItemEnds ==
  ASSUME Typed, Stored, pc = "derive", NEW e \in Items.edge
  PROVE  e[1] \in Items.ent /\ e[2] \in Items.ent
<1> DEFINE read == ReadShared
           Closed(x) == \A y \in x.edge : y[1] \in x.ent /\ y[2] \in x.ent
           S == {x \in [ent : SUBSET Held(graph.ent), edge : SUBSET Held(graph.edge)] : Closed(x)}
<1>1. \A y \in Held(graph.edge) : y[1] \in Held(graph.ent) /\ y[2] \in Held(graph.ent)
                                  /\ y[1] \in Ids /\ y[2] \in Ids
  BY IdsOfEdges, ItemsHeld DEF Stored, Held, Typed, TypeOK
<1>2. read \in S
  BY <1>1 DEF ReadShared, Ends
<1>3. ASSUME NEW x \in S
      PROVE  NextRound(x, read) \in S
  <2> DEFINE us == UnitsOf(x, read)
             rekeyed == {i \in x.ent : DerivedId(i, us, read) # i}
             moved == rekeyed \cup {DerivedId(i, us, read) : i \in rekeyed}
             held == {DerivedEdge(y, us, read) : y \in x.edge} \cap Held(graph.edge)
             next == NextRound(x, read)
  <2>1. /\ x.ent \subseteq Held(graph.ent) /\ x.edge \subseteq Held(graph.edge) /\ Closed(x)
    OBVIOUS
  <2>2. /\ next.ent = x.ent \cup Siblings(x.ent) \cup (Ends(Parted(moved)) \cap Held(graph.ent))
        /\ next.edge = x.edge \cup held \cup Parted(moved)
        /\ next = [ent |-> next.ent, edge |-> next.edge]
    BY DEF NextRound
  <2>3. \A i \in x.ent : NameKey[DerivedId(i, us, read)] = NameKey[i]
    BY <2>1, DerivesToOf
  <2> HIDE DEF us
  <2>4. \A y \in held : y[1] \in Siblings(x.ent) /\ y[2] \in Siblings(x.ent)
    <3> TAKE y \in held
    <3>1. PICK z \in x.edge : y = DerivedEdge(z, us, read)
      OBVIOUS
    <3>2. z[1] \in x.ent /\ z[2] \in x.ent
      BY <2>1
    <3>3. y[1] = DerivedId(z[1], us, read) /\ y[2] = DerivedId(z[2], us, read)
      BY <3>1 DEF DerivedEdge
    <3>4. y[1] \in Held(graph.ent) /\ y[2] \in Held(graph.ent)
      BY <1>1
    <3> QED
      BY <2>3, <3>2, <3>3, <3>4 DEF Siblings
  <2>5. \A y \in Parted(moved) : /\ y \in Held(graph.edge)
                                 /\ y[1] \in Ends(Parted(moved)) \cap Held(graph.ent)
                                 /\ y[2] \in Ends(Parted(moved)) \cap Held(graph.ent)
    BY <1>1 DEF Parted, Incident, Ends
  <2>6. held \subseteq Held(graph.edge) /\ Siblings(x.ent) \subseteq Held(graph.ent)
    BY DEF Siblings
  <2> HIDE DEF moved, held, next
  <2>7. Closed(next)
    BY <2>1, <2>2, <2>4, <2>5
  <2>8. next.ent \subseteq Held(graph.ent) /\ next.edge \subseteq Held(graph.edge)
    BY <2>1, <2>2, <2>5, <2>6
  <2>9. next \in S
    BY <2>2, <2>7, <2>8
  <2> QED
    BY <2>9 DEF next
<1> HIDE DEF S, read
<1>4. ItemsDerived(read) \in S
  BY <1>2, <1>3, InRounds
<1>5. Items \in S
  BY <1>4 DEF Items, read
<1> QED
  BY <1>5 DEF S

\* Every copy that cites a removed unit was read, and stripped of it.
LEMMA ItemsLive ==
  ASSUME Typed, Stored, Deriving, pc = "derive"
  PROVE  /\ \A i \in Items.ent : Cites(i) = graph.ent[i] \cap live
         /\ \A e \in Items.edge : CitesEdge(e) = graph.edge[e] \cap live
         /\ ItemUnits \subseteq live
<1>1. Clean(job.sharedEnt, job.sharedEdge) /\ live \cap removing = {}
  BY DEF Deriving, Typed, TypeOK
<1>2. \A i \in Items.ent : Cites(i) = graph.ent[i] \cap live
  <2> TAKE i \in Items.ent
  <2>1. i \in Ids /\ graph.ent[i] # {} /\ graph.ent[i] \subseteq live \cup removing
        /\ i \in DOMAIN graph.ent /\ i \in Held(graph.ent)
    BY ItemsHeld DEF Stored, Held
  <2>2. i \notin ReadShared.ent => graph.ent[i] \cap removing = {}
    <3> SUFFICES ASSUME graph.ent[i] \cap removing # {}
                 PROVE  i \in ReadShared.ent
      OBVIOUS
    <3>1. i \in job.sharedEnt
      BY <1>1, <2>1 DEF Clean, Citing
    <3> QED
      BY <2>1, <3>1 DEF ReadShared
  <2> QED
    BY <1>1, <2>1, <2>2 DEF Cites
<1>3. \A e \in Items.edge : CitesEdge(e) = graph.edge[e] \cap live
  <2> TAKE e \in Items.edge
  <2>1. e \in EdgeIds /\ graph.edge[e] # {} /\ graph.edge[e] \subseteq live \cup removing
        /\ e \in DOMAIN graph.edge /\ e \in Held(graph.edge)
    BY ItemsHeld DEF Stored, Held
  <2>2. e \notin ReadShared.edge => graph.edge[e] \cap removing = {}
    <3> SUFFICES ASSUME graph.edge[e] \cap removing # {}
                 PROVE  e \in ReadShared.edge
      OBVIOUS
    <3>1. e \in job.sharedEdge
      BY <1>1, <2>1 DEF Clean, Citing
    <3> QED
      BY <2>1, <3>1 DEF ReadShared
  <2> QED
    BY <1>1, <2>1, <2>2 DEF CitesEdge
<1>4. ItemUnits \subseteq live
  BY <1>2, <1>3, ItemUnitsAre
<1> QED
  BY <1>2, <1>3, <1>4

\* Once a round brings nothing more, the items are all the stored ones of their
\* names, and the edges at those that change their ids.
LEMMA ItemsSettled ==
  ASSUME Typed, pc = "derive", Settles
  PROVE  /\ \A i \in Items.ent : \A j \in Held(graph.ent) :
              NameKey[j] = NameKey[i] => j \in Items.ent
         /\ \A e \in Held(graph.edge) : \A i \in Items.ent :
              NewId(i) # i /\ (i = e[1] \/ i = e[2]) => e \in Items.edge
<1>1. NextRound(Items, ReadShared) = Items
  BY DEF Settles, Items
<1> DEFINE rekeyed == {i \in Items.ent : NewId(i) # i}
           moved == rekeyed \cup {NewId(i) : i \in rekeyed}
<1>2. /\ NextRound(Items, ReadShared).ent
           = Items.ent \cup Siblings(Items.ent) \cup (Ends(Parted(moved)) \cap Held(graph.ent))
      /\ NextRound(Items, ReadShared).edge
           = Items.edge \cup ({DerivedEdge(e, ItemUnits, ReadShared) : e \in Items.edge}
                                \cap Held(graph.edge)) \cup Parted(moved)
  BY DEF NextRound, NewId, ItemUnits
<1>3. Siblings(Items.ent) \subseteq Items.ent /\ Parted(moved) \subseteq Items.edge
  BY <1>1, <1>2
<1>4. \A i \in Items.ent : \A j \in Held(graph.ent) : NameKey[j] = NameKey[i] => j \in Items.ent
  BY <1>3 DEF Siblings
<1>5. \A e \in Held(graph.edge) : \A i \in Items.ent :
         NewId(i) # i /\ (i = e[1] \/ i = e[2]) => e \in Items.edge
  BY <1>3 DEF Parted, Incident
<1> QED
  BY <1>4, <1>5

\* The items' units that state an item's name are all the live ones that do.
LEMMA ItemNames ==
  ASSUME Typed, Stored, Deriving, KeptBut({}, {}), pc = "derive", Settles,
         NEW i \in Items.ent, NEW j \in Ids, NameKey[j] = NameKey[i]
  PROVE  /\ EntityUnits(j, ItemUnits) = EntityUnits(j, live)
         /\ \A u \in ItemUnits : NameKey[j] \in Mentions[u] =>
              Resolved[live][<<u, NameKey[j]>>] = Resolved[ItemUnits][<<u, NameKey[j]>>]
<1>1. ItemUnits \in SUBSET Units /\ live \in SUBSET Units /\ ItemUnits \subseteq live
  BY ItemUnitsAre, ItemsLive DEF Typed, TypeOK
<1>2. \A u \in live : NameKey[j] \in Mentions[u] => u \in ItemUnits
  <2> SUFFICES ASSUME NEW u \in live, NameKey[j] \in Mentions[u]
               PROVE  u \in ItemUnits
    OBVIOUS
  <2>1. PICK h \in Ids : NameKey[h] = NameKey[j] /\ KeepsEntity(h, u)
    BY DEF KeptBut, MentionKept
  <2>2. u \in graph.ent[h] /\ h \in Held(graph.ent)
    BY <2>1 DEF KeepsEntity, Keeps, Held, Typed, TypeOK
  <2>3. h \in Items.ent
    BY <2>1, <2>2, ItemsSettled
  <2>4. u \in Cites(h)
    BY <2>2, <2>3, ItemsLive
  <2> QED
    BY <2>3, <2>4, ItemUnitsAre
<1>3. {u \in live : NameKey[j] \in Mentions[u]} = {u \in ItemUnits : NameKey[j] \in Mentions[u]}
  BY <1>1, <1>2
<1> QED
  BY <1>1, <1>3, SameUnits

\* What a live unit states on an item is of the entity the item derives to.
LEMMA Follows ==
  ASSUME Typed, Stored, Deriving, KeptBut({}, {}), pc = "derive", Settles,
         NEW i \in Items.ent
  PROVE  /\ NewId(i) \in NewEntities /\ NewId(i) \in Ids /\ NameKey[NewId(i)] = NameKey[i]
         /\ EntityUnits(NewId(i), live) # {}
         /\ EntityUnits(i, live) # {} => NewId(i) = i
         /\ \A u \in graph.ent[i] \cap live : u \in EntityUnits(NewId(i), live)
<1>1. i \in Ids /\ Derives(graph.ent[i], i) /\ live \subseteq Units
  BY ItemsHeld DEF Stored, Typed, TypeOK
<1>2. /\ NewId(i) \in Ids /\ NameKey[NewId(i)] = NameKey[i]
      /\ EntityUnits(NewId(i), ItemUnits) # {}
      /\ EntityUnits(i, ItemUnits) # {} => NewId(i) = i
      /\ EntityUnits(i, ItemUnits) = {} =>
              \E u \in Cites(i) : NewId(i) = Resolved[ItemUnits][<<u, NameKey[i]>>]
  BY DerivesTo
<1>3. /\ EntityUnits(i, ItemUnits) = EntityUnits(i, live)
      /\ EntityUnits(NewId(i), ItemUnits) = EntityUnits(NewId(i), live)
      /\ \A u \in ItemUnits : NameKey[i] \in Mentions[u] =>
              Resolved[live][<<u, NameKey[i]>>] = Resolved[ItemUnits][<<u, NameKey[i]>>]
  BY <1>1, <1>2, ItemNames
<1>4. ASSUME NEW u \in graph.ent[i] \cap live
      PROVE  u \in EntityUnits(NewId(i), live)
  <2>1. CASE EntityUnits(i, live) # {}
    <3>1. graph.ent[i] \cap live \subseteq EntityUnits(i, live)
      BY <1>1, <2>1, LiveStays
    <3> QED
      BY <1>2, <1>3, <2>1, <3>1
  <2>2. CASE EntityUnits(i, live) = {}
    <3>1. PICK w \in Cites(i) : NewId(i) = Resolved[ItemUnits][<<w, NameKey[i]>>]
      BY <1>2, <1>3, <2>2
    <3>2. w \in graph.ent[i] \cap live /\ w \in ItemUnits
      BY ItemsLive, ItemUnitsAre
    <3>3. NameKey[i] \in Mentions[w] /\ NameKey[i] \in Mentions[u]
      BY <1>1, <3>2 DEF Typed, Shaped
    <3>4. NewId(i) = Resolved[live][<<w, NameKey[i]>>]
      BY <1>3, <3>1, <3>2, <3>3
    <3>5. Resolved[live][<<u, NameKey[i]>>] = Resolved[live][<<w, NameKey[i]>>]
      BY <1>1, <3>2, LiveTogether
    <3>6. u \in EntityUnits(Resolved[live][<<u, NameKey[i]>>], live)
      BY <1>1, <3>3, Resolves
    <3> QED
      BY <3>4, <3>5, <3>6
  <2> QED
    BY <2>1, <2>2
<1> QED
  BY <1>2, <1>3, <1>4 DEF NewEntities

\* An edge of a live unit derives to one that unit states.
LEMMA FollowsEdge ==
  ASSUME Typed, Stored, Deriving, KeptBut({}, {}), pc = "derive", Settles,
         NEW e \in Items.edge
  PROVE  /\ NewEdge(e) \in NewEdges /\ NewEdge(e) = <<NewId(e[1]), NewId(e[2])>>
         /\ e[1] \in Items.ent /\ e[2] \in Items.ent
         /\ EdgeUnits(NewEdge(e), ItemUnits) = EdgeUnits(NewEdge(e), live)
         /\ \A u \in graph.edge[e] \cap live :
              u \in graph.ent[e[1]] /\ u \in graph.ent[e[2]] =>
                /\ NewEdge(e) \in EdgeIds /\ u \in EdgeUnits(NewEdge(e), live)
                /\ <<NameKey[NewId(e[1])], NameKey[NewId(e[2])]>> = <<NameKey[e[1]], NameKey[e[2]]>>
<1>1. e[1] \in Items.ent /\ e[2] \in Items.ent
  BY ItemEnds
<1>2. /\ NewId(e[1]) \in Ids /\ NewId(e[2]) \in Ids
      /\ NameKey[NewId(e[1])] = NameKey[e[1]] /\ NameKey[NewId(e[2])] = NameKey[e[2]]
      /\ \A u \in graph.ent[e[1]] \cap live : u \in EntityUnits(NewId(e[1]), live)
      /\ \A u \in graph.ent[e[2]] \cap live : u \in EntityUnits(NewId(e[2]), live)
  BY <1>1, Follows
<1>3. /\ EntityUnits(NewId(e[1]), ItemUnits) = EntityUnits(NewId(e[1]), live)
      /\ EntityUnits(NewId(e[2]), ItemUnits) = EntityUnits(NewId(e[2]), live)
  BY <1>1, <1>2, ItemNames
<1>4. NewEdge(e) = <<NewId(e[1]), NewId(e[2])>> /\ NewEdge(e) \in NewEdges
      /\ NewEdge(e)[1] = NewId(e[1]) /\ NewEdge(e)[2] = NewId(e[2])
  BY DEF NewEdge, NewEdges
<1>5. EdgeUnits(NewEdge(e), ItemUnits) = EdgeUnits(NewEdge(e), live)
  BY <1>3, <1>4 DEF EdgeUnits
<1>6. ASSUME NEW u \in graph.edge[e] \cap live, u \in graph.ent[e[1]], u \in graph.ent[e[2]]
      PROVE  NewEdge(e) \in EdgeIds /\ u \in EdgeUnits(NewEdge(e), live)
  <2>1. e \in EdgeIds /\ <<NameKey[e[1]], NameKey[e[2]]>> \in Relates[u]
    BY <1>6, ItemsHeld DEF Stored
  <2>2. <<NameKey[NewEdge(e)[1]], NameKey[NewEdge(e)[2]]>> \in Relates[u] /\ u \in Units
    BY <1>2, <1>4, <2>1 DEF Typed, TypeOK
  <2>3. u \in EdgeUnits(NewEdge(e), live)
    BY <1>2, <1>4, <1>6, <2>2 DEF EdgeUnits
  <2>4. NewEdge(e) \in EdgeIds
    BY <1>2, <1>4, <2>2 DEF EdgeIds
  <2> QED
    BY <2>3, <2>4
<1> QED
  BY <1>1, <1>2, <1>4, <1>5, <1>6

-----------------------------------------------------------------------------
(* Every step keeps the invariant.                                         *)

\* The derivation decides to write what a build of the live units gives the
\* items, and to delete nothing that still carries a statement alone.
LEMMA DeriveDecides ==
  ASSUME Typed, Sound, Deriving, Settles, Derive
  PROVE  Stripping' /\ KeptOrNew'
<1>1. /\ pc = "derive" /\ pc' = "note"
      /\ live' = live /\ removing' = removing
      /\ graph' = graph /\ vector' = vector /\ note' = note
      /\ DOMAIN job'.newEnt = NewEntities
      /\ \A i \in NewEntities : job'.newEnt[i] = EntityUnits(i, ItemUnits)
      /\ DOMAIN job'.newEdge = NewEdges
      /\ \A e \in NewEdges : job'.newEdge[e] = EdgeUnits(e, ItemUnits)
      /\ job'.ent = (Items.ent \ NewEntities)
                         \cup (job.sharedEnt \ (ReadShared.ent \cup NewEntities))
      /\ job'.edge = (Items.edge \ NewEdges)
                         \cup (job.sharedEdge \ (ReadShared.edge \cup NewEdges))
      /\ job'.noting.ent = (Items.ent \ NewEntities)
                              \cup {NewId(i) : i \in Items.ent \ NewEntities}
  BY DeriveEffect
<1>2. /\ Stored /\ KeptBut({}, {}) /\ Clean(job.sharedEnt, job.sharedEdge)
      /\ note.ent \cap Held(graph.ent) \subseteq job.sharedEnt /\ Gone(removing)
  BY <1>1 DEF Sound, Deriving
<1>3. /\ \A i \in Items.ent :
            /\ NewId(i) \in NewEntities /\ NewId(i) \in Ids /\ NameKey[NewId(i)] = NameKey[i]
            /\ EntityUnits(NewId(i), live) # {}
            /\ EntityUnits(i, live) # {} => NewId(i) = i
            /\ \A u \in graph.ent[i] \cap live : u \in EntityUnits(NewId(i), live)
      /\ \A i \in Items.ent : EntityUnits(NewId(i), ItemUnits) = EntityUnits(NewId(i), live)
  BY <1>1, <1>2, Follows, ItemNames
<1>4. \A i \in NewEntities : /\ i \in Ids /\ job'.newEnt[i] = EntityUnits(i, live)
                             /\ EntityUnits(i, live) # {}
                             /\ \E h \in Items.ent : i = NewId(h) /\ NameKey[i] = NameKey[h]
  BY <1>1, <1>3 DEF NewEntities
<1>5. \A i \in Items.ent \ NewEntities : NewId(i) # i
  BY <1>3
<1>6. /\ Items.ent \subseteq Held(graph.ent) /\ Items.edge \subseteq Held(graph.edge)
      /\ ReadShared.ent \subseteq Items.ent /\ ReadShared.edge \subseteq Items.edge
      /\ Held(graph.ent) \subseteq Ids /\ Held(graph.edge) \subseteq EdgeIds
  BY ItemsHeld
<1>7. /\ job.sharedEnt \cap Held(graph.ent) \subseteq ReadShared.ent
      /\ job.sharedEdge \cap Held(graph.edge) \subseteq ReadShared.edge
  BY DEF ReadShared
<1>8. /\ job'.ent \cap Held(graph.ent) \subseteq Items.ent \ NewEntities
      /\ job'.edge \cap Held(graph.edge) \subseteq Items.edge \ NewEdges
  BY <1>1, <1>7
<1>9. \A e \in NewEdges : /\ job'.newEdge[e] = EdgeUnits(e, live)
                          /\ e[1] \in NewEntities /\ e[2] \in NewEntities
  <2> TAKE e \in NewEdges
  <2>1. PICK y \in Items.edge : e = NewEdge(y)
    BY DEF NewEdges
  <2>2. /\ NewEdge(y) = <<NewId(y[1]), NewId(y[2])>> /\ y[1] \in Items.ent /\ y[2] \in Items.ent
        /\ EdgeUnits(NewEdge(y), ItemUnits) = EdgeUnits(NewEdge(y), live)
    BY <1>1, <1>2, FollowsEdge
  <2>3. e[1] = NewId(y[1]) /\ e[2] = NewId(y[2])
    BY <2>1, <2>2
  <2> QED
    BY <1>1, <1>3, <2>1, <2>2, <2>3
<1>10. Stripping'
  <2>1. \A i \in NewEntities : i \notin job'.ent
    BY <1>1
  <2>2. \A e \in NewEdges : e \notin job'.edge
    BY <1>1
  <2>3. ASSUME NEW i \in NewEntities, ~(job'.newEnt[i] \subseteq graph.ent[i])
        PROVE  i \in job'.noting.ent
    <3>1. PICK u \in EntityUnits(i, live) : u \notin graph.ent[i]
      BY <1>4, <2>3
    <3>2. PICK h \in Items.ent : i = NewId(h) /\ NameKey[i] = NameKey[h]
      BY <1>4
    <3>3. u \in live /\ NameKey[i] \in Mentions[u] /\ Resolved[live][<<u, NameKey[i]>>] = i
      BY <3>1 DEF EntityUnits
    <3>4. PICK j \in Ids : NameKey[j] = NameKey[i] /\ KeepsEntity(j, u)
      BY <1>2, <3>3 DEF KeptBut, MentionKept
    <3>5. u \in graph.ent[j] /\ j \in Held(graph.ent)
      BY <3>4 DEF KeepsEntity, Keeps, Held, Typed, TypeOK
    <3>6. j \in Items.ent
      BY <1>1, <3>2, <3>4, <3>5, ItemsSettled
    <3>7. u \in EntityUnits(NewId(j), live) /\ NameKey[NewId(j)] = NameKey[i]
      BY <1>3, <3>3, <3>4, <3>5, <3>6
    <3>8. NewId(j) = i
      BY <3>3, <3>7 DEF EntityUnits
    <3>9. j # i /\ EntityUnits(j, live) = {}
      BY <1>3, <3>1, <3>5, <3>6, <3>8
    <3>10. j \notin NewEntities
      BY <1>4, <3>9
    <3> QED
      BY <1>1, <3>6, <3>8, <3>10
  <2>4. /\ Citing(graph.ent, removing) \subseteq NewEntities \cup job'.ent
        /\ Citing(graph.edge, removing) \subseteq NewEdges \cup job'.edge
    <3>1. /\ Citing(graph.ent, removing) \subseteq Held(graph.ent) \cap job.sharedEnt
          /\ Citing(graph.edge, removing) \subseteq Held(graph.edge) \cap job.sharedEdge
      BY <1>2 DEF Clean, Citing, Held
    <3> QED
      BY <1>1, <1>6, <1>7, <3>1
  <2>5. (note.ent \cup job'.noting.ent) \cap Held(graph.ent) \subseteq NewEntities \cup job'.ent
    <3>1. note.ent \cap Held(graph.ent) \subseteq NewEntities \cup job'.ent
      BY <1>1, <1>2, <1>6, <1>7
    <3>2. job'.noting.ent \subseteq NewEntities \cup job'.ent
      BY <1>1, <1>3
    <3> QED
      BY <3>1, <3>2
  <2>6. Noted' = note.ent \cup job'.noting.ent
    BY <1>1 DEF Noted
  <2>7. Gone(removing)' /\ (removing' = removing /\ graph' = graph /\ live' = live)
    BY <1>1, <1>2 DEF Gone
  <2> QED
    BY <1>1, <1>4, <1>9, <2>1, <2>2, <2>3, <2>4, <2>5, <2>6, <2>7 DEF Stripping, Clean
<1>11. KeptOrNew'
  <2>1. ASSUME NEW u \in live, NEW k \in Mentions[u]
        PROVE  \/ MentionKept(u, k, job.ent)'
               \/ \E i \in NewEntities : NameKey[i] = k /\ u \in job'.newEnt[i]
    <3>1. PICK i \in Ids : NameKey[i] = k /\ KeepsEntity(i, u)
      BY <1>2, <2>1 DEF KeptBut, MentionKept
    <3>2. CASE i \notin job'.ent
      <4>1. KeepsEntity(i, u)'
        BY <1>1, <3>1 DEF KeepsEntity, Keeps
      <4> QED
        BY <3>1, <3>2, <4>1 DEF MentionKept
    <3>3. CASE i \in job'.ent
      <4>1. u \in graph.ent[i] /\ i \in Held(graph.ent)
        BY <3>1 DEF KeepsEntity, Keeps, Held, Typed, TypeOK
      <4>2. i \in Items.ent
        BY <1>8, <3>3, <4>1
      <4> QED
        BY <1>3, <1>4, <3>1, <4>1, <4>2
    <3> QED
      BY <3>2, <3>3
  <2>2. ASSUME NEW u \in live, NEW p \in Relates[u]
        PROVE  \/ RelationKept(u, p, job.ent, job.edge)'
               \/ \E e \in NewEdges \cap EdgeIds :
                     <<NameKey[e[1]], NameKey[e[2]]>> = p /\ u \in job'.newEdge[e]
    <3>1. PICK e \in EdgeIds : <<NameKey[e[1]], NameKey[e[2]]>> = p /\ KeepsEdge(e, u)
      BY <1>2, <2>2 DEF KeptBut, RelationKept
    <3>2. CASE e \notin job'.edge /\ e[1] \notin job'.ent /\ e[2] \notin job'.ent
      <4>1. KeepsEdge(e, u)'
        BY <1>1, <3>1 DEF KeepsEdge, KeepsEntity, Keeps
      <4> QED
        BY <3>1, <3>2, <4>1 DEF RelationKept
    <3>3. CASE e \in job'.edge \/ e[1] \in job'.ent \/ e[2] \in job'.ent
      <4>1. /\ u \in graph.edge[e] /\ u \in graph.ent[e[1]] /\ u \in graph.ent[e[2]]
            /\ e \in Held(graph.edge) /\ e[1] \in Held(graph.ent) /\ e[2] \in Held(graph.ent)
        BY <3>1, IdsOfEdges DEF KeepsEdge, KeepsEntity, Keeps, Held, Typed, TypeOK
      <4>2. e \in Items.edge
        <5>1. CASE e \in job'.edge
          BY <1>8, <4>1, <5>1
        <5>2. CASE e[1] \in job'.ent
          <6>1. e[1] \in Items.ent /\ NewId(e[1]) # e[1]
            BY <1>5, <1>8, <4>1, <5>2
          <6> QED
            BY <1>1, <4>1, <6>1, ItemsSettled
        <5>3. CASE e[2] \in job'.ent
          <6>1. e[2] \in Items.ent /\ NewId(e[2]) # e[2]
            BY <1>5, <1>8, <4>1, <5>3
          <6> QED
            BY <1>1, <4>1, <6>1, ItemsSettled
        <5> QED
          BY <3>3, <5>1, <5>2, <5>3
      <4>3. /\ NewEdge(e) \in NewEdges /\ NewEdge(e) = <<NewId(e[1]), NewId(e[2])>>
            /\ NewEdge(e) \in EdgeIds /\ u \in EdgeUnits(NewEdge(e), live)
            /\ <<NameKey[NewId(e[1])], NameKey[NewId(e[2])]>> = <<NameKey[e[1]], NameKey[e[2]]>>
        BY <1>1, <1>2, <4>1, <4>2, FollowsEdge
      <4>4. <<NameKey[NewEdge(e)[1]], NameKey[NewEdge(e)[2]]>> = p
        BY <3>1, <4>3
      <4> QED
        BY <1>9, <4>3, <4>4
    <3> QED
      BY <3>2, <3>3
  <2> QED
    BY <1>1, <2>1, <2>2, ZenonT(60) DEF KeptOrNew
<1> QED
  BY <1>10, <1>11

\* An item that a live unit's statement is kept on is not exclusive to the
\* removed units, in the graph or, where it looks there, in the vector store.
LEMMA NotExclusive ==
  ASSUME NEW g, NEW v, NEW cited, NEW us, NEW i, NEW u, u \notin us, Keeps(g, v, i, u)
  PROVE  i \notin Exclusive(Found(g, v, cited, us), us)
<1> SUFFICES ASSUME i \in Exclusive(Found(g, v, cited, us), us)
             PROVE  FALSE
  OBVIOUS
<1>1. /\ i \in cited \cup Citing(v, us) /\ Found(g, v, cited, us)[i] \subseteq us
      /\ i \in cited => Found(g, v, cited, us)[i] = g[i]
      /\ i \notin cited => Found(g, v, cited, us)[i] = v[i]
  BY DEF Exclusive, Found
<1>2. i \in Citing(v, us) => v[i] # {}
  BY DEF Citing
<1> QED
  BY <1>1, <1>2 DEF Keeps

LEMMA RemoveKeeps ==
  ASSUME Typed, Sound, remove_text_units
  PROVE  Sound' /\ Phases'
<1>1. /\ pc = "idle" /\ pc' = "delete_vector"
      /\ graph' = graph /\ vector' = vector /\ note' = note
      /\ live' \subseteq live /\ removing \subseteq removing'
      /\ live \cup removing = live' \cup removing' /\ live' \cap removing' = {}
      /\ job'.ent = Exclusive(CitedEntities(removing'), removing')
      /\ job'.edge = Exclusive(CitedEdges(removing'), removing')
      /\ job'.sharedEnt = (Shared(CitedEntities(removing'), removing') \cup note.ent) \ job'.ent
      /\ job'.sharedEdge = (Shared(CitedEdges(removing'), removing') \cup note.edge) \ job'.edge
      /\ job'.strip = TRUE
  BY RemoveEffect
<1>2. /\ live \subseteq vector.unit /\ Stored /\ Anchored(live, note.ent)
      /\ removing \subseteq vector.unit => Anchored(Units, {})
      /\ KeptBut({}, {})
  BY DEF Sound
<1>3. live' \subseteq vector'.unit
  BY <1>1, <1>2
<1>4. Stored'
  <2>1. \A units, i : Derives(units, i) => Derives(units, i)'
    BY <1>1 DEF Derives
  <2>2. \A i \in Ids : graph'.ent[i] \subseteq live' \cup removing' /\ Derives(graph.ent[i], i)'
    BY <1>1, <1>2, <2>1 DEF Stored
  <2>3. \A e \in EdgeIds :
         /\ graph'.edge[e] \subseteq live' \cup removing'
         /\ \A u \in graph'.edge[e] :
              /\ Derives({u}, e[1])' /\ Derives({u}, e[2])'
              /\ <<NameKey[e[1]], NameKey[e[2]]>> \in Relates[u]
         /\ graph'.edge[e] # {} => graph'.ent[e[1]] # {} /\ graph'.ent[e[2]] # {}
    <3> TAKE e \in EdgeIds
    <3>1. /\ graph.edge[e] \subseteq live \cup removing
          /\ \A u \in graph.edge[e] :
               /\ Derives({u}, e[1]) /\ Derives({u}, e[2])
               /\ <<NameKey[e[1]], NameKey[e[2]]>> \in Relates[u]
          /\ graph.edge[e] # {} => graph.ent[e[1]] # {} /\ graph.ent[e[2]] # {}
      BY <1>2 DEF Stored
    <3>2. \A u \in graph.edge[e] : Derives({u}, e[1])' /\ Derives({u}, e[2])'
      BY <3>1, <2>1
    <3> QED
      BY <1>1, <3>1, <3>2
  <2> QED
    BY <2>2, <2>3 DEF Stored
<1>5. Anchored(live, note.ent)'
  BY <1>1, <1>2 DEF Anchored
<1>6. (removing \subseteq vector.unit => Anchored(Units, {}))'
  BY <1>1, <1>2 DEF Anchored
<1>7. \A i, u : KeepsEntity(i, u) => KeepsEntity(i, u)'
  BY <1>1 DEF KeepsEntity, Keeps
<1>8. \A e, u : KeepsEdge(e, u) => KeepsEdge(e, u)'
  BY <1>1 DEF KeepsEdge, KeepsEntity, Keeps
<1>9. KeptBut({}, {})'
  BY <1>1, <1>2, <1>7, <1>8 DEF KeptBut, MentionKept, RelationKept
<1>10. \A i, u : u \in live' /\ KeepsEntity(i, u) => i \notin job'.ent
  <2> SUFFICES ASSUME NEW i, NEW u, u \in live', KeepsEntity(i, u)
               PROVE  i \notin job'.ent
    OBVIOUS
  <2>1. u \notin removing'
    BY <1>1
  <2> QED
    BY <1>1, <2>1, NotExclusive DEF KeepsEntity, CitedEntities
<1>11. \A e, u : u \in live' /\ KeepsEdge(e, u) => e \notin job'.edge
  <2> SUFFICES ASSUME NEW e, NEW u, u \in live', KeepsEdge(e, u)
               PROVE  e \notin job'.edge
    OBVIOUS
  <2>1. u \notin removing'
    BY <1>1
  <2> QED
    BY <1>1, <2>1, NotExclusive DEF KeepsEdge, CitedEdges
<1>12. KeptBut(job.ent, job.edge)'
  <2>1. ASSUME NEW u \in live', NEW k \in Mentions[u]
        PROVE  MentionKept(u, k, job.ent)'
    <3>1. PICK i \in Ids : NameKey[i] = k /\ KeepsEntity(i, u)
      BY <1>1, <1>2 DEF KeptBut, MentionKept
    <3>2. i \notin job'.ent /\ KeepsEntity(i, u)'
      BY <1>7, <1>10, <3>1
    <3> QED
      BY <3>1, <3>2 DEF MentionKept
  <2>2. ASSUME NEW u \in live', NEW p \in Relates[u]
        PROVE  RelationKept(u, p, job.ent, job.edge)'
    <3>1. PICK e \in EdgeIds : <<NameKey[e[1]], NameKey[e[2]]>> = p /\ KeepsEdge(e, u)
      BY <1>1, <1>2 DEF KeptBut, RelationKept
    <3>2. KeepsEntity(e[1], u) /\ KeepsEntity(e[2], u)
      BY <3>1 DEF KeepsEdge
    <3>3. e \notin job'.edge /\ e[1] \notin job'.ent /\ e[2] \notin job'.ent /\ KeepsEdge(e, u)'
      BY <1>8, <1>10, <1>11, <3>1, <3>2
    <3> QED
      BY <3>1, <3>3 DEF RelationKept
  <2> QED
    BY <2>1, <2>2 DEF KeptBut
<1>13. Citing(graph.ent, removing') \subseteq DOMAIN CitedEntities(removing')
  BY DEF CitedEntities, Found
<1>14. Citing(graph.edge, removing') \subseteq DOMAIN CitedEdges(removing')
  <2>1. GraphEdgesCiting(removing') \subseteq DOMAIN CitedEdges(removing')
    BY DEF CitedEdges, Found
  <2>2. CASE ~(removing' \subseteq vector.unit)
    BY <2>1, <2>2 DEF GraphEdgesCiting
  <2>3. CASE removing' \subseteq vector.unit
    <3>1. GraphEdgesCiting(removing') = IncidentCiting(removing')
      BY <2>3 DEF GraphEdgesCiting
    <3>2. Anchored(Units, {}) /\ removing' \subseteq Units
      BY <1>1, <1>2, <2>3, RemoveEffect
    <3>3. ASSUME NEW e \in Citing(graph.edge, removing')
          PROVE  e \in Incident(graph.edge, DOMAIN CitedEntities(removing'))
      <4>1. e \in EdgeIds /\ e \in DOMAIN graph.edge /\ graph.edge[e] \cap removing' # {}
            /\ e[1] \in Ids
        BY IdsOfEdges DEF Citing, Typed, TypeOK
      <4>2. PICK u \in removing' : u \in graph.edge[e]
        BY <4>1
      <4>3. u \in graph.ent[e[1]]
        BY <3>2, <4>1, <4>2 DEF Anchored
      <4>4. e[1] \in Citing(graph.ent, removing')
        BY <4>1, <4>2, <4>3 DEF Citing, Typed, TypeOK
      <4> QED
        BY <1>13, <4>1, <4>4 DEF Incident, Held
    <3> QED
      BY <2>1, <3>1, <3>3 DEF IncidentCiting
  <2> QED
    BY <2>2, <2>3
<1>15. FoundAll'
  <2>1. /\ DOMAIN CitedEntities(removing') \subseteq job'.ent \cup job'.sharedEnt
        /\ DOMAIN CitedEdges(removing') \subseteq job'.edge \cup job'.sharedEdge
        /\ note.ent \subseteq job'.ent \cup job'.sharedEnt
    BY <1>1 DEF Shared
  <2>2. Clean(job.ent \cup job.sharedEnt, job.edge \cup job.sharedEdge)'
    BY <1>1, <1>13, <1>14, <2>1 DEF Clean
  <2> QED
    BY <1>1, <2>1, <2>2 DEF FoundAll
<1>16. Deriving' /\ Stripping' /\ KeptOrNew' /\ SoFar' /\ Retiring' /\ Finished'
  BY <1>1 DEF Deriving, Stripping, KeptOrNew, SoFar, Retiring, Finished, Writing, Finishing
<1> QED
  BY <1>3, <1>4, <1>5, <1>6, <1>9, <1>12, <1>15, <1>16 DEF Sound, Phases

\* Deleting vector copies leaves each statement in both stores on the items that stay.
LEMMA DeleteVectorKeeps ==
  ASSUME Typed, Sound, Phases, DeleteVector
  PROVE  Sound' /\ Phases'
<1>1. /\ pc = "delete_vector" /\ pc' = "delete_graph"
      /\ live' = live /\ removing' = removing /\ graph' = graph /\ note' = note
      /\ vector'.unit \subseteq vector.unit /\ vector.unit \ vector'.unit \subseteq removing
      /\ \A i \in Ids : vector'.ent[i] = vector.ent[i] \/ i \in job.ent
      /\ \A e \in EdgeIds : \/ vector'.edge[e] = vector.edge[e]
                            \/ e \in job.edge \/ e[1] \in job.ent \/ e[2] \in job.ent
      /\ DOMAIN job' = DOMAIN job /\ \A x \in DOMAIN job : x # "ok" => job'[x] = job[x]
      /\ job'.ok /\ job.strip => removing \cap vector'.unit = {}
  BY DeleteVectorEffect
<1>2. /\ job'.ent = job.ent /\ job'.edge = job.edge /\ job'.strip = job.strip
      /\ job'.sharedEnt = job.sharedEnt /\ job'.sharedEdge = job.sharedEdge
  BY <1>1 DEF Typed, Shaped
<1>3. live \cap removing = {}
  BY DEF Typed, TypeOK
<1>4. \A i \in Ids \ job.ent : \A u : KeepsEntity(i, u) => KeepsEntity(i, u)'
  BY <1>1 DEF KeepsEntity, Keeps
<1>5. \A e \in EdgeIds \ job.edge : \A u :
        e[1] \notin job.ent /\ e[2] \notin job.ent /\ KeepsEdge(e, u) => KeepsEdge(e, u)'
  <2> TAKE e \in EdgeIds \ job.edge
  <2> TAKE u
  <2>1. e[1] \in Ids /\ e[2] \in Ids
    BY IdsOfEdges
  <2>2. e[1] \notin job.ent /\ e[2] \notin job.ent /\ Keeps(graph.edge, vector.edge, e, u)
          => Keeps(graph.edge, vector.edge, e, u)'
    BY <1>1 DEF Keeps
  <2> QED
    BY <1>4, <2>1, <2>2 DEF KeepsEdge
<1>6. live' \subseteq vector'.unit
  BY <1>1, <1>3 DEF Sound
<1>7. Stored'
  BY <1>1 DEF Sound, Stored, Derives
<1>8. Anchored(live, note.ent)' /\ (removing \subseteq vector.unit => Anchored(Units, {}))'
  BY <1>1 DEF Sound, Anchored
<1>9. KeptBut(job.ent, job.edge)
  BY <1>1 DEF Sound, Deleting
<1>10. KeptBut({}, {})' /\ KeptBut(job.ent, job.edge)'
  BY <1>1, <1>2, <1>4, <1>5, <1>9 DEF KeptBut, MentionKept, RelationKept
<1>11. FoundAll'
  BY <1>1, <1>2 DEF Phases, FoundAll, Deleting, Clean, Gone
<1>12. Retiring'
  <2>1. job.strip \in BOOLEAN
    BY DEF Typed, Shaped
  <2>2. ~job.strip => Clean(job.ent, job.edge) /\ Anchored(live, job.ent) /\ Gone(removing)
    BY <1>1, <2>1 DEF Phases, Retiring, Deleting
  <2>3. ~job.strip => Clean(job.ent, job.edge)' /\ Anchored(live, job.ent)' /\ Gone(removing)'
    BY <1>1, <1>2, <2>2 DEF Clean, Anchored, Gone
  <2> QED
    BY <1>2, <2>3 DEF Retiring
<1>13. Deriving' /\ Stripping' /\ KeptOrNew' /\ SoFar' /\ Finished'
  BY <1>1 DEF Deriving, Stripping, KeptOrNew, SoFar, Finished, Writing, Finishing
<1> QED
  BY <1>6, <1>7, <1>8, <1>10, <1>11, <1>12, <1>13 DEF Sound, Phases

\* Deleting from the graph takes no statement that is only there, and leaves no
\* edge without its ends.
LEMMA DeleteGraphKeeps ==
  ASSUME Typed, Sound, Phases, DeleteGraph
  PROVE  Sound' /\ Phases'
<1>1. /\ pc = "delete_graph"
      /\ live' = live /\ removing' = removing /\ vector' = vector /\ note' = note
      /\ graph'.ent \in [Ids -> SUBSET Units] /\ graph'.edge \in [EdgeIds -> SUBSET Units]
      /\ \A i \in Ids : \/ graph'.ent[i] = graph.ent[i]
                        \/ i \in job.ent /\ graph'.ent[i] = {}
      /\ \A e \in EdgeIds :
           \/ graph'.edge[e] = graph.edge[e]
           \/ (e \in job.edge \/ e[1] \in job.ent \/ e[2] \in job.ent) /\ graph'.edge[e] = {}
      /\ \A e \in EdgeIds :
           /\ graph'.ent[e[1]] = {} /\ graph.ent[e[1]] # {} => graph'.edge[e] = {}
           /\ graph'.ent[e[2]] = {} /\ graph.ent[e[2]] # {} => graph'.edge[e] = {}
      /\ \/ pc' = "idle" /\ job' = NoJob
         \/ /\ job.ok /\ job' = [job EXCEPT !.ok = TRUE]
            /\ pc' = IF job.strip /\ job.sharedEnt \cup job.sharedEdge # {}
                     THEN "derive" ELSE "finish"
            /\ \A i \in job.ent : graph'.ent[i] = {}
            /\ \A e \in job.edge : graph'.edge[e] = {}
  BY DeleteGraphEffect
<1>2. /\ Stored /\ Anchored(live, note.ent) /\ KeptBut(job.ent, job.edge)
      /\ live \subseteq vector.unit /\ (removing \subseteq vector.unit => Anchored(Units, {}))
  BY <1>1 DEF Sound, Deleting
<1>3. /\ graph.ent \in [Ids -> SUBSET Units] /\ graph.edge \in [EdgeIds -> SUBSET Units]
      /\ live \subseteq Units
  BY DEF Typed, TypeOK
<1>4. \A e \in EdgeIds :
        /\ e[1] \in Ids /\ e[2] \in Ids
        /\ graph'.edge[e] # {} =>
             /\ graph'.edge[e] = graph.edge[e]
             /\ graph'.ent[e[1]] = graph.ent[e[1]] /\ graph'.ent[e[2]] = graph.ent[e[2]]
             /\ graph.ent[e[1]] # {} /\ graph.ent[e[2]] # {}
  <2> TAKE e \in EdgeIds
  <2>1. e[1] \in Ids /\ e[2] \in Ids
    BY IdsOfEdges
  <2>2. graph.edge[e] # {} => graph.ent[e[1]] # {} /\ graph.ent[e[2]] # {}
    BY <1>2 DEF Stored
  <2> QED
    BY <1>1, <2>1, <2>2
<1>5. Stored'
  <2>1. \A units, i : Derives(units, i)' <=> Derives(units, i)
    BY <1>1 DEF Derives
  <2>2. \A i \in Ids : Derives({}, i)
    BY <1>3 DEF Derives
  <2>3. \A i \in Ids : graph'.ent[i] \subseteq live \cup removing /\ Derives(graph'.ent[i], i)
    <3> TAKE i \in Ids
    <3>1. graph.ent[i] \subseteq live \cup removing /\ Derives(graph.ent[i], i)
      BY <1>2 DEF Stored
    <3>2. CASE graph'.ent[i] = graph.ent[i]
      BY <3>1, <3>2
    <3>3. CASE graph'.ent[i] = {}
      BY <2>2, <3>3
    <3> QED
      BY <1>1, <3>2, <3>3
  <2>4. \A e \in EdgeIds :
         /\ graph'.edge[e] \subseteq live \cup removing
         /\ \A u \in graph'.edge[e] :
              /\ Derives({u}, e[1]) /\ Derives({u}, e[2])
              /\ <<NameKey[e[1]], NameKey[e[2]]>> \in Relates[u]
         /\ graph'.edge[e] # {} => graph'.ent[e[1]] # {} /\ graph'.ent[e[2]] # {}
    <3> TAKE e \in EdgeIds
    <3>1. /\ graph.edge[e] \subseteq live \cup removing
          /\ \A u \in graph.edge[e] :
              /\ Derives({u}, e[1]) /\ Derives({u}, e[2])
              /\ <<NameKey[e[1]], NameKey[e[2]]>> \in Relates[u]
      BY <1>2 DEF Stored
    <3>2. CASE graph'.edge[e] = {}
      BY <3>2
    <3>3. CASE graph'.edge[e] # {}
      BY <1>4, <3>1, <3>3
    <3> QED
      BY <3>2, <3>3
  <2>5. \A i \in Ids : graph'.ent[i] \subseteq live' \cup removing' /\ Derives(graph.ent[i], i)'
    BY <1>1, <2>3 DEF Derives
  <2>6. \A e \in EdgeIds : \A u \in graph'.edge[e] : Derives({u}, e[1])' /\ Derives({u}, e[2])'
    BY <2>1, <2>4
  <2> QED
    BY <1>1, <2>4, <2>5, <2>6 DEF Stored
<1>6. Anchored(live, note.ent)' /\ (removing \subseteq vector.unit => Anchored(Units, {}))'
  <2>1. ASSUME NEW us, NEW but, Anchored(us, but)
        PROVE  \A e \in EdgeIds : \A u \in graph'.edge[e] \cap us :
                 /\ u \in graph'.ent[e[1]] \/ e[1] \in but
                 /\ u \in graph'.ent[e[2]] \/ e[2] \in but
    <3> TAKE e \in EdgeIds
    <3>1. CASE graph'.edge[e] = {}
      BY <3>1
    <3>2. CASE graph'.edge[e] # {}
      <4>1. /\ graph'.edge[e] = graph.edge[e]
            /\ graph'.ent[e[1]] = graph.ent[e[1]] /\ graph'.ent[e[2]] = graph.ent[e[2]]
        BY <1>4, <3>2
      <4> QED
        BY <2>1, <4>1 DEF Anchored
    <3> QED
      BY <3>1, <3>2
  <2>2. Anchored(live, note.ent)'
    <3>1. \A e \in EdgeIds : \A u \in graph'.edge[e] \cap live :
            /\ u \in graph'.ent[e[1]] \/ e[1] \in note.ent
            /\ u \in graph'.ent[e[2]] \/ e[2] \in note.ent
      BY <1>2, <2>1
    <3>2. live' = live /\ note' = note
      BY <1>1
    <3> QED
      BY <3>1, <3>2 DEF Anchored
  <2>3. removing \subseteq vector.unit => Anchored(Units, {})'
    <3>1. SUFFICES ASSUME removing \subseteq vector.unit
                   PROVE  \A e \in EdgeIds : \A u \in graph'.edge[e] \cap Units :
                            /\ u \in graph'.ent[e[1]] \/ e[1] \in {}
                            /\ u \in graph'.ent[e[2]] \/ e[2] \in {}
      BY DEF Anchored
    <3> QED
      BY <1>2, <2>1, <3>1
  <2> QED
    BY <1>1, <2>2, <2>3
<1>7. \A i \in Ids \ job.ent : \A u : KeepsEntity(i, u) => KeepsEntity(i, u)'
  BY <1>1 DEF KeepsEntity, Keeps
<1>8. \A e \in EdgeIds \ job.edge : \A u :
        e[1] \notin job.ent /\ e[2] \notin job.ent /\ KeepsEdge(e, u) => KeepsEdge(e, u)'
  <2> TAKE e \in EdgeIds \ job.edge
  <2> TAKE u
  <2>1. e[1] \in Ids /\ e[2] \in Ids
    BY IdsOfEdges
  <2>2. e[1] \notin job.ent /\ e[2] \notin job.ent /\ Keeps(graph.edge, vector.edge, e, u)
          => Keeps(graph.edge, vector.edge, e, u)'
    BY <1>1 DEF Keeps
  <2> QED
    BY <1>7, <2>1, <2>2 DEF KeepsEdge
<1>9. KeptBut({}, {})'
  BY <1>1, <1>2, <1>7, <1>8 DEF KeptBut, MentionKept, RelationKept
<1>10. pc' \in {"idle", "derive", "finish"}
  BY <1>1
<1>11. /\ FoundAll' /\ Stripping' /\ KeptOrNew' /\ SoFar' /\ Retiring'
       /\ (Deleting => KeptBut(job.ent, job.edge))'
  BY <1>10 DEF FoundAll, Stripping, KeptOrNew, SoFar, Retiring, Deleting, Writing
<1>12. ASSUME pc' # "idle"
       PROVE  /\ job.ok /\ job'.sharedEnt = job.sharedEnt /\ job'.sharedEdge = job.sharedEdge
              /\ pc' = IF job.strip /\ job.sharedEnt \cup job.sharedEdge # {}
                       THEN "derive" ELSE "finish"
              /\ \A i \in job.ent : graph'.ent[i] = {}
              /\ \A e \in job.edge : graph'.edge[e] = {}
              /\ Citing(graph'.ent, removing) \subseteq Citing(graph.ent, removing) \ job.ent
              /\ Citing(graph'.edge, removing) \subseteq Citing(graph.edge, removing) \ job.edge
  <2>1. /\ job.ok /\ job' = [job EXCEPT !.ok = TRUE]
        /\ pc' = IF job.strip /\ job.sharedEnt \cup job.sharedEdge # {}
                 THEN "derive" ELSE "finish"
        /\ \A i \in job.ent : graph'.ent[i] = {}
        /\ \A e \in job.edge : graph'.edge[e] = {}
    BY <1>1, <1>12
  <2>2. job'.sharedEnt = job.sharedEnt /\ job'.sharedEdge = job.sharedEdge
    BY <2>1, OkOnly DEF LearnsOk
  <2>3. /\ Citing(graph'.ent, removing) \subseteq Citing(graph.ent, removing) \ job.ent
        /\ Citing(graph'.edge, removing) \subseteq Citing(graph.edge, removing) \ job.edge
    BY <1>1, <1>3, <2>1 DEF Citing
  <2> QED
    BY <2>1, <2>2, <2>3
<1>13. job.strip \in BOOLEAN
  BY DEF Typed, Shaped
<1>14. job.strip /\ job.ok =>
         /\ Clean(job.ent \cup job.sharedEnt, job.edge \cup job.sharedEdge)
         /\ note.ent \subseteq job.ent \cup job.sharedEnt /\ Gone(removing)
  BY <1>1 DEF Phases, FoundAll, Deleting
<1>15. ~job.strip => Clean(job.ent, job.edge) /\ Anchored(live, job.ent)
  BY <1>1 DEF Phases, Retiring, Deleting
<1>16. Deriving'
  <2> SUFFICES ASSUME pc' = "derive"
               PROVE  Deriving'
    BY DEF Deriving
  <2>1. job.strip /\ job.ok
    BY <1>12
  <2>2. /\ Citing(graph'.ent, removing) \subseteq job.sharedEnt
        /\ Citing(graph'.edge, removing) \subseteq job.sharedEdge
    BY <1>12, <1>14, <2>1 DEF Clean
  <2>3. note.ent \cap Held(graph'.ent) \subseteq job.sharedEnt
    BY <1>12, <1>14, <2>1 DEF Held
  <2> QED
    BY <1>1, <1>12, <1>14, <2>1, <2>2, <2>3 DEF Deriving, Clean, Gone
<1>17. Finished'
  <2> SUFFICES ASSUME pc' = "finish"
               PROVE  Clean({}, {})' /\ Anchored(Units, {})'
    BY <1>10 DEF Finished, Finishing
  <2>1. Citing(graph'.ent, removing) = {} /\ Citing(graph'.edge, removing) = {}
    <3>1. CASE job.strip
      <4>1. job.sharedEnt = {} /\ job.sharedEdge = {}
        BY <1>12, <3>1
      <4> QED
        BY <1>12, <1>14, <3>1, <4>1 DEF Clean
    <3>2. CASE ~job.strip
      BY <1>12, <1>15, <3>2 DEF Clean
    <3> QED
      BY <1>13, <3>1, <3>2
  <2>2. Anchored(live, job.ent)
    <3>1. CASE job.strip
      <4>1. note.ent \subseteq job.ent
        BY <1>12, <1>14, <3>1
      <4> QED
        BY <1>2, <4>1 DEF Anchored
    <3>2. CASE ~job.strip
      BY <1>15, <3>2
    <3> QED
      BY <1>13, <3>1, <3>2
  <2>3. \A e \in EdgeIds : graph'.edge[e] \subseteq live
    <3> TAKE e \in EdgeIds
    <3>1. graph'.edge[e] \subseteq live \cup removing
      BY <1>1, <1>5 DEF Stored
    <3>2. graph'.edge[e] \cap removing = {}
      BY <1>1, <2>1 DEF Citing
    <3> QED
      BY <3>1, <3>2
  <2>4. ASSUME NEW e \in EdgeIds, NEW u \in graph'.edge[e]
        PROVE  u \in graph'.ent[e[1]] /\ u \in graph'.ent[e[2]]
    <3>1. /\ u \in graph.edge[e] \cap live /\ e[1] \in Ids /\ e[2] \in Ids
          /\ graph'.ent[e[1]] = graph.ent[e[1]] /\ graph'.ent[e[2]] = graph.ent[e[2]]
          /\ graph.ent[e[1]] # {} /\ graph.ent[e[2]] # {}
      BY <1>4, <2>3, <2>4
    <3>2. e[1] \notin job.ent /\ e[2] \notin job.ent
      BY <1>12, <3>1
    <3> QED
      BY <2>2, <3>1, <3>2 DEF Anchored
  <2>5. Anchored(Units, {})'
    BY <2>4 DEF Anchored
  <2> QED
    BY <1>1, <2>1, <2>5 DEF Clean
<1> QED
  BY <1>1, <1>2, <1>5, <1>6, <1>9, <1>11, <1>16, <1>17 DEF Sound, Phases

\* What the derivation writes has all that the stored copies cite of the live
\* units, and an edge it writes what its ends get.
LEMMA NewCovers ==
  ASSUME Typed, Sound, Stripping, Writing
  PROVE  /\ \A i \in DOMAIN job.newEnt :
              /\ i \in Ids /\ job.newEnt[i] = EntityUnits(i, live) /\ job.newEnt[i] # {}
              /\ job.newEnt[i] \subseteq live /\ graph.ent[i] \cap live \subseteq job.newEnt[i]
         /\ \A e \in EdgeIds : \A u \in graph.edge[e] \cap live :
              /\ e[1] \in DOMAIN job.newEnt => u \in job.newEnt[e[1]]
              /\ e[2] \in DOMAIN job.newEnt => u \in job.newEnt[e[2]]
         /\ \A e \in DOMAIN job.newEdge \cap EdgeIds :
              /\ e[1] \in DOMAIN job.newEnt /\ e[2] \in DOMAIN job.newEnt
              /\ job.newEdge[e] \subseteq live /\ graph.edge[e] \cap live \subseteq job.newEdge[e]
              /\ \A u \in job.newEdge[e] :
                   /\ u \in job.newEnt[e[1]] /\ u \in job.newEnt[e[2]]
                   /\ <<NameKey[e[1]], NameKey[e[2]]>> \in Relates[u]
<1>1. live \subseteq Units /\ Stored
  BY DEF Typed, TypeOK, Sound
<1>2. \A i \in DOMAIN job.newEnt :
        i \in Ids /\ job.newEnt[i] = EntityUnits(i, live) /\ job.newEnt[i] # {}
  BY DEF Typed, Written, Stripping
<1>3. ASSUME NEW i \in DOMAIN job.newEnt
      PROVE  job.newEnt[i] \subseteq live /\ graph.ent[i] \cap live \subseteq job.newEnt[i]
  <2>1. Derives(graph.ent[i], i)
    BY <1>1, <1>2 DEF Stored
  <2>2. graph.ent[i] \cap live \subseteq EntityUnits(i, live)
    BY <1>1, <1>2, <2>1, LiveStays
  <2> QED
    BY <1>2, <2>2, UnitsOfEntity
<1>4. ASSUME NEW e \in EdgeIds, NEW u \in graph.edge[e] \cap live
      PROVE  /\ e[1] \in DOMAIN job.newEnt => u \in job.newEnt[e[1]]
             /\ e[2] \in DOMAIN job.newEnt => u \in job.newEnt[e[2]]
  <2>1. /\ Derives({u}, e[1]) /\ Derives({u}, e[2])
        /\ e[1] \in Ids /\ e[2] \in Ids
    BY <1>1, IdsOfEdges DEF Stored
  <2>2. e[1] \in DOMAIN job.newEnt => {u} \cap live \subseteq EntityUnits(e[1], live)
    BY <1>1, <1>2, <2>1, LiveStays
  <2>3. e[2] \in DOMAIN job.newEnt => {u} \cap live \subseteq EntityUnits(e[2], live)
    BY <1>1, <1>2, <2>1, LiveStays
  <2> QED
    BY <1>2, <2>2, <2>3
<1>5. ASSUME NEW e \in DOMAIN job.newEdge \cap EdgeIds
      PROVE  /\ e[1] \in DOMAIN job.newEnt /\ e[2] \in DOMAIN job.newEnt
             /\ job.newEdge[e] \subseteq live /\ graph.edge[e] \cap live \subseteq job.newEdge[e]
             /\ \A u \in job.newEdge[e] :
                  /\ u \in job.newEnt[e[1]] /\ u \in job.newEnt[e[2]]
                  /\ <<NameKey[e[1]], NameKey[e[2]]>> \in Relates[u]
  <2>1. /\ job.newEdge[e] = EdgeUnits(e, live)
        /\ e[1] \in DOMAIN job.newEnt /\ e[2] \in DOMAIN job.newEnt
    BY DEF Stripping
  <2>2. job.newEnt[e[1]] = EntityUnits(e[1], live) /\ job.newEnt[e[2]] = EntityUnits(e[2], live)
    BY <1>2, <2>1
  <2>3. \A u \in graph.edge[e] : <<NameKey[e[1]], NameKey[e[2]]>> \in Relates[u]
    BY <1>1 DEF Stored
  <2>4. graph.edge[e] \cap live \subseteq job.newEdge[e]
    BY <1>4, <2>1, <2>2, <2>3 DEF EdgeUnits
  <2>5. \A u \in job.newEdge[e] :
          /\ u \in EntityUnits(e[1], live) /\ u \in EntityUnits(e[2], live)
          /\ <<NameKey[e[1]], NameKey[e[2]]>> \in Relates[u] /\ u \in live
    BY <2>1, UnitsOfEntity DEF EdgeUnits
  <2> QED
    BY <2>1, <2>2, <2>4, <2>5
<1> QED
  BY <1>2, <1>3, <1>4, <1>5

\* A step that writes some of what the derivation decided.
Overwrites ==
    /\ live' = live /\ removing' = removing /\ note' = note /\ vector'.unit = vector.unit
    /\ graph'.ent \in [Ids -> SUBSET Units] /\ graph'.edge \in [EdgeIds -> SUBSET Units]
    /\ \A i \in Ids : \/ graph'.ent[i] = graph.ent[i]
                      \/ i \in DOMAIN job.newEnt /\ graph'.ent[i] = job.newEnt[i]
    /\ \A i \in Ids : \/ vector'.ent[i] = vector.ent[i]
                      \/ i \in DOMAIN job.newEnt /\ vector'.ent[i] = job.newEnt[i]
    /\ \A e \in EdgeIds :
         \/ graph'.edge[e] = graph.edge[e]
         \/ /\ e \in DOMAIN job.newEdge /\ graph'.edge[e] = job.newEdge[e]
            /\ {e[1], e[2]} \subseteq Held(graph.ent)
    /\ \A e \in EdgeIds : \/ vector'.edge[e] = vector.edge[e]
                          \/ e \in DOMAIN job.newEdge /\ vector'.edge[e] = job.newEdge[e]

LEMMA OverwritesKeep ==
  ASSUME Typed, Sound, Stripping, Writing, pc # "note", Overwrites
  PROVE  /\ \A i \in Ids, u \in live : KeepsEntity(i, u) => KeepsEntity(i, u)'
         /\ \A e \in EdgeIds, u \in live : KeepsEdge(e, u) => KeepsEdge(e, u)'
         /\ Citing(graph'.ent, removing) \subseteq Citing(graph.ent, removing)
         /\ Citing(graph'.edge, removing) \subseteq Citing(graph.edge, removing)
         /\ Held(graph'.ent) \subseteq Held(graph.ent) \cup DOMAIN job.newEnt
         /\ \A i \in DOMAIN job.newEnt :
              job.newEnt[i] \subseteq graph.ent[i] => job.newEnt[i] \subseteq graph'.ent[i]
         /\ live' \subseteq vector'.unit /\ Stored' /\ Anchored(live, note.ent)'
         /\ (removing \subseteq vector.unit => Anchored(Units, {}))'
         /\ KeptBut({}, {})' /\ Gone(removing)'
<1>1. /\ \A i \in DOMAIN job.newEnt :
              /\ i \in Ids /\ job.newEnt[i] = EntityUnits(i, live) /\ job.newEnt[i] # {}
              /\ job.newEnt[i] \subseteq live /\ graph.ent[i] \cap live \subseteq job.newEnt[i]
      /\ \A e \in EdgeIds : \A u \in graph.edge[e] \cap live :
              /\ e[1] \in DOMAIN job.newEnt => u \in job.newEnt[e[1]]
              /\ e[2] \in DOMAIN job.newEnt => u \in job.newEnt[e[2]]
      /\ \A e \in DOMAIN job.newEdge \cap EdgeIds :
              /\ e[1] \in DOMAIN job.newEnt /\ e[2] \in DOMAIN job.newEnt
              /\ job.newEdge[e] \subseteq live /\ graph.edge[e] \cap live \subseteq job.newEdge[e]
              /\ \A u \in job.newEdge[e] :
                   /\ u \in job.newEnt[e[1]] /\ u \in job.newEnt[e[2]]
                   /\ <<NameKey[e[1]], NameKey[e[2]]>> \in Relates[u]
  BY NewCovers
<1>2. /\ graph.ent \in [Ids -> SUBSET Units] /\ graph.edge \in [EdgeIds -> SUBSET Units]
      /\ live \subseteq Units /\ live \cap removing = {}
      /\ Stored /\ Anchored(live, note.ent) /\ KeptBut({}, {}) /\ live \subseteq vector.unit
      /\ Gone(removing)
  BY DEF Typed, TypeOK, Sound, Stripping
<1>3. \A e \in EdgeIds : e[1] \in Ids /\ e[2] \in Ids
  BY IdsOfEdges
<1>4. \A i \in Ids, u \in live : KeepsEntity(i, u) => KeepsEntity(i, u)'
  BY <1>1 DEF Overwrites, KeepsEntity, Keeps
<1>5. \A e \in EdgeIds, u \in live :
        Keeps(graph.edge, vector.edge, e, u) => Keeps(graph.edge, vector.edge, e, u)'
  BY <1>1 DEF Overwrites, Keeps
<1>6. \A e \in EdgeIds, u \in live : KeepsEdge(e, u) => KeepsEdge(e, u)'
  BY <1>3, <1>4, <1>5 DEF KeepsEdge
<1>7. /\ Citing(graph'.ent, removing) \subseteq Citing(graph.ent, removing)
      /\ Citing(graph'.edge, removing) \subseteq Citing(graph.edge, removing)
  <2>1. \A i \in Ids : graph'.ent[i] \cap removing \subseteq graph.ent[i] \cap removing
    BY <1>1, <1>2 DEF Overwrites
  <2>2. \A e \in EdgeIds : graph'.edge[e] \cap removing \subseteq graph.edge[e] \cap removing
    BY <1>1, <1>2 DEF Overwrites
  <2> QED
    BY <1>2, <2>1, <2>2 DEF Overwrites, Citing
<1>8. Held(graph'.ent) \subseteq Held(graph.ent) \cup DOMAIN job.newEnt
  BY <1>2 DEF Overwrites, Held
<1>9. \A i \in DOMAIN job.newEnt :
        job.newEnt[i] \subseteq graph.ent[i] => job.newEnt[i] \subseteq graph'.ent[i]
  BY <1>1 DEF Overwrites
<1>10. KeptBut({}, {})'
  BY <1>2, <1>4, <1>6 DEF Overwrites, KeptBut, MentionKept, RelationKept
<1>11. Gone(removing)' /\ live' \subseteq vector'.unit
  BY <1>2 DEF Overwrites, Gone
<1>12. (removing \subseteq vector.unit => Anchored(Units, {}))'
  <2>1. removing # {}
    BY DEF Typed, TypeOK, Writing
  <2>2. ~(removing' \subseteq vector'.unit)
    BY <1>11, <2>1 DEF Overwrites, Gone
  <2> QED
    BY <2>2
<1>13. Anchored(live, note.ent)'
  <2> SUFFICES ASSUME NEW e \in EdgeIds, NEW u \in graph'.edge[e] \cap live
               PROVE  /\ u \in graph'.ent[e[1]] \/ e[1] \in note.ent
                      /\ u \in graph'.ent[e[2]] \/ e[2] \in note.ent
    BY DEF Overwrites, Anchored
  <2>1. CASE u \in graph.edge[e]
    <3>1. /\ u \in graph.ent[e[1]] \/ e[1] \in note.ent
          /\ u \in graph.ent[e[2]] \/ e[2] \in note.ent
      BY <1>2, <2>1 DEF Anchored
    <3>2. /\ e[1] \in DOMAIN job.newEnt => u \in job.newEnt[e[1]]
          /\ e[2] \in DOMAIN job.newEnt => u \in job.newEnt[e[2]]
      BY <1>1, <2>1
    <3> QED
      BY <1>3, <3>1, <3>2 DEF Overwrites
  <2>2. CASE e \in DOMAIN job.newEdge /\ u \in job.newEdge[e]
    <3>1. /\ e[1] \in DOMAIN job.newEnt /\ u \in job.newEnt[e[1]]
          /\ e[2] \in DOMAIN job.newEnt /\ u \in job.newEnt[e[2]]
      BY <1>1, <2>2
    <3>2. /\ job.newEnt[e[1]] \subseteq graph.ent[e[1]] \/ e[1] \in note.ent
          /\ job.newEnt[e[2]] \subseteq graph.ent[e[2]] \/ e[2] \in note.ent
      BY <3>1 DEF Stripping, Noted
    <3> QED
      BY <1>9, <3>1, <3>2
  <2> QED
    BY <2>1, <2>2 DEF Overwrites
<1>14. Stored'
  <2>1. \A units, i : Derives(units, i)' <=> Derives(units, i)
    BY DEF Derives, Overwrites
  <2>2. \A i \in DOMAIN job.newEnt : Derives(job.newEnt[i], i)
    BY <1>1, <1>2 DEF Derives
  <2>3. \A i \in DOMAIN job.newEnt : \A u \in job.newEnt[i] : Derives({u}, i)
    BY <1>1, <1>2 DEF Derives
  <2>4. \A i \in Ids : graph'.ent[i] \subseteq live \cup removing /\ Derives(graph'.ent[i], i)
    <3> TAKE i \in Ids
    <3>1. graph.ent[i] \subseteq live \cup removing /\ Derives(graph.ent[i], i)
      BY <1>2 DEF Stored
    <3>2. CASE graph'.ent[i] = graph.ent[i]
      BY <3>1, <3>2
    <3>3. CASE i \in DOMAIN job.newEnt /\ graph'.ent[i] = job.newEnt[i]
      <4>1. job.newEnt[i] \subseteq live /\ Derives(job.newEnt[i], i)
        BY <1>1, <2>2, <3>3
      <4> QED
        BY <3>3, <4>1
    <3> QED
      BY <3>2, <3>3 DEF Overwrites
  <2>5. \A i \in Ids : graph.ent[i] # {} => graph'.ent[i] # {}
    BY <1>1 DEF Overwrites
  <2>6. \A e \in EdgeIds :
         /\ graph'.edge[e] \subseteq live \cup removing
         /\ \A u \in graph'.edge[e] :
              /\ Derives({u}, e[1]) /\ Derives({u}, e[2])
              /\ <<NameKey[e[1]], NameKey[e[2]]>> \in Relates[u]
         /\ graph'.edge[e] # {} => graph'.ent[e[1]] # {} /\ graph'.ent[e[2]] # {}
    <3> TAKE e \in EdgeIds
    <3>1. CASE graph'.edge[e] = graph.edge[e]
      <4>1. /\ graph.edge[e] \subseteq live \cup removing
            /\ \A u \in graph.edge[e] :
                 /\ Derives({u}, e[1]) /\ Derives({u}, e[2])
                 /\ <<NameKey[e[1]], NameKey[e[2]]>> \in Relates[u]
            /\ graph.edge[e] # {} => graph.ent[e[1]] # {} /\ graph.ent[e[2]] # {}
        BY <1>2 DEF Stored
      <4> QED
        BY <1>3, <2>5, <3>1, <4>1
    <3>2. CASE /\ e \in DOMAIN job.newEdge /\ graph'.edge[e] = job.newEdge[e]
               /\ {e[1], e[2]} \subseteq Held(graph.ent)
      <4>1. /\ e[1] \in DOMAIN job.newEnt /\ e[2] \in DOMAIN job.newEnt
            /\ job.newEdge[e] \subseteq live
            /\ \A u \in job.newEdge[e] :
                   /\ u \in job.newEnt[e[1]] /\ u \in job.newEnt[e[2]]
                   /\ <<NameKey[e[1]], NameKey[e[2]]>> \in Relates[u]
        BY <1>1, <3>2
      <4>2. \A u \in job.newEdge[e] : Derives({u}, e[1]) /\ Derives({u}, e[2])
        BY <2>3, <4>1
      <4>3. graph'.ent[e[1]] # {} /\ graph'.ent[e[2]] # {}
        BY <1>3, <2>5, <3>2 DEF Held
      <4> QED
        BY <3>2, <4>1, <4>2, <4>3
    <3> QED
      BY <3>1, <3>2 DEF Overwrites
  <2>7. \A i \in Ids : graph'.ent[i] \subseteq live' \cup removing' /\ Derives(graph.ent[i], i)'
    <3>1. \A i \in Ids : Derives(graph.ent[i], i)'
      BY <2>4 DEF Derives, Overwrites
    <3> QED
      BY <2>4, <3>1 DEF Overwrites
  <2>8. \A e \in EdgeIds : \A u \in graph'.edge[e] : Derives({u}, e[1])' /\ Derives({u}, e[2])'
    BY <2>1, <2>6
  <2>9. \A e \in EdgeIds : graph'.edge[e] \subseteq live' \cup removing'
    BY <2>6 DEF Overwrites
  <2> QED
    BY <2>6, <2>7, <2>8, <2>9 DEF Stored
<1> QED
  BY <1>4, <1>6, <1>7, <1>8, <1>9, <1>10, <1>11, <1>12, <1>13, <1>14

\* A write that reports only how it went keeps what the derivation decided.
LEMMA WriteKeeps ==
  ASSUME Typed, Sound, Stripping, KeptOrNew, Overwrites, LearnsOk,
         pc \in {"gained", "edges", "vector_edges"}, pc' \in {"edges", "vector_edges", "kept"}, SoFar'
  PROVE  Sound' /\ Phases'
<1>1. /\ \A i \in Ids, u \in live : KeepsEntity(i, u) => KeepsEntity(i, u)'
      /\ \A e \in EdgeIds, u \in live : KeepsEdge(e, u) => KeepsEdge(e, u)'
      /\ Citing(graph'.ent, removing) \subseteq Citing(graph.ent, removing)
      /\ Citing(graph'.edge, removing) \subseteq Citing(graph.edge, removing)
      /\ Held(graph'.ent) \subseteq Held(graph.ent) \cup DOMAIN job.newEnt
      /\ \A i \in DOMAIN job.newEnt :
              job.newEnt[i] \subseteq graph.ent[i] => job.newEnt[i] \subseteq graph'.ent[i]
      /\ live' \subseteq vector'.unit /\ Stored' /\ Anchored(live, note.ent)'
      /\ (removing \subseteq vector.unit => Anchored(Units, {}))'
      /\ KeptBut({}, {})' /\ Gone(removing)'
  BY OverwritesKeep DEF Writing
<1>2. /\ live' = live /\ removing' = removing /\ note' = note
      /\ job'.ent = job.ent /\ job'.edge = job.edge
      /\ job'.newEnt = job.newEnt /\ job'.newEdge = job.newEdge
      /\ Noted = note.ent /\ Noted' = note.ent
  BY DEF Overwrites, LearnsOk, Noted
<1>3. Writing /\ Writing'
  BY DEF Writing
<1>4. Stripping'
  <2>1. /\ \A i \in DOMAIN job.newEnt :
             /\ job.newEnt[i] = EntityUnits(i, live) /\ i \notin job.ent
             /\ job.newEnt[i] \subseteq graph.ent[i] \/ i \in note.ent
        /\ \A e \in DOMAIN job.newEdge :
             /\ job.newEdge[e] = EdgeUnits(e, live) /\ e \notin job.edge
             /\ {e[1], e[2]} \subseteq DOMAIN job.newEnt
        /\ Clean(DOMAIN job.newEnt \cup job.ent, DOMAIN job.newEdge \cup job.edge)
        /\ note.ent \cap Held(graph.ent) \subseteq DOMAIN job.newEnt \cup job.ent
    BY <1>2, <1>3 DEF Stripping
  <2>2. \A i \in DOMAIN job.newEnt : job.newEnt[i] \subseteq graph'.ent[i] \/ i \in note.ent
    BY <1>1, <2>1
  <2>3. /\ Citing(graph'.ent, removing) \subseteq DOMAIN job.newEnt \cup job.ent
        /\ Citing(graph'.edge, removing) \subseteq DOMAIN job.newEdge \cup job.edge
    BY <1>1, <2>1 DEF Clean
  <2>4. note.ent \cap Held(graph'.ent) \subseteq DOMAIN job.newEnt \cup job.ent
    BY <1>1, <2>1
  <2> QED
    BY <1>1, <1>2, <2>1, <2>2, <2>3, <2>4 DEF Stripping, Clean
<1>5. KeptOrNew'
  <2>1. ASSUME NEW u \in live
        PROVE  /\ \A k \in Mentions[u] :
                 \/ MentionKept(u, k, job.ent)'
                 \/ \E i \in DOMAIN job.newEnt : NameKey[i] = k /\ u \in job.newEnt[i]
               /\ \A p \in Relates[u] :
                 \/ RelationKept(u, p, job.ent, job.edge)'
                 \/ \E e \in DOMAIN job.newEdge \cap EdgeIds :
                      <<NameKey[e[1]], NameKey[e[2]]>> = p /\ u \in job.newEdge[e]
    <3>1. \A k : MentionKept(u, k, job.ent) => MentionKept(u, k, job.ent)'
      BY <1>1, <1>2 DEF MentionKept
    <3>2. \A p : RelationKept(u, p, job.ent, job.edge) => RelationKept(u, p, job.ent, job.edge)'
      BY <1>1, <1>2 DEF RelationKept
    <3>3. /\ \A k \in Mentions[u] :
                 \/ MentionKept(u, k, job.ent)
                 \/ \E i \in DOMAIN job.newEnt : NameKey[i] = k /\ u \in job.newEnt[i]
          /\ \A p \in Relates[u] :
                 \/ RelationKept(u, p, job.ent, job.edge)
                 \/ \E e \in DOMAIN job.newEdge \cap EdgeIds :
                      <<NameKey[e[1]], NameKey[e[2]]>> = p /\ u \in job.newEdge[e]
      BY <1>3 DEF KeptOrNew
    <3> QED
      BY <3>1, <3>2, <3>3
  <2> QED
    BY <1>2, <2>1 DEF KeptOrNew
<1>6. /\ FoundAll' /\ Deriving' /\ Retiring' /\ Finished'
      /\ (Deleting => KeptBut(job.ent, job.edge))'
  BY DEF FoundAll, Deriving, Retiring, Finished, Deleting, Finishing
<1> QED
  BY <1>1, <1>4, <1>5, <1>6 DEF Sound, Phases

LEMMA GainedKeeps ==
  ASSUME Typed, Sound, Phases, WriteGained
  PROVE  Sound' /\ Phases'
<1>1. /\ pc = "gained" /\ pc' = "edges"
      /\ live' = live /\ removing' = removing /\ vector' = vector /\ note' = note
      /\ graph'.edge = graph.edge /\ graph'.ent \in [Ids -> SUBSET Units]
      /\ \A i \in Ids : \/ graph'.ent[i] = graph.ent[i]
                        \/ i \in job.first /\ graph'.ent[i] = job.newEnt[i]
      /\ job'.ok => \A i \in job.first : graph'.ent[i] = job.newEnt[i]
      /\ LearnsOk
  BY GainedEffect
<1>2. job.first \subseteq DOMAIN job.newEnt /\ graph.edge \in [EdgeIds -> SUBSET Units]
  BY DEF Typed, TypeOK
<1>3. Overwrites
  BY <1>1, <1>2 DEF Overwrites
<1>4. SoFar'
  BY <1>1 DEF SoFar, LearnsOk
<1> QED
  BY <1>1, <1>3, <1>4, WriteKeeps DEF Phases

LEMMA EdgesKeeps ==
  ASSUME Typed, Sound, Phases, WriteEdges
  PROVE  Sound' /\ Phases'
<1>1. /\ pc = "edges" /\ pc' = "vector_edges"
      /\ live' = live /\ removing' = removing /\ vector' = vector /\ note' = note
      /\ graph'.ent = graph.ent /\ graph'.edge \in [EdgeIds -> SUBSET Units]
      /\ \A e \in EdgeIds :
           \/ graph'.edge[e] = graph.edge[e]
           \/ /\ e \in DOMAIN job.newEdge /\ graph'.edge[e] = job.newEdge[e]
              /\ {e[1], e[2]} \subseteq Held(graph.ent)
      /\ job'.ok => /\ job.ok
                    /\ \A e \in DOMAIN job.newEdge \cap EdgeIds :
                         graph'.edge[e] = job.newEdge[e]
      /\ LearnsOk
  BY EdgesEffect
<1>2. graph.ent \in [Ids -> SUBSET Units]
  BY DEF Typed, TypeOK
<1>3. Overwrites
  BY <1>1, <1>2 DEF Overwrites
<1>4. job.ok => \A i \in job.first : graph.ent[i] = job.newEnt[i]
  BY <1>1 DEF Phases, SoFar
<1>5. SoFar'
  BY <1>1, <1>4 DEF SoFar, LearnsOk
<1> QED
  BY <1>1, <1>3, <1>5, WriteKeeps DEF Phases

LEMMA VectorEdgesKeeps ==
  ASSUME Typed, Sound, Phases, WriteVectorEdges
  PROVE  Sound' /\ Phases'
<1>1. /\ pc = "vector_edges" /\ pc' = "kept"
      /\ live' = live /\ removing' = removing /\ graph' = graph /\ note' = note
      /\ vector'.unit = vector.unit /\ vector'.ent = vector.ent
      /\ \A e \in EdgeIds :
           \/ vector'.edge[e] = vector.edge[e]
           \/ e \in DOMAIN job.newEdge /\ vector'.edge[e] = job.newEdge[e]
      /\ job'.ok => /\ job.ok
                    /\ \A e \in DOMAIN job.newEdge \cap EdgeIds :
                         vector'.edge[e] = job.newEdge[e]
      /\ LearnsOk
  BY VectorEdgesEffect
<1>2. graph.ent \in [Ids -> SUBSET Units] /\ graph.edge \in [EdgeIds -> SUBSET Units]
  BY DEF Typed, TypeOK
<1>3. Overwrites
  BY <1>1, <1>2 DEF Overwrites
<1>4. job.ok => /\ \A i \in job.first : graph.ent[i] = job.newEnt[i]
                /\ \A e \in DOMAIN job.newEdge \cap EdgeIds : graph.edge[e] = job.newEdge[e]
  BY <1>1 DEF Phases, SoFar
<1>5. SoFar'
  BY <1>1, <1>4 DEF SoFar, LearnsOk
<1> QED
  BY <1>1, <1>3, <1>5, WriteKeeps DEF Phases

\* What a step that leaves the stores alone keeps.
LEMMA StoresKept ==
  ASSUME Sound, live' = live, removing' = removing, graph' = graph, vector' = vector,
         note.ent \subseteq note'.ent, ~Deleting'
  PROVE  Sound'
<1>1. live' \subseteq vector'.unit
  BY DEF Sound
<1>2. Stored'
  BY DEF Sound, Stored, Derives
<1>3. Anchored(live, note.ent)' /\ (removing \subseteq vector.unit => Anchored(Units, {}))'
  BY DEF Sound, Anchored
<1>4. /\ \A u, k : MentionKept(u, k, {})' <=> MentionKept(u, k, {})
      /\ \A u, p : RelationKept(u, p, {}, {})' <=> RelationKept(u, p, {}, {})
  BY DEF MentionKept, RelationKept, KeepsEdge, KeepsEntity, Keeps
<1>5. KeptBut({}, {})'
  BY <1>4 DEF Sound, KeptBut
<1> QED
  BY <1>1, <1>2, <1>3, <1>5 DEF Sound

LEMMA NoteKeeps ==
  ASSUME Typed, Sound, Phases, NoteStrip
  PROVE  Sound' /\ Phases'
<1>1. /\ pc = "note" /\ pc' = "gained"
      /\ live' = live /\ removing' = removing
      /\ graph' = graph /\ vector' = vector /\ job' = job
      /\ note'.ent = note.ent \cup job.noting.ent
  BY NoteEffect
<1>2. Noted' = Noted
  BY <1>1 DEF Noted
<1>4. Sound'
  <2>1. ~Deleting' /\ note.ent \subseteq note'.ent
    BY <1>1 DEF Deleting
  <2> QED
    BY <1>1, <2>1, StoresKept
<1>5. Stripping'
  BY <1>1, <1>2 DEF Phases, Stripping, Writing, Clean, Gone
<1>6. KeptOrNew'
  <2>1. /\ \A u, k : MentionKept(u, k, job.ent)' <=> MentionKept(u, k, job.ent)
        /\ \A u, p : RelationKept(u, p, job.ent, job.edge)' <=> RelationKept(u, p, job.ent, job.edge)
    BY <1>1 DEF MentionKept, RelationKept, KeepsEdge, KeepsEntity, Keeps
  <2> QED
    BY <1>1, <2>1 DEF Phases, KeptOrNew, Writing
<1>7. FoundAll' /\ Deriving' /\ SoFar' /\ Retiring' /\ Finished'
  BY <1>1 DEF FoundAll, Deriving, SoFar, Retiring, Finished, Deleting, Finishing
<1> QED
  BY <1>4, <1>5, <1>6, <1>7 DEF Phases

LEMMA DeriveKeeps ==
  ASSUME Typed, Sound, Phases, Settles, Derive
  PROVE  Sound' /\ Phases'
<1>1. /\ pc = "derive" /\ pc' = "note" /\ live' = live /\ removing' = removing
      /\ graph' = graph /\ vector' = vector /\ note' = note
  BY DeriveEffect
<1>2. Stripping' /\ KeptOrNew'
  BY DeriveDecides DEF Phases
<1>3. Sound'
  <2>1. ~Deleting' /\ note.ent \subseteq note'.ent
    BY <1>1 DEF Deleting
  <2> QED
    BY <1>1, <2>1, StoresKept
<1>4. FoundAll' /\ Deriving' /\ SoFar' /\ Retiring' /\ Finished'
  BY <1>1 DEF FoundAll, Deriving, SoFar, Retiring, Finished, Deleting, Finishing
<1> QED
  BY <1>2, <1>3, <1>4 DEF Phases

\* When every write succeeded, what a live unit states is on an item that stays,
\* and only the old ids still cite a removed unit.
LEMMA KeptKeeps ==
  ASSUME Typed, Sound, Phases, WriteKept
  PROVE  Sound' /\ Phases'
<1>1. /\ pc = "kept"
      /\ live' = live /\ removing' = removing /\ note' = note
      /\ graph'.edge = graph.edge /\ vector'.unit = vector.unit /\ vector'.edge = vector.edge
      /\ graph'.ent \in [Ids -> SUBSET Units]
      /\ \A i \in Ids : \/ graph'.ent[i] = graph.ent[i]
                        \/ i \in DOMAIN job.newEnt /\ graph'.ent[i] = job.newEnt[i]
      /\ \A i \in Ids : \/ vector'.ent[i] = vector.ent[i]
                        \/ i \in DOMAIN job.newEnt /\ vector'.ent[i] = job.newEnt[i]
      /\ \/ pc' = "idle" /\ job' = NoJob
         \/ /\ job.ok /\ pc' = "delete_vector"
            /\ job'.ent = job.ent /\ job'.edge = job.edge /\ job'.strip = FALSE
            /\ \A i \in DOMAIN job.newEnt \ job.first : graph'.ent[i] = job.newEnt[i]
            /\ \A i \in DOMAIN job.newEnt : vector'.ent[i] = job.newEnt[i]
  BY KeptEffect
<1>2. graph.edge \in [EdgeIds -> SUBSET Units]
  BY DEF Typed, TypeOK
<1>3. Overwrites
  BY <1>1, <1>2 DEF Overwrites
<1>4. Stripping /\ KeptOrNew /\ SoFar /\ Writing
  BY <1>1 DEF Phases, Writing
<1>5. /\ \A i \in Ids, u \in live : KeepsEntity(i, u) => KeepsEntity(i, u)'
      /\ \A e \in EdgeIds, u \in live : KeepsEdge(e, u) => KeepsEdge(e, u)'
      /\ Citing(graph'.ent, removing) \subseteq Citing(graph.ent, removing)
      /\ Citing(graph'.edge, removing) \subseteq Citing(graph.edge, removing)
      /\ Held(graph'.ent) \subseteq Held(graph.ent) \cup DOMAIN job.newEnt
      /\ live' \subseteq vector'.unit /\ Stored' /\ Anchored(live, note.ent)'
      /\ (removing \subseteq vector.unit => Anchored(Units, {}))'
      /\ KeptBut({}, {})' /\ Gone(removing)'
  BY <1>1, <1>3, <1>4, OverwritesKeep
<1>6. pc' \in {"idle", "delete_vector"}
  BY <1>1
<1>7. /\ FoundAll' /\ Deriving' /\ Stripping' /\ KeptOrNew' /\ SoFar' /\ Finished'
  <2>1. pc' = "delete_vector" => job'.strip = FALSE
    BY <1>1
  <2> QED
    BY <1>6, <2>1 DEF FoundAll, Deriving, Stripping, KeptOrNew, SoFar, Finished,
                      Deleting, Writing, Finishing
<1>8. CASE pc' = "idle"
  BY <1>5, <1>7, <1>8 DEF Sound, Phases, Retiring, Deleting
<1>9. CASE /\ job.ok /\ pc' = "delete_vector"
           /\ job'.ent = job.ent /\ job'.edge = job.edge /\ job'.strip = FALSE
           /\ \A i \in DOMAIN job.newEnt \ job.first : graph'.ent[i] = job.newEnt[i]
           /\ \A i \in DOMAIN job.newEnt : vector'.ent[i] = job.newEnt[i]
  <2>1. /\ \A i \in DOMAIN job.newEnt :
              /\ i \in Ids /\ job.newEnt[i] = EntityUnits(i, live) /\ job.newEnt[i] # {}
              /\ job.newEnt[i] \subseteq live /\ graph.ent[i] \cap live \subseteq job.newEnt[i]
        /\ \A e \in EdgeIds : \A u \in graph.edge[e] \cap live :
              /\ e[1] \in DOMAIN job.newEnt => u \in job.newEnt[e[1]]
              /\ e[2] \in DOMAIN job.newEnt => u \in job.newEnt[e[2]]
        /\ \A e \in DOMAIN job.newEdge \cap EdgeIds :
              /\ e[1] \in DOMAIN job.newEnt /\ e[2] \in DOMAIN job.newEnt
              /\ job.newEdge[e] \subseteq live
              /\ \A u \in job.newEdge[e] : u \in job.newEnt[e[1]] /\ u \in job.newEnt[e[2]]
    BY <1>4, NewCovers
  <2>2. /\ \A i \in job.first : graph.ent[i] = job.newEnt[i]
        /\ \A e \in DOMAIN job.newEdge \cap EdgeIds :
             graph.edge[e] = job.newEdge[e] /\ vector.edge[e] = job.newEdge[e]
    BY <1>1, <1>4, <1>9 DEF SoFar
  <2>3. \A i \in DOMAIN job.newEnt : graph'.ent[i] = job.newEnt[i] /\ vector'.ent[i] = job.newEnt[i]
    BY <1>1, <1>9, <2>1, <2>2
  <2>4. /\ \A i \in DOMAIN job.newEnt : i \notin job.ent
        /\ \A e \in DOMAIN job.newEdge : e \notin job.edge
        /\ Clean(DOMAIN job.newEnt \cup job.ent, DOMAIN job.newEdge \cup job.edge)
        /\ note.ent \cap Held(graph.ent) \subseteq DOMAIN job.newEnt \cup job.ent
    BY <1>1, <1>4 DEF Stripping, Noted
  <2>5. /\ \A i \in DOMAIN job.newEnt : \A u \in job.newEnt[i] : KeepsEntity(i, u)'
        /\ \A e \in DOMAIN job.newEdge \cap EdgeIds : \A u \in job.newEdge[e] : KeepsEdge(e, u)'
    <3>1. \A i \in DOMAIN job.newEnt : \A u \in job.newEnt[i] : KeepsEntity(i, u)'
      BY <2>3 DEF KeepsEntity, Keeps
    <3>2. \A e \in DOMAIN job.newEdge \cap EdgeIds : \A u \in job.newEdge[e] :
            Keeps(graph.edge, vector.edge, e, u)'
      BY <1>1, <2>2 DEF Keeps
    <3> QED
      BY <2>1, <3>1, <3>2 DEF KeepsEdge
  <2>6. KeptBut(job.ent, job.edge)'
    <3>1. ASSUME NEW u \in live, NEW k \in Mentions[u]
          PROVE  MentionKept(u, k, job.ent)'
      <4>1. CASE MentionKept(u, k, job.ent)
        BY <1>5, <1>9, <4>1 DEF MentionKept
      <4>2. CASE \E i \in DOMAIN job.newEnt : NameKey[i] = k /\ u \in job.newEnt[i]
        <5>1. PICK i \in DOMAIN job.newEnt : NameKey[i] = k /\ u \in job.newEnt[i]
          BY <4>2
        <5>2. i \in Ids \ job'.ent /\ KeepsEntity(i, u)'
          BY <1>9, <2>1, <2>4, <2>5, <5>1
        <5> QED
          BY <5>1, <5>2 DEF MentionKept
      <4> QED
        BY <1>4, <4>1, <4>2 DEF KeptOrNew
    <3>2. ASSUME NEW u \in live, NEW p \in Relates[u]
          PROVE  RelationKept(u, p, job.ent, job.edge)'
      <4>1. CASE RelationKept(u, p, job.ent, job.edge)
        BY <1>5, <1>9, <4>1 DEF RelationKept
      <4>2. CASE \E e \in DOMAIN job.newEdge \cap EdgeIds :
                    <<NameKey[e[1]], NameKey[e[2]]>> = p /\ u \in job.newEdge[e]
        <5>1. PICK e \in DOMAIN job.newEdge \cap EdgeIds :
                     <<NameKey[e[1]], NameKey[e[2]]>> = p /\ u \in job.newEdge[e]
          BY <4>2
        <5>2. /\ e \in EdgeIds \ job'.edge /\ KeepsEdge(e, u)'
              /\ e[1] \notin job'.ent /\ e[2] \notin job'.ent
          BY <1>9, <2>1, <2>4, <2>5, <5>1
        <5> QED
          BY <5>1, <5>2 DEF RelationKept
      <4> QED
        BY <1>4, <4>1, <4>2 DEF KeptOrNew
    <3> QED
      BY <1>1, <3>1, <3>2 DEF KeptBut
  <2>7. live \cap removing = {}
    BY DEF Typed, TypeOK
  <2>8. Clean(job.ent, job.edge)'
    <3>1. \A i \in Citing(graph'.ent, removing) : i \notin DOMAIN job.newEnt
      BY <2>1, <2>3, <2>7 DEF Citing
    <3>2. \A e \in Citing(graph.edge, removing) : e \in EdgeIds /\ graph.edge[e] \cap removing # {}
      BY <1>2 DEF Citing
    <3>3. \A e \in Citing(graph.edge, removing) : e \notin DOMAIN job.newEdge
      BY <2>1, <2>2, <2>7, <3>2
    <3>4. /\ Citing(graph'.ent, removing) \subseteq job.ent
          /\ Citing(graph'.edge, removing) \subseteq job.edge
      BY <1>1, <1>5, <2>4, <3>1, <3>3 DEF Clean
    <3> QED
      BY <1>1, <1>9, <3>4 DEF Clean
  <2>9. Anchored(live, job.ent)'
    <3> SUFFICES ASSUME NEW e \in EdgeIds, NEW u \in graph.edge[e] \cap live
                 PROVE  /\ u \in graph'.ent[e[1]] \/ e[1] \in job.ent
                        /\ u \in graph'.ent[e[2]] \/ e[2] \in job.ent
      BY <1>1, <1>9 DEF Anchored
    <3>1. /\ e[1] \in Ids /\ e[2] \in Ids /\ Anchored(live, note.ent)
          /\ e[1] \in Held(graph.ent) /\ e[2] \in Held(graph.ent)
      BY IdsOfEdges DEF Sound, Stored, Held, Typed, TypeOK
    <3>2. /\ u \in graph.ent[e[1]] \/ e[1] \in note.ent
          /\ u \in graph.ent[e[2]] \/ e[2] \in note.ent
      BY <3>1 DEF Anchored
    <3>3. ASSUME NEW i \in Ids, i \in Held(graph.ent), u \in graph.ent[i] \/ i \in note.ent,
                 i \in DOMAIN job.newEnt => u \in job.newEnt[i]
          PROVE  u \in graph'.ent[i] \/ i \in job.ent
      <4>1. CASE i \in DOMAIN job.newEnt
        BY <2>3, <3>3, <4>1
      <4>2. CASE i \notin DOMAIN job.newEnt
        <5>1. graph'.ent[i] = graph.ent[i]
          BY <1>1, <4>2
        <5> QED
          BY <2>4, <3>3, <4>2, <5>1
      <4> QED
        BY <4>1, <4>2
    <3> QED
      BY <2>1, <3>1, <3>2, <3>3
  <2>10. Retiring'
    BY <1>5, <2>8, <2>9 DEF Retiring
  <2> QED
    BY <1>5, <1>7, <2>6, <2>10 DEF Sound, Phases
<1> QED
  BY <1>1, <1>8, <1>9

LEMMA EndKeeps ==
  ASSUME Typed, Sound, Phases, ClearNote \/ Record \/ Stop
  PROVE  Sound' /\ Phases'
<1>1. /\ pc # "idle" /\ graph' = graph /\ vector' = vector /\ live' = live
      /\ ClearNote => pc = "finish" /\ pc' = "record" /\ removing' = removing /\ job' = NoJob
                      /\ (note' = note \/ note' = NoNote)
      /\ Record => /\ pc = "record" /\ pc' = "idle" /\ removing' = {} /\ note' = note
                   /\ job' = job
      /\ Stop => pc' = "idle" /\ removing' = removing /\ note' = note /\ job' = NoJob
  BY EndEffect
<1>2. pc' \in {"record", "idle"}
  BY <1>1
<1>3. /\ FoundAll' /\ Deriving' /\ Stripping' /\ KeptOrNew' /\ SoFar' /\ Retiring' /\ ~Deleting'
  BY <1>2 DEF FoundAll, Deriving, Stripping, KeptOrNew, SoFar, Retiring, Deleting, Writing
<1>4. CASE Stop
  <2>1. Sound'
    BY <1>1, <1>3, <1>4, StoresKept
  <2>2. Finished'
    BY <1>1, <1>4 DEF Finished, Finishing
  <2> QED
    BY <1>3, <2>1, <2>2 DEF Phases
<1>5. CASE ClearNote \/ Record
  <2>1. Clean({}, {}) /\ Anchored(Units, {}) /\ live \subseteq Units
    BY <1>1, <1>5 DEF Phases, Finished, Finishing, Typed, TypeOK
  <2>2. Anchored(live, note.ent)' /\ Anchored(Units, {})'
    BY <1>1, <2>1 DEF Anchored
  <2>3. live' \subseteq vector'.unit
    BY <1>1 DEF Sound
  <2>4. /\ \A u, k : MentionKept(u, k, {})' <=> MentionKept(u, k, {})
        /\ \A u, p : RelationKept(u, p, {}, {})' <=> RelationKept(u, p, {}, {})
    BY <1>1 DEF MentionKept, RelationKept, KeepsEdge, KeepsEntity, Keeps
  <2>5. KeptBut({}, {})'
    BY <1>1, <2>4 DEF Sound, KeptBut
  <2>6. CASE ClearNote
    <3>1. Stored'
      BY <1>1, <2>6 DEF Sound, Stored, Derives
    <3>2. Finished'
      BY <1>1, <2>1, <2>2, <2>6 DEF Finished, Clean
    <3> QED
      BY <1>3, <2>2, <2>3, <2>5, <3>1, <3>2 DEF Sound, Phases
  <2>7. CASE Record
    <3>1. \A units, i : Derives(units, i)' <=> Derives(units, i)
      BY <1>1 DEF Derives
    <3>2. /\ graph.ent \in [Ids -> SUBSET Units] /\ graph.edge \in [EdgeIds -> SUBSET Units]
          /\ Stored
      BY DEF Typed, TypeOK, Sound
    <3>3. \A i \in Ids : graph.ent[i] \subseteq live /\ Derives(graph.ent[i], i)
      BY <2>1, <3>2 DEF Stored, Clean, Citing
    <3>4. \A e \in EdgeIds : graph.edge[e] \subseteq live
      BY <2>1, <3>2 DEF Stored, Clean, Citing
    <3>5. Stored'
      <4>1. \A i \in Ids : Derives(graph.ent[i], i)'
        BY <1>1, <3>3 DEF Derives
      <4>2. \A e \in EdgeIds : \A u \in graph.edge[e] :
              /\ Derives({u}, e[1])' /\ Derives({u}, e[2])'
              /\ <<NameKey[e[1]], NameKey[e[2]]>> \in Relates[u]
        BY <3>1, <3>2 DEF Stored
      <4>3. \A e \in EdgeIds :
              graph.edge[e] # {} => graph.ent[e[1]] # {} /\ graph.ent[e[2]] # {}
        BY <3>2 DEF Stored
      <4> QED
        BY <1>1, <2>7, <3>3, <3>4, <4>1, <4>2, <4>3 DEF Stored
    <3>6. Finished'
      BY <1>1, <2>7 DEF Finished, Finishing
    <3> QED
      BY <1>3, <2>2, <2>3, <2>5, <3>5, <3>6 DEF Sound, Phases
  <2> QED
    BY <1>5, <2>6, <2>7
<1> QED
  BY <1>4, <1>5

-----------------------------------------------------------------------------
(* The initial stores.                                                     *)

\* The stores hold, of every item, what a build of the live units or of all
\* units gives it, and an edge with a removed unit has both its ends so.
OfBuilds ==
    /\ live \subseteq Units /\ live \cup removing = Units /\ live \subseteq vector.unit
    /\ \A s \in Statements : s[1] \in live => Resolved[live][s] = Resolved[Units][s]
    /\ \A i \in Ids : /\ graph.ent[i] \in {EntityUnits(i, live), EntityUnits(i, Units)}
                      /\ vector.ent[i] \in {EntityUnits(i, live), EntityUnits(i, Units)}
    /\ \A e \in EdgeIds : /\ graph.edge[e] \in {EdgeUnits(e, live), EdgeUnits(e, Units)}
                          /\ vector.edge[e] \in {EdgeUnits(e, live), EdgeUnits(e, Units)}
                          /\ graph.edge[e] = EdgeUnits(e, live)
                               \/ /\ graph.ent[e[1]] = EntityUnits(e[1], Units)
                                  /\ graph.ent[e[2]] = EntityUnits(e[2], Units)

LEMMA InitOfBuilds == Init => OfBuilds
<1> SUFFICES ASSUME Init
             PROVE  OfBuilds
  OBVIOUS
<1>1. CASE Built
  <2>1. /\ live = Units /\ removing = {} /\ vector.unit = Units
        /\ graph.ent = BuiltEntities(Units) /\ graph.edge = BuiltEdges(Units)
        /\ vector.ent = BuiltEntities(Units) /\ vector.edge = BuiltEdges(Units)
    BY <1>1 DEF Built
  <2> QED
    BY <2>1 DEF OfBuilds, BuiltEntities, BuiltEdges
<1>2. CASE KilledCommit
  <2> DEFINE before == Units \ Unwritten
  <2>1. PICK us, ents, edges, vents, vedges :
            /\ us \subseteq Unwritten
            /\ Ends(edges) \subseteq ents
            /\ graph = [ent |-> Write(BuiltEntities(before), BuiltEntities(Units), ents),
                        edge |-> Write(BuiltEdges(before), BuiltEdges(Units), edges)]
            /\ vector = [unit |-> before \cup us,
                         ent |-> Write(BuiltEntities(before), BuiltEntities(Units), vents),
                         edge |-> Write(BuiltEdges(before), BuiltEdges(Units), vedges)]
    BY <1>2 DEF KilledCommit
  <2>2. /\ live = before /\ removing = Unwritten /\ Unwritten \subseteq Units
    BY <1>2, RemovalAssumption DEF KilledCommit
  <2>3. \A s \in Statements : s[1] \in live => Resolved[live][s] = Resolved[Units][s]
    BY <2>2, RemovalAssumption
  <2>4. /\ graph.ent = Write(BuiltEntities(before), BuiltEntities(Units), ents)
        /\ graph.edge = Write(BuiltEdges(before), BuiltEdges(Units), edges)
        /\ vector.ent = Write(BuiltEntities(before), BuiltEntities(Units), vents)
        /\ vector.edge = Write(BuiltEdges(before), BuiltEdges(Units), vedges)
        /\ vector.unit = before \cup us
    BY <2>1
  <2>5. /\ \A i \in Ids :
             /\ graph.ent[i] = IF i \in ents THEN EntityUnits(i, Units) ELSE EntityUnits(i, before)
             /\ vector.ent[i] = IF i \in vents THEN EntityUnits(i, Units) ELSE EntityUnits(i, before)
        /\ \A e \in EdgeIds :
             /\ graph.edge[e] = IF e \in edges THEN EdgeUnits(e, Units) ELSE EdgeUnits(e, before)
             /\ vector.edge[e] = IF e \in vedges THEN EdgeUnits(e, Units) ELSE EdgeUnits(e, before)
    BY <2>4 DEF Write, BuiltEntities, BuiltEdges
  <2>6. \A e \in EdgeIds : /\ e[1] \in Ids /\ e[2] \in Ids
                           /\ e \in edges => e[1] \in ents /\ e[2] \in ents
    BY <2>1, IdsOfEdges DEF Ends
  <2>7. live \subseteq Units /\ live \cup removing = Units /\ live \subseteq vector.unit
    BY <2>2, <2>4
  <2>8. \A i \in Ids : /\ graph.ent[i] \in {EntityUnits(i, live), EntityUnits(i, Units)}
                       /\ vector.ent[i] \in {EntityUnits(i, live), EntityUnits(i, Units)}
    BY <2>2, <2>5
  <2>9. \A e \in EdgeIds : /\ graph.edge[e] \in {EdgeUnits(e, live), EdgeUnits(e, Units)}
                           /\ vector.edge[e] \in {EdgeUnits(e, live), EdgeUnits(e, Units)}
                           /\ graph.edge[e] = EdgeUnits(e, live)
                                \/ /\ graph.ent[e[1]] = EntityUnits(e[1], Units)
                                   /\ graph.ent[e[2]] = EntityUnits(e[2], Units)
    BY <2>2, <2>5, <2>6
  <2> QED
    BY <2>3, <2>7, <2>8, <2>9 DEF OfBuilds
<1> QED
  BY <1>1, <1>2 DEF Init

LEMMA InitSound == Init => Sound /\ Phases
<1> SUFFICES ASSUME Init
             PROVE  Sound /\ Phases
  OBVIOUS
<1>1. OfBuilds
  BY InitOfBuilds
<1>2. pc = "idle" /\ note.ent = {}
  BY DEF Init, NoNote
<1>3. \A i \in Ids : EntityUnits(i, live) = EntityUnits(i, Units) \cap live
  <2> TAKE i \in Ids
  <2>1. \A u \in live : NameKey[i] \in Mentions[u] =>
          Resolved[live][<<u, NameKey[i]>>] = Resolved[Units][<<u, NameKey[i]>>]
    BY <1>1, StatementOf DEF OfBuilds
  <2> QED
    BY <1>1, <2>1 DEF EntityUnits, OfBuilds
<1>4. \A e \in EdgeIds : EdgeUnits(e, live) = EdgeUnits(e, Units) \cap live
  BY <1>3, IdsOfEdges DEF EdgeUnits
<1>5. \A i \in Ids : /\ EntityUnits(i, live) \subseteq graph.ent[i]
                     /\ EntityUnits(i, live) \subseteq vector.ent[i]
                     /\ graph.ent[i] \subseteq EntityUnits(i, Units)
  BY <1>1, <1>3 DEF OfBuilds
<1>6. \A e \in EdgeIds : /\ EdgeUnits(e, live) \subseteq graph.edge[e]
                         /\ EdgeUnits(e, live) \subseteq vector.edge[e]
                         /\ graph.edge[e] \subseteq EdgeUnits(e, Units)
  BY <1>1, <1>4 DEF OfBuilds
<1>7. \A e \in EdgeIds : \A u \in EdgeUnits(e, Units) :
        /\ u \in EntityUnits(e[1], Units) /\ u \in EntityUnits(e[2], Units) /\ u \in Units
        /\ <<NameKey[e[1]], NameKey[e[2]]>> \in Relates[u]
  BY DEF EdgeUnits, EntityUnits
<1>8. \A e \in EdgeIds : \A u \in graph.edge[e] : u \in graph.ent[e[1]] /\ u \in graph.ent[e[2]]
  <2> TAKE e \in EdgeIds
  <2> TAKE u \in graph.edge[e]
  <2>1. e[1] \in Ids /\ e[2] \in Ids
    BY IdsOfEdges
  <2>2. CASE graph.edge[e] = EdgeUnits(e, live)
    <3>1. u \in EntityUnits(e[1], live) /\ u \in EntityUnits(e[2], live)
      BY <2>2 DEF EdgeUnits
    <3> QED
      BY <1>5, <2>1, <3>1
  <2>3. CASE graph.ent[e[1]] = EntityUnits(e[1], Units) /\ graph.ent[e[2]] = EntityUnits(e[2], Units)
    <3>1. u \in EdgeUnits(e, Units)
      BY <1>6
    <3>2. u \in EntityUnits(e[1], Units) /\ u \in EntityUnits(e[2], Units)
      BY <1>7, <3>1
    <3> QED
      BY <2>3, <3>2
  <2> QED
    BY <1>1, <2>2, <2>3 DEF OfBuilds
<1>9. live \subseteq vector.unit /\ Anchored(live, note.ent) /\ Anchored(Units, {})
  BY <1>1, <1>8 DEF OfBuilds, Anchored
<1>10. \A i \in Ids : \A u : u \in EntityUnits(i, live) => KeepsEntity(i, u)
  BY <1>5 DEF KeepsEntity, Keeps
<1>11. \A e \in EdgeIds : \A u : u \in EdgeUnits(e, live) => KeepsEdge(e, u)
  <2> TAKE e \in EdgeIds
  <2> TAKE u
  <2>1. u \in EdgeUnits(e, live) => Keeps(graph.edge, vector.edge, e, u)
    BY <1>6 DEF Keeps
  <2>2. u \in EdgeUnits(e, live) => u \in EntityUnits(e[1], live) /\ u \in EntityUnits(e[2], live)
    BY DEF EdgeUnits
  <2> QED
    BY <1>10, <2>1, <2>2, IdsOfEdges DEF KeepsEdge
<1>12. KeptBut({}, {})
  <2>1. ASSUME NEW u \in live, NEW k \in Mentions[u]
        PROVE  \E i \in Ids : NameKey[i] = k /\ u \in EntityUnits(i, live)
    <3>1. u \in Units /\ live \in SUBSET Units
      BY <1>1 DEF OfBuilds
    <3>2. PICK i \in Ids : NameKey[i] = k
      BY <2>1, <3>1, RemovalAssumption
    <3>3. LET j == Resolved[live][<<u, NameKey[i]>>] IN
          j \in Ids /\ NameKey[j] = NameKey[i] /\ u \in EntityUnits(j, live)
      BY <2>1, <3>1, <3>2, Resolves
    <3> QED
      BY <3>2, <3>3
  <2>2. ASSUME NEW u \in live, NEW p \in Relates[u]
        PROVE  \E e \in EdgeIds : <<NameKey[e[1]], NameKey[e[2]]>> = p /\ u \in EdgeUnits(e, live)
    <3>1. u \in Units
      BY <1>1 DEF OfBuilds
    <3>2. PICK k \in Mentions[u], l \in Mentions[u] : p = <<k, l>>
      BY <3>1, RemovalAssumption
    <3>3. PICK i \in Ids : NameKey[i] = k /\ u \in EntityUnits(i, live)
      BY <2>1
    <3>4. PICK j \in Ids : NameKey[j] = l /\ u \in EntityUnits(j, live)
      BY <2>1
    <3>5. <<i, j>> \in EdgeIds
      BY <3>1, <3>2, <3>3, <3>4 DEF EdgeIds
    <3>6. u \in EdgeUnits(<<i, j>>, live)
      BY <3>2, <3>3, <3>4 DEF EdgeUnits
    <3> QED
      BY <3>2, <3>3, <3>4, <3>5, <3>6
  <2>3. ASSUME NEW u \in live
        PROVE  /\ \A k \in Mentions[u] : MentionKept(u, k, {})
               /\ \A p \in Relates[u] : RelationKept(u, p, {}, {})
    BY <1>10, <1>11, <2>1, <2>2 DEF MentionKept, RelationKept
  <2> QED
    BY <2>3 DEF KeptBut
<1>13. Stored
  <2>1. Units \in SUBSET Units /\ live \subseteq Units /\ live \cup removing = Units
    BY <1>1 DEF OfBuilds
  <2>2. \A i \in Ids : graph.ent[i] \subseteq live \cup removing /\ Derives(graph.ent[i], i)
    BY <1>5, <2>1, UnitsOfEntity DEF Derives
  <2>3. \A e \in EdgeIds : \A u \in graph.edge[e] :
          /\ Derives({u}, e[1]) /\ Derives({u}, e[2]) /\ u \in live \cup removing
          /\ <<NameKey[e[1]], NameKey[e[2]]>> \in Relates[u]
    BY <1>6, <1>7, <2>1 DEF Derives
  <2>4. \A e \in EdgeIds : graph.edge[e] # {} => graph.ent[e[1]] # {} /\ graph.ent[e[2]] # {}
    BY <1>8
  <2> QED
    BY <2>2, <2>3, <2>4 DEF Stored
<1>14. Phases /\ ~Deleting
  BY <1>2 DEF Phases, FoundAll, Deriving, Stripping, KeptOrNew, SoFar, Retiring, Finished,
              Deleting, Writing, Finishing
<1> QED
  BY <1>9, <1>12, <1>13, <1>14 DEF Sound

-----------------------------------------------------------------------------
(* The theorems.                                                           *)

LEMMA InvInductive == Inv /\ Settles /\ [Next]_vars => Inv'
<1> SUFFICES ASSUME Inv, Settles, [Next]_vars
             PROVE  Inv'
  OBVIOUS
<1>1. Typed /\ Sound /\ Phases /\ Typed'
  BY TypedInductive DEF Inv
<1>2. CASE Next
  <2>1. remove_text_units => Sound' /\ Phases'
    BY <1>1, RemoveKeeps
  <2>2. DeleteVector => Sound' /\ Phases'
    BY <1>1, DeleteVectorKeeps
  <2>3. DeleteGraph => Sound' /\ Phases'
    BY <1>1, DeleteGraphKeeps
  <2>4. Derive => Sound' /\ Phases'
    BY <1>1, DeriveKeeps
  <2>5. NoteStrip => Sound' /\ Phases'
    BY <1>1, NoteKeeps
  <2>6. WriteGained => Sound' /\ Phases'
    BY <1>1, GainedKeeps
  <2>7. WriteEdges => Sound' /\ Phases'
    BY <1>1, EdgesKeeps
  <2>8. WriteVectorEdges => Sound' /\ Phases'
    BY <1>1, VectorEdgesKeeps
  <2>9. WriteKept => Sound' /\ Phases'
    BY <1>1, KeptKeeps
  <2>10. ClearNote \/ Record \/ Stop => Sound' /\ Phases'
    BY <1>1, EndKeeps
  <2> QED
    BY <1>1, <1>2, <2>1, <2>2, <2>3, <2>4, <2>5, <2>6, <2>7, <2>8, <2>9, <2>10 DEF Next, Inv
<1>3. CASE UNCHANGED vars
  <2>1. /\ live' = live /\ removing' = removing /\ graph' = graph /\ vector' = vector
        /\ note' = note /\ pc' = pc /\ job' = job
    BY <1>3 DEF vars
  <2>2. /\ \A u, k : MentionKept(u, k, {})' <=> MentionKept(u, k, {})
        /\ \A u, p : RelationKept(u, p, {}, {})' <=> RelationKept(u, p, {}, {})
        /\ \A u, k : MentionKept(u, k, job.ent)' <=> MentionKept(u, k, job.ent)
        /\ \A u, p : RelationKept(u, p, job.ent, job.edge)' <=> RelationKept(u, p, job.ent, job.edge)
    BY <2>1 DEF MentionKept, RelationKept, KeepsEdge, KeepsEntity, Keeps
  <2>3. Sound'
    <3>1. Stored'
      BY <1>1, <2>1 DEF Sound, Stored, Derives
    <3>2. KeptBut({}, {})' /\ (Deleting => KeptBut(job.ent, job.edge))'
      BY <1>1, <2>1, <2>2 DEF Sound, KeptBut, Deleting
    <3>3. /\ live' \subseteq vector'.unit /\ Anchored(live, note.ent)'
          /\ (removing \subseteq vector.unit => Anchored(Units, {}))'
      BY <1>1, <2>1 DEF Sound, Anchored
    <3> QED
      BY <3>1, <3>2, <3>3 DEF Sound
  <2>4. FoundAll' /\ Deriving' /\ Retiring' /\ Finished'
    BY <1>1, <2>1 DEF Phases, FoundAll, Deriving, Retiring, Finished, Deleting, Finishing,
                      Clean, Gone, Anchored
  <2>5. Stripping' /\ SoFar'
    BY <1>1, <2>1 DEF Phases, Stripping, SoFar, Writing, Noted, Clean, Gone
  <2>6. KeptOrNew'
    <3>1. KeptOrNew
      BY <1>1 DEF Phases
    <3>2. Writing' <=> Writing
      BY <2>1 DEF Writing
    <3> QED
      BY <2>1, <2>2, <3>1, <3>2 DEF KeptOrNew
  <2> QED
    BY <1>1, <2>3, <2>4, <2>5, <2>6 DEF Inv, Phases
<1> QED
  BY <1>2, <1>3

LEMMA InvImplies == Inv => KeptStatementsStored /\ NothingComesBack
<1> SUFFICES ASSUME Inv
             PROVE  KeptStatementsStored /\ NothingComesBack
  OBVIOUS
<1>1. Typed /\ Sound /\ Deriving
  BY DEF Inv, Phases
<1>2. KeptStatementsStored
  BY <1>1 DEF Sound, KeptBut, MentionKept, RelationKept, KeepsEdge, KeepsEntity, Keeps,
              KeptStatementsStored
<1>3. ASSUME pc = "derive"
      PROVE  ItemUnits \subseteq vector.unit \ removing
  <2>1. ItemUnits \subseteq live
    BY <1>1, <1>3, ItemsLive DEF Sound
  <2> QED
    BY <1>1, <2>1 DEF Sound, Typed, TypeOK
<1>4. NothingComesBack
  BY <1>3 DEF NothingComesBack, ItemUnits, Items
<1> QED
  BY <1>2, <1>4

\* If every derivation ends because a round brings nothing more (Settles), what
\* a live unit states is in the graph at every moment: between any two requests
\* of a removal, after a failure of any of them, and after a run that died
\* (removal.py: remove_text_units, _strip_shared, _write_stripped).
THEOREM StatementsStay == Spec /\ []Settles => []KeptStatementsStored
<1>1. Init => Inv
  BY InitTyped, InitSound DEF Inv
<1>2. Inv /\ Settles /\ [Next]_vars => Inv'
  BY InvInductive
<1>3. Inv => KeptStatementsStored
  BY InvImplies
<1> QED
  BY <1>1, <1>2, <1>3, PTL DEF Spec

\* Then, too, no item that a derivation draws in, under whatever name, id or
\* edge and after whatever earlier attempt, still cites a removed unit that is
\* not stripped from it (removal.py: _find_citing; cross_run_merge.py: derive).
THEOREM RemovedStaysRemoved == Spec /\ []Settles => []NothingComesBack
<1>1. Init => Inv
  BY InitTyped, InitSound DEF Inv
<1>2. Inv /\ Settles /\ [Next]_vars => Inv'
  BY InvInductive
<1>3. Inv => NothingComesBack
  BY InvImplies
<1> QED
  BY <1>1, <1>2, <1>3, PTL DEF Spec

-----------------------------------------------------------------------------
(* What a removal rebuilds: the invariant.                                 *)

\* The vector store's copies cite units there are, and its edges are of builds.
VectorStored ==
    /\ vector.unit \subseteq live \cup removing
    /\ \A i \in Ids : vector.ent[i] \subseteq live \cup removing
    /\ \A e \in EdgeIds :
         /\ vector.edge[e] \subseteq live \cup removing
         /\ \A u \in vector.edge[e] :
              /\ Derives({u}, e[1]) /\ Derives({u}, e[2])
              /\ <<NameKey[e[1]], NameKey[e[2]]>> \in Relates[u]

\* The copies of an entity cite the same live units in both stores, unless the
\* note says that a strip may have stopped between them.
Mirrored == \A i \in Ids \ note.ent : vector.ent[i] \cap live = graph.ent[i] \cap live

\* The entities of each name, but those noted, are of one build of the live
\* units and maybe others: some may lack a unit or be gone, none is of another.
OfBuild(k, g, noted, us) ==
    \A i \in Ids \ noted : NameKey[i] = k => g[i] \cap us = EntityUnits(i, us)
OfBuilt(g, noted, units) ==
    \A k \in {NameKey[i] : i \in Ids} :
        \E us \in SUBSET Units : units \subseteq us /\ OfBuild(k, g, noted, us)
Named == OfBuilt(graph.ent, note.ent, live)

VectorClean(ents, edges) ==
    Citing(vector.ent, removing) \subseteq ents /\ Citing(vector.edge, removing) \subseteq edges

\* Both stores have the entities of a build of the live units, but some that are
\* to be written and some that are to go.
Rebuilt(ents, gone) ==
    /\ \A i \in Ids \ (ents \cup gone) :
         graph.ent[i] = EntityUnits(i, live) /\ vector.ent[i] = EntityUnits(i, live)
    /\ \A i \in gone : EntityUnits(i, live) = {}

Emptied ==
    pc = "delete_graph" /\ job.ok =>
        /\ \A i \in job.ent : vector.ent[i] = {}
        /\ \A e \in job.edge : vector.edge[e] = {}

\* What goes at first has no live unit in either store, unless it is noted.
VectorFound ==
    Deleting /\ job.strip =>
        /\ VectorClean(job.ent \cup job.sharedEnt, job.edge \cup job.sharedEdge)
        /\ \A i \in job.ent \ note.ent :
             graph.ent[i] \cap live = {} /\ vector.ent[i] \cap live = {}

VectorDeriving ==
    pc = "derive" =>
        /\ VectorClean(job.sharedEnt, job.sharedEdge)
        /\ \A i \in note.ent \ job.sharedEnt : graph.ent[i] = {} /\ vector.ent[i] = {}

\* The entities of names that the derivation did not read are as a build has them.
Rewriting ==
    Writing =>
        /\ VectorClean(DOMAIN job.newEnt \cup job.ent, DOMAIN job.newEdge \cup job.edge)
        /\ Rebuilt(DOMAIN job.newEnt, job.ent)
        /\ job.ent \cap Held(graph.ent) \subseteq Noted

Leaving ==
    Deleting /\ ~job.strip =>
        /\ VectorClean(job.ent, job.edge) /\ Rebuilt({}, job.ent)
        /\ job.ent \cap Held(graph.ent) \subseteq note.ent

Complete ==
    /\ Finishing => VectorClean({}, {}) /\ Gone(removing)
    /\ Finishing \/ removing = {} => Rebuilt({}, {})

Copied == VectorStored /\ Mirrored /\ Named
Stages == VectorFound /\ Emptied /\ VectorDeriving /\ Rewriting /\ Leaving /\ Complete
Rebuilding == Copied /\ Stages

-----------------------------------------------------------------------------
(* The entities of a name.                                                 *)

\* The units of a build that state an entity's name are each of one entity.
LEMMA OneEntity ==
  ASSUME NEW us, NEW i, NEW j, NameKey[i] = NameKey[j],
         NEW u \in EntityUnits(i, us), u \in EntityUnits(j, us)
  PROVE  i = j
BY DEF EntityUnits

LEMMA OfLive ==
  ASSUME NEW g, NEW noted, NEW units \in SUBSET Units,
         \A i \in Ids \ noted : g[i] \cap units = EntityUnits(i, units)
  PROVE  OfBuilt(g, noted, units)
BY DEF OfBuilt, OfBuild

\* Where entities of a name go whole, or were not there, the others are of the
\* build of the units left.
LEMMA WithoutGone ==
  ASSUME NEW g \in [Ids -> SUBSET Units], NEW h \in [Ids -> SUBSET Units], NEW noted,
         NEW units \in SUBSET Units, OfBuilt(g, noted, units),
         \A i \in Ids \ noted : h[i] = g[i] \/ (h[i] = {} /\ g[i] \cap units = {})
  PROVE  OfBuilt(h, noted, units)
<1> SUFFICES ASSUME NEW k \in {NameKey[i] : i \in Ids}
             PROVE  \E us \in SUBSET Units : units \subseteq us /\ OfBuild(k, h, noted, us)
  BY DEF OfBuilt
<1>1. PICK us \in SUBSET Units : units \subseteq us /\ OfBuild(k, g, noted, us)
  BY DEF OfBuilt
<1>2. \A i \in Ids \ noted : NameKey[i] = k => g[i] \cap us = EntityUnits(i, us)
  BY <1>1 DEF OfBuild
<1> DEFINE Dropped == {i \in Ids \ noted : NameKey[i] = k /\ h[i] # g[i]}
           left == {u \in us : \A i \in Dropped : u \notin EntityUnits(i, us)}
<1>3. \A i \in Dropped : h[i] = {} /\ g[i] \cap units = {} /\ EntityUnits(i, us) \cap units = {}
  BY <1>1, <1>2
<1>4. units \subseteq left /\ left \in SUBSET Units /\ left \in SUBSET us
  BY <1>1, <1>3
<1>5. \A j \in Ids : NameKey[j] = k =>
        EntityUnits(j, us) \subseteq left \/ EntityUnits(j, us) \cap left = {}
  <2> TAKE j \in Ids
  <2> HAVE NameKey[j] = k
  <2>1. CASE j \in Dropped
    BY <2>1
  <2>2. CASE j \notin Dropped
    <3>1. \A i \in Dropped : EntityUnits(i, us) \cap EntityUnits(j, us) = {}
      BY <2>2, OneEntity
    <3> QED
      BY <3>1, UnitsOfEntity
  <2> QED
    BY <2>1, <2>2
<1>6. \A j \in Ids : NameKey[j] = k => EntityUnits(j, left) = EntityUnits(j, us) \cap left
  <2> HIDE DEF left
  <2> TAKE j \in Ids
  <2> HAVE NameKey[j] = k
  <2>1. \A l \in Ids : NameKey[l] = NameKey[j] =>
          EntityUnits(l, us) \subseteq left \/ EntityUnits(l, us) \cap left = {}
    BY <1>5
  <2> QED
    BY <1>4, <2>1, Whole
<1>7. ASSUME NEW i \in Ids \ noted, NameKey[i] = k
      PROVE  h[i] \cap left = EntityUnits(i, left)
  <2>1. EntityUnits(i, left) = EntityUnits(i, us) \cap left
    BY <1>6, <1>7
  <2>2. CASE i \in Dropped
    <3>1. h[i] = {} /\ EntityUnits(i, us) \cap left = {}
      BY <1>3, <2>2
    <3> QED
      BY <2>1, <3>1
  <2>3. CASE i \notin Dropped
    <3>1. h[i] = g[i] /\ g[i] \cap us = EntityUnits(i, us)
      BY <1>2, <1>7, <2>3
    <3> HIDE DEF left
    <3> QED
      BY <1>4, <2>1, <3>1
  <2> QED
    BY <2>2, <2>3
<1> HIDE DEF left
<1> QED
  BY <1>4, <1>7 DEF OfBuild

\* A name whose stored entities are neither noted nor cite a unit that goes is
\* as a build of the other units has it.
LEMMA Untouched ==
  ASSUME NEW g \in [Ids -> SUBSET Units], NEW noted, NEW units \in SUBSET Units,
         OfBuilt(g, noted, units), NEW n \in Ids,
         \A i \in Ids : NameKey[i] = NameKey[n] /\ g[i] # {} =>
           i \notin noted /\ g[i] \subseteq units,
         \A u \in units : NameKey[n] \in Mentions[u] =>
           \E i \in Ids : NameKey[i] = NameKey[n] /\ u \in g[i]
  PROVE  g[n] = EntityUnits(n, units)
<1> DEFINE k == NameKey[n]
<1> k \in {NameKey[i] : i \in Ids}
  OBVIOUS
<1>1. PICK us \in SUBSET Units : units \subseteq us /\ OfBuild(k, g, noted, us)
  BY DEF OfBuilt
<1>2. \A i \in Ids \ noted : NameKey[i] = k => g[i] \cap us = EntityUnits(i, us)
  BY <1>1 DEF OfBuild
<1>3. ASSUME NEW i \in Ids, NameKey[i] = k, g[i] = {}
      PROVE  EntityUnits(i, us) \cap units = {}
  <2>1. SUFFICES ASSUME NEW u \in EntityUnits(i, us) \cap units
                 PROVE  FALSE
    OBVIOUS
  <2>2. k \in Mentions[u]
    BY <1>3 DEF EntityUnits
  <2>3. PICK j \in Ids : NameKey[j] = k /\ u \in g[j]
    BY <2>2
  <2>4. u \in EntityUnits(j, us)
    BY <1>1, <1>2, <2>3
  <2>5. i = j
    BY <1>3, <2>3, <2>4, OneEntity
  <2> QED
    BY <1>3, <2>3, <2>5
<1>4. ASSUME NEW i \in Ids, NameKey[i] = k, g[i] # {}
      PROVE  EntityUnits(i, us) = g[i] /\ g[i] \subseteq units
  BY <1>1, <1>2, <1>4
<1>5. \A i \in Ids : NameKey[i] = k =>
        EntityUnits(i, us) \subseteq units \/ EntityUnits(i, us) \cap units = {}
  BY <1>3, <1>4
<1>6. \A i \in Ids : NameKey[i] = k => EntityUnits(i, units) = EntityUnits(i, us) \cap units
  BY <1>1, <1>5, Whole
<1>7. CASE g[n] = {}
  BY <1>3, <1>6, <1>7
<1>8. CASE g[n] # {}
  BY <1>4, <1>6, <1>8
<1> QED
  BY <1>7, <1>8
-----------------------------------------------------------------------------
(* Every step keeps it.                                                    *)

LEMMA RemoveRebuilds ==
  ASSUME Typed, Rebuilding, remove_text_units
  PROVE  Rebuilding'
<1>1. /\ pc = "idle" /\ pc' = "delete_vector"
      /\ graph' = graph /\ vector' = vector /\ note' = note
      /\ live' \subseteq live /\ removing' # {}
      /\ live \cup removing = live' \cup removing' /\ live' \cap removing' = {}
      /\ job'.ent = Exclusive(CitedEntities(removing'), removing')
      /\ job'.edge = Exclusive(CitedEdges(removing'), removing')
      /\ job'.sharedEnt = (Shared(CitedEntities(removing'), removing') \cup note.ent) \ job'.ent
      /\ job'.sharedEdge = (Shared(CitedEdges(removing'), removing') \cup note.edge) \ job'.edge
      /\ job'.strip = TRUE
  BY RemoveEffect
<1>2. /\ graph.ent \in [Ids -> SUBSET Units] /\ vector.ent \in [Ids -> SUBSET Units]
      /\ VectorStored /\ Mirrored /\ Named
  BY DEF Typed, TypeOK, Rebuilding, Copied
<1>3. VectorStored'
  <2>1. \A e \in EdgeIds :
          /\ vector.edge[e] \subseteq live \cup removing
          /\ \A u \in vector.edge[e] :
               /\ Derives({u}, e[1]) /\ Derives({u}, e[2])
               /\ <<NameKey[e[1]], NameKey[e[2]]>> \in Relates[u]
    BY <1>2 DEF VectorStored
  <2>2. \A e \in EdgeIds : \A u \in vector.edge[e] : Derives({u}, e[1])' /\ Derives({u}, e[2])'
    BY <1>1, <2>1 DEF Derives
  <2>3. /\ vector.unit \subseteq live' \cup removing'
        /\ \A i \in Ids : vector.ent[i] \subseteq live' \cup removing'
    BY <1>1, <1>2 DEF VectorStored
  <2> QED
    BY <1>1, <2>1, <2>2, <2>3 DEF VectorStored
<1>4. \A i \in Ids \ note.ent : vector.ent[i] \cap live' = graph.ent[i] \cap live'
  <2> TAKE i \in Ids \ note.ent
  <2>1. vector.ent[i] \cap live = graph.ent[i] \cap live
    BY <1>2 DEF Mirrored
  <2> QED
    BY <1>1, <2>1
<1>5. Named'
  <2>1. OfBuilt(graph.ent, note.ent, live')
    <3>1. OfBuilt(graph.ent, note.ent, live)
      BY <1>2 DEF Named
    <3> QED
      BY <1>1, <3>1 DEF OfBuilt
  <2> QED
    BY <1>1, <2>1 DEF Named
<1>6. VectorClean(job.ent \cup job.sharedEnt, job.edge \cup job.sharedEdge)'
  <2>1. /\ Citing(vector.ent, removing') \subseteq DOMAIN CitedEntities(removing')
        /\ Citing(vector.edge, removing') \subseteq DOMAIN CitedEdges(removing')
    BY DEF CitedEntities, CitedEdges, Found
  <2>2. /\ DOMAIN CitedEntities(removing') \subseteq job'.ent \cup job'.sharedEnt
        /\ DOMAIN CitedEdges(removing') \subseteq job'.edge \cup job'.sharedEdge
    BY <1>1 DEF Shared
  <2> QED
    BY <1>1, <2>1, <2>2 DEF VectorClean
<1>7. ASSUME NEW i \in job'.ent \ note.ent
      PROVE  graph.ent[i] \cap live' = {} /\ vector.ent[i] \cap live' = {}
  <2>1. i \in Ids
    BY <1>1, <1>2 DEF Exclusive, CitedEntities, Found, Citing
  <2>2. graph.ent[i] \subseteq removing' \/ vector.ent[i] \subseteq removing'
    BY <1>1 DEF Exclusive, CitedEntities, Found
  <2>3. vector.ent[i] \cap live' = graph.ent[i] \cap live'
    BY <1>4, <2>1
  <2>4. graph.ent[i] \cap live' = {} \/ vector.ent[i] \cap live' = {}
    BY <1>1, <2>2
  <2> QED
    BY <2>3, <2>4
<1>8. VectorFound'
  BY <1>1, <1>6, <1>7 DEF VectorFound
<1>9. Emptied' /\ VectorDeriving' /\ Rewriting' /\ Leaving' /\ Complete'
  BY <1>1 DEF Emptied, VectorDeriving, Rewriting, Leaving, Complete, Writing, Finishing
<1>10. Mirrored'
  BY <1>1, <1>4 DEF Mirrored
<1> QED
  BY <1>3, <1>5, <1>8, <1>9, <1>10 DEF Rebuilding, Copied, Stages

LEMMA DeleteVectorRebuilds ==
  ASSUME Typed, Rebuilding, DeleteVector
  PROVE  Rebuilding'
<1>1. /\ pc = "delete_vector" /\ pc' = "delete_graph"
      /\ live' = live /\ removing' = removing /\ graph' = graph /\ note' = note
      /\ vector'.unit \subseteq vector.unit
      /\ \A i \in Ids : \/ vector'.ent[i] = vector.ent[i]
                        \/ i \in job.ent /\ vector'.ent[i] = {}
      /\ \A e \in EdgeIds : vector'.edge[e] \in {vector.edge[e], {}}
      /\ job'.ok => /\ \A i \in job.ent : vector'.ent[i] = {}
                    /\ \A e \in job.edge : vector'.edge[e] = {}
      /\ vector'.ent \in [Ids -> SUBSET Units] /\ vector'.edge \in [EdgeIds -> SUBSET Units]
  BY DeleteVectorEffect
<1>2. /\ job'.ent = job.ent /\ job'.edge = job.edge /\ job'.strip = job.strip
      /\ job'.sharedEnt = job.sharedEnt /\ job'.sharedEdge = job.sharedEdge
      /\ job.strip \in BOOLEAN
  BY DeleteVectorEffect DEF Typed, Shaped
<1>3. /\ graph.ent \in [Ids -> SUBSET Units]
      /\ vector.ent \in [Ids -> SUBSET Units] /\ vector.edge \in [EdgeIds -> SUBSET Units]
      /\ removing # {}
      /\ VectorStored /\ Mirrored /\ Named /\ VectorFound /\ Leaving
  BY <1>1 DEF Typed, TypeOK, Rebuilding, Copied, Stages
<1>4. VectorStored'
  <2>1. /\ \A i \in Ids : vector'.ent[i] \subseteq vector.ent[i]
        /\ \A e \in EdgeIds : vector'.edge[e] \subseteq vector.edge[e]
    BY <1>1
  <2>2. \A u, i : Derives({u}, i)' <=> Derives({u}, i)
    BY <1>1 DEF Derives
  <2> QED
    BY <1>1, <1>3, <2>1, <2>2 DEF VectorStored
<1>5. ASSUME NEW i \in job.ent \ note.ent
      PROVE  graph.ent[i] \cap live = {}
  <2>1. CASE job.strip
    BY <1>1, <1>3, <2>1 DEF VectorFound, Deleting
  <2>2. CASE ~job.strip
    <3>1. i \in Ids
      BY DEF Typed, Shaped
    <3>2. i \notin Held(graph.ent)
      BY <1>1, <1>3, <2>2 DEF Leaving, Deleting
    <3> QED
      BY <1>3, <3>1, <3>2 DEF Held
  <2> QED
    BY <1>2, <2>1, <2>2
<1>6. Mirrored'
  <2>1. \A i \in Ids \ note.ent : vector'.ent[i] \cap live = graph.ent[i] \cap live
    BY <1>1, <1>3, <1>5 DEF Mirrored
  <2> QED
    BY <1>1, <2>1 DEF Mirrored
<1>7. Named'
  BY <1>1, <1>3 DEF Named
<1>8. \A ents, edges : VectorClean(ents, edges) => VectorClean(ents, edges)'
  BY <1>1, <1>3 DEF VectorClean, Citing
<1>9. VectorFound'
  <2>1. \A i \in job.ent \ note.ent : job.strip =>
          graph.ent[i] \cap live = {} /\ vector'.ent[i] \cap live = {}
    <3> TAKE i \in job.ent \ note.ent
    <3> HAVE job.strip
    <3>1. graph.ent[i] \cap live = {} /\ vector.ent[i] \cap live = {} /\ i \in Ids
      BY <1>1, <1>3 DEF VectorFound, Deleting, Typed, Shaped
    <3> QED
      BY <1>1, <3>1
  <2>2. job.strip => VectorClean(job.ent \cup job.sharedEnt, job.edge \cup job.sharedEdge)
    BY <1>1, <1>3 DEF VectorFound, Deleting
  <2>3. job.strip => VectorClean(job.ent \cup job.sharedEnt, job.edge \cup job.sharedEdge)'
    BY <1>1, <1>2, <1>8, <2>2 DEF VectorClean
  <2> QED
    BY <1>1, <1>2, <2>1, <2>3 DEF VectorFound
<1>10. Leaving'
  <2>1. ~job.strip => /\ VectorClean(job.ent, job.edge) /\ Rebuilt({}, job.ent)
                      /\ job.ent \cap Held(graph.ent) \subseteq note.ent
    BY <1>1, <1>3 DEF Leaving, Deleting
  <2>2. ~job.strip => VectorClean(job.ent, job.edge)'
    BY <1>1, <1>2, <1>8, <2>1 DEF VectorClean
  <2>3. ~job.strip => Rebuilt({}, job.ent)'
    BY <1>1, <1>2, <2>1 DEF Rebuilt
  <2> QED
    BY <1>1, <1>2, <2>1, <2>2, <2>3 DEF Leaving
<1>11. Emptied'
  BY <1>1, <1>2 DEF Emptied
<1>12. VectorDeriving' /\ Rewriting' /\ Complete'
  BY <1>1, <1>3 DEF VectorDeriving, Rewriting, Complete, Writing, Finishing
<1> QED
  BY <1>4, <1>6, <1>7, <1>9, <1>10, <1>11, <1>12 DEF Rebuilding, Copied, Stages

LEMMA DeleteGraphRebuilds ==
  ASSUME Typed, Sound, Phases, Rebuilding, Sound', Phases', DeleteGraph
  PROVE  Rebuilding'
<1>1. /\ pc = "delete_graph"
      /\ live' = live /\ removing' = removing /\ vector' = vector /\ note' = note
      /\ graph'.ent \in [Ids -> SUBSET Units]
      /\ \A i \in Ids : \/ graph'.ent[i] = graph.ent[i]
                        \/ i \in job.ent /\ graph'.ent[i] = {}
      /\ \/ pc' = "idle" /\ job' = NoJob
         \/ /\ job.ok /\ job' = [job EXCEPT !.ok = TRUE]
            /\ pc' = IF job.strip /\ job.sharedEnt \cup job.sharedEdge # {}
                     THEN "derive" ELSE "finish"
            /\ \A i \in job.ent : graph'.ent[i] = {}
            /\ \A e \in job.edge : graph'.edge[e] = {}
  BY DeleteGraphEffect
<1>2. /\ graph.ent \in [Ids -> SUBSET Units] /\ vector.ent \in [Ids -> SUBSET Units]
      /\ vector.edge \in [EdgeIds -> SUBSET Units]
      /\ live \subseteq Units /\ removing # {} /\ job.ent \subseteq Ids
      /\ VectorStored /\ Mirrored /\ Named /\ VectorFound /\ Emptied /\ Leaving
  BY <1>1 DEF Typed, TypeOK, Shaped, Rebuilding, Copied, Stages
<1>3. pc' # "idle" => /\ job'.sharedEnt = job.sharedEnt /\ job'.sharedEdge = job.sharedEdge
                      /\ job.ok /\ \A i \in job.ent : graph'.ent[i] = {}
                      /\ \A i \in job.ent : vector.ent[i] = {}
                      /\ \A e \in job.edge : vector.edge[e] = {}
  <2>1. job.ok => /\ \A i \in job.ent : vector.ent[i] = {}
                  /\ \A e \in job.edge : vector.edge[e] = {}
    BY <1>1, <1>2 DEF Emptied
  <2>2. \A b : job' = [job EXCEPT !.ok = b] =>
          job'.sharedEnt = job.sharedEnt /\ job'.sharedEdge = job.sharedEdge
    BY DEF Typed, Shaped
  <2> QED
    BY <1>1, <2>1, <2>2
<1>4. VectorStored'
  <2>1. \A u, i : Derives({u}, i)' <=> Derives({u}, i)
    BY <1>1 DEF Derives
  <2> QED
    BY <1>1, <1>2, <2>1 DEF VectorStored
<1>5. \A i \in Ids \ note.ent :
        \/ graph'.ent[i] = graph.ent[i]
        \/ graph'.ent[i] = {} /\ graph.ent[i] \cap live = {}
  <2> TAKE i \in Ids \ note.ent
  <2>1. i \in job.ent => graph.ent[i] \cap live = {}
    <3>1. CASE job.strip
      BY <1>1, <1>2, <3>1 DEF VectorFound, Deleting
    <3>2. CASE ~job.strip
      BY <1>1, <1>2, <3>2 DEF Leaving, Deleting, Held
    <3> QED
      BY <3>1, <3>2
  <2> QED
    BY <1>1, <2>1
<1>6. \A i \in Ids \ note.ent : vector.ent[i] \cap live = graph'.ent[i] \cap live
  BY <1>2, <1>5 DEF Mirrored
<1>7. Named'
  <2>1. OfBuilt(graph.ent, note.ent, live)
    BY <1>2 DEF Named
  <2>2. OfBuilt(graph'.ent, note.ent, live)
    BY <1>1, <1>2, <1>5, <2>1, WithoutGone
  <2> QED
    BY <1>1, <2>2 DEF Named
<1>8. ASSUME job.strip, pc' # "idle"
      PROVE  /\ Citing(vector.ent, removing) \subseteq job.sharedEnt
             /\ Citing(vector.edge, removing) \subseteq job.sharedEdge
             /\ note.ent \subseteq job.ent \cup job.sharedEnt /\ Gone(removing)
  <2>1. VectorClean(job.ent \cup job.sharedEnt, job.edge \cup job.sharedEdge)
    BY <1>1, <1>2, <1>8 DEF VectorFound, Deleting
  <2>2. note.ent \subseteq job.ent \cup job.sharedEnt /\ Gone(removing)
    BY <1>1, <1>3, <1>8 DEF Phases, FoundAll, Deleting
  <2> QED
    BY <1>3, <1>8, <2>1, <2>2 DEF VectorClean, Citing
<1>9. VectorDeriving'
  <2>1. SUFFICES ASSUME pc' = "derive"
                 PROVE  /\ VectorClean(job.sharedEnt, job.sharedEdge)'
                        /\ \A i \in note.ent \ job.sharedEnt :
                             graph'.ent[i] = {} /\ vector.ent[i] = {}
    BY <1>1, <1>3 DEF VectorDeriving
  <2>2. job.strip
    BY <1>1, <2>1
  <2>3. VectorClean(job.sharedEnt, job.sharedEdge)'
    BY <1>1, <1>3, <1>8, <2>1, <2>2 DEF VectorClean
  <2> QED
    BY <1>3, <1>8, <2>1, <2>2, <2>3
<1>10. ASSUME pc' = "finish", ~job.strip
       PROVE  VectorClean({}, {})' /\ Gone(removing)' /\ Rebuilt({}, {})'
  <2>1. VectorClean(job.ent, job.edge) /\ Rebuilt({}, job.ent)
    BY <1>1, <1>2, <1>10 DEF Leaving, Deleting
  <2>2. Gone(removing)
    BY <1>1, <1>10 DEF Phases, Retiring, Deleting
  <2>3. VectorClean({}, {})'
    BY <1>1, <1>3, <1>10, <2>1 DEF VectorClean, Citing
  <2>4. \A i \in Ids :
          graph'.ent[i] = EntityUnits(i, live) /\ vector.ent[i] = EntityUnits(i, live)
    BY <1>1, <1>3, <1>10, <2>1 DEF Rebuilt
  <2> QED
    BY <1>1, <2>2, <2>3, <2>4 DEF Rebuilt, Gone
<1>11. ASSUME pc' = "finish", job.strip
       PROVE  VectorClean({}, {})' /\ Gone(removing)' /\ Rebuilt({}, {})'
  <2>1. job.sharedEnt = {} /\ job.sharedEdge = {}
    BY <1>1, <1>11
  <2>2. /\ Citing(vector.ent, removing) = {} /\ Citing(vector.edge, removing) = {}
        /\ note.ent \subseteq job.ent /\ Gone(removing)
    BY <1>8, <1>11, <2>1
  <2>3. \A j \in Ids : graph'.ent[j] \subseteq live
    <3>1. \A j \in Ids : graph'.ent[j] \subseteq live \cup removing
      BY <1>1 DEF Sound, Stored
    <3>2. Citing(graph'.ent, removing) = {}
      BY <1>1, <1>11 DEF Phases, Finished, Finishing, Clean
    <3> QED
      BY <1>1, <3>1, <3>2 DEF Citing
  <2>4. \A u \in live : \A k \in Mentions[u] :
          \E i \in Ids : NameKey[i] = k /\ u \in graph'.ent[i]
    BY <1>1 DEF Sound, KeptBut, MentionKept, KeepsEntity, Keeps
  <2>5. ASSUME NEW i \in Ids
        PROVE  graph'.ent[i] = EntityUnits(i, live)
    <3>1. \A j \in Ids : NameKey[j] = NameKey[i] /\ graph'.ent[j] # {} =>
            j \notin note.ent /\ graph'.ent[j] \subseteq live
      BY <1>3, <1>11, <2>2, <2>3
    <3>2. OfBuilt(graph'.ent, note.ent, live)
      BY <1>1, <1>7 DEF Named
    <3>3. \A u \in live : NameKey[i] \in Mentions[u] =>
            \E j \in Ids : NameKey[j] = NameKey[i] /\ u \in graph'.ent[j]
      BY <2>4
    <3> QED
      BY <1>1, <1>2, <3>1, <3>2, <3>3, Untouched
  <2>6. ASSUME NEW i \in Ids
        PROVE  vector.ent[i] = graph'.ent[i]
    <3>1. CASE i \in note.ent
      BY <1>3, <1>11, <2>2, <3>1
    <3>2. CASE i \notin note.ent
      <4>1. vector.ent[i] \subseteq live
        BY <1>2, <2>2 DEF VectorStored, Citing
      <4> QED
        BY <1>6, <2>3, <3>2, <4>1
    <3> QED
      BY <3>1, <3>2
  <2> QED
    BY <1>1, <2>2, <2>5, <2>6 DEF VectorClean, Rebuilt, Gone
<1>12. Complete'
  BY <1>1, <1>2, <1>10, <1>11 DEF Complete, Finishing, Typed, Shaped
<1>13. VectorFound' /\ Emptied' /\ Rewriting' /\ Leaving'
  BY <1>1 DEF VectorFound, Emptied, Rewriting, Leaving, Deleting, Writing
<1>14. Mirrored'
  BY <1>1, <1>6 DEF Mirrored
<1> QED
  BY <1>4, <1>7, <1>9, <1>12, <1>13, <1>14 DEF Rebuilding, Copied, Stages

\* What the derivation decides of the entities of a build: those of the names it
\* read are written or go, the others are as a build has them.
LEMMA DerivedNames ==
  ASSUME Typed, Sound, Deriving, Settles, Named, pc = "derive", NEW i \in Ids
  PROVE  /\ i \notin NewEntities =>
              EntityUnits(i, live) = {} \/ (i \notin Items.ent /\ graph.ent[i] = EntityUnits(i, live))
         /\ i \notin NewEntities \cup Items.ent => graph.ent[i] = EntityUnits(i, live)
<1>1. /\ graph.ent \in [Ids -> SUBSET Units] /\ live \in SUBSET Units
      /\ Stored /\ KeptBut({}, {}) /\ OfBuilt(graph.ent, note.ent, live)
      /\ Clean(job.sharedEnt, job.sharedEdge) /\ note.ent \cap Held(graph.ent) \subseteq job.sharedEnt
  BY DEF Typed, TypeOK, Sound, Deriving, Named
<1>2. \A j \in Items.ent : \A l \in Held(graph.ent) : NameKey[l] = NameKey[j] => l \in Items.ent
  BY ItemsSettled
<1>3. job.sharedEnt \cap Held(graph.ent) \subseteq Items.ent
  <2>1. job.sharedEnt \cap Held(graph.ent) \subseteq ReadShared.ent
    BY DEF ReadShared
  <2> QED
    BY <2>1, ItemsHeld
<1>4. \A u \in live : NameKey[i] \in Mentions[u] =>
        \E j \in Ids : NameKey[j] = NameKey[i] /\ u \in graph.ent[j]
  BY <1>1 DEF KeptBut, MentionKept, KeepsEntity, Keeps
<1>5. CASE \E j \in Items.ent : NameKey[j] = NameKey[i]
  <2>1. PICK j \in Items.ent : NameKey[j] = NameKey[i]
    BY <1>5
  <2>2. ASSUME i \notin NewEntities
        PROVE  EntityUnits(i, live) = {}
    <3>1. SUFFICES ASSUME NEW u \in EntityUnits(i, live)
                   PROVE  FALSE
      OBVIOUS
    <3>2. u \in live /\ NameKey[i] \in Mentions[u]
      BY DEF EntityUnits
    <3>3. PICK l \in Ids : NameKey[l] = NameKey[i] /\ u \in graph.ent[l]
      BY <1>4, <3>2
    <3>4. l \in Items.ent
      BY <1>1, <1>2, <2>1, <3>3 DEF Held
    <3>5. /\ NewId(l) \in NewEntities /\ NameKey[NewId(l)] = NameKey[l]
          /\ u \in EntityUnits(NewId(l), live)
      BY <1>1, <3>2, <3>3, <3>4, Follows
    <3>6. NewId(l) = i
      BY <3>3, <3>5, OneEntity
    <3> QED
      BY <2>2, <3>5, <3>6
  <2>3. ASSUME i \notin Items.ent
        PROVE  graph.ent[i] = {}
    BY <1>1, <1>2, <2>1, <2>3 DEF Held
  <2> QED
    BY <2>2, <2>3
<1>6. CASE \A j \in Items.ent : NameKey[j] # NameKey[i]
  <2>1. \A j \in Ids : NameKey[j] = NameKey[i] /\ graph.ent[j] # {} =>
          j \notin note.ent /\ graph.ent[j] \subseteq live
    <3> TAKE j \in Ids
    <3> HAVE NameKey[j] = NameKey[i] /\ graph.ent[j] # {}
    <3>1. j \in Held(graph.ent) /\ j \notin Items.ent
      BY <1>1, <1>6 DEF Held
    <3>2. j \notin job.sharedEnt
      BY <1>3, <3>1
    <3>3. graph.ent[j] \subseteq live \cup removing /\ graph.ent[j] \cap removing = {}
      BY <1>1, <3>2 DEF Stored, Clean, Citing
    <3> QED
      BY <1>1, <3>1, <3>2, <3>3
  <2>2. graph.ent[i] = EntityUnits(i, live)
    BY <1>1, <1>4, <2>1, Untouched
  <2> QED
    BY <1>6, <2>2
<1> QED
  BY <1>5, <1>6

LEMMA DeriveRebuilds ==
  ASSUME Typed, Sound, Phases, Settles, Rebuilding, Derive
  PROVE  Rebuilding'
<1>1. /\ pc = "derive" /\ pc' = "note"
      /\ live' = live /\ removing' = removing /\ removing # {}
      /\ graph' = graph /\ vector' = vector /\ note' = note
      /\ DOMAIN job'.newEnt = NewEntities /\ DOMAIN job'.newEdge = NewEdges
      /\ job'.ent = (Items.ent \ NewEntities)
                      \cup (job.sharedEnt \ (ReadShared.ent \cup NewEntities))
      /\ job'.edge = (Items.edge \ NewEdges)
                      \cup (job.sharedEdge \ (ReadShared.edge \cup NewEdges))
      /\ Items.ent \ NewEntities \subseteq job'.noting.ent
  <2>1. removing # {}
    BY DEF Derive, Typed, TypeOK
  <2> QED
    BY <2>1, DeriveEffect
<1>2. /\ graph.ent \in [Ids -> SUBSET Units] /\ vector.ent \in [Ids -> SUBSET Units]
      /\ Copied /\ Deriving /\ Stored
      /\ VectorClean(job.sharedEnt, job.sharedEdge) /\ Clean(job.sharedEnt, job.sharedEdge)
      /\ \A i \in note.ent \ job.sharedEnt : graph.ent[i] = {} /\ vector.ent[i] = {}
      /\ Items.ent \subseteq Ids /\ job.sharedEnt \subseteq Ids
      /\ ReadShared.ent \subseteq Items.ent /\ ReadShared.edge \subseteq Items.edge
  <2>1. Items.ent \subseteq Ids /\ ReadShared.ent \subseteq Items.ent
          /\ ReadShared.edge \subseteq Items.edge
    BY ItemsHeld
  <2> QED
    BY <1>1, <2>1 DEF Typed, TypeOK, Shaped, Sound, Phases, Deriving, Rebuilding, Stages,
       VectorDeriving
<1>3. /\ job.sharedEnt \subseteq NewEntities \cup job'.ent
      /\ job.sharedEdge \subseteq NewEdges \cup job'.edge
  BY <1>1, <1>2
<1>4. /\ Citing(vector.ent, removing) \subseteq NewEntities \cup job'.ent
      /\ Citing(vector.edge, removing) \subseteq NewEdges \cup job'.edge
  BY <1>2, <1>3 DEF VectorClean
<1>5. \A i \in job.sharedEnt \ ReadShared.ent : graph.ent[i] = {}
  BY <1>2 DEF ReadShared, Held
<1>6. ASSUME NEW i \in Ids
      PROVE  /\ i \notin NewEntities =>
                  EntityUnits(i, live) = {} \/ (i \notin Items.ent /\ graph.ent[i] = EntityUnits(i, live))
             /\ i \notin NewEntities \cup Items.ent => graph.ent[i] = EntityUnits(i, live)
  BY <1>1, <1>2, DerivedNames DEF Copied
<1>7. ASSUME NEW i \in Ids, i \notin NewEntities \cup job'.ent
      PROVE  graph.ent[i] = EntityUnits(i, live) /\ vector.ent[i] = EntityUnits(i, live)
  <2>1. i \notin Items.ent /\ i \notin job.sharedEnt
    BY <1>1, <1>3, <1>7
  <2>2. graph.ent[i] = EntityUnits(i, live)
    BY <1>6, <1>7, <2>1
  <2>3. vector.ent[i] = graph.ent[i]
    <3>1. CASE i \in note.ent
      BY <1>2, <2>1, <3>1
    <3>2. CASE i \notin note.ent
      <4>1. vector.ent[i] \cap live = graph.ent[i] \cap live
        BY <1>2, <3>2 DEF Copied, Mirrored
      <4>2. vector.ent[i] \cap removing = {} /\ graph.ent[i] \cap removing = {}
        BY <1>2, <2>1 DEF VectorClean, Clean, Citing
      <4>3. vector.ent[i] \subseteq live \cup removing /\ graph.ent[i] \subseteq live \cup removing
        BY <1>2 DEF Copied, VectorStored, Stored
      <4> QED
        BY <4>1, <4>2, <4>3
    <3> QED
      BY <3>1, <3>2
  <2> QED
    BY <2>2, <2>3
<1>8. ASSUME NEW i \in job'.ent
      PROVE  EntityUnits(i, live) = {}
  <2>1. i \in Ids /\ i \notin NewEntities
    BY <1>1, <1>2
  <2>2. CASE i \in Items.ent
    BY <1>6, <2>1, <2>2
  <2>3. CASE i \notin Items.ent
    BY <1>1, <1>5, <1>6, <2>1, <2>3
  <2> QED
    BY <2>2, <2>3
<1>9. job'.ent \cap Held(graph.ent) \subseteq job'.noting.ent
  BY <1>1, <1>5 DEF Held
<1>10. Rewriting'
  <2>1. VectorClean(DOMAIN job.newEnt \cup job.ent, DOMAIN job.newEdge \cup job.edge)'
    BY <1>1, <1>4 DEF VectorClean
  <2>2. Rebuilt(DOMAIN job.newEnt, job.ent)'
    BY <1>1, <1>7, <1>8 DEF Rebuilt
  <2>3. (job.ent \cap Held(graph.ent) \subseteq Noted)'
    BY <1>1, <1>9 DEF Noted
  <2> QED
    BY <2>1, <2>2, <2>3 DEF Rewriting
<1>11. VectorFound' /\ Emptied' /\ VectorDeriving' /\ Leaving' /\ Complete'
  BY <1>1 DEF VectorFound, Emptied, VectorDeriving, Leaving, Complete, Deleting, Finishing
<1>12. Copied'
  <2>1. VectorStored /\ Mirrored /\ Named
    BY <1>2 DEF Copied
  <2>2. \A u, i : Derives({u}, i)' <=> Derives({u}, i)
    BY <1>1 DEF Derives
  <2> QED
    BY <1>1, <2>1, <2>2 DEF Copied, VectorStored, Mirrored, Named
<1> QED
  BY <1>10, <1>11, <1>12 DEF Rebuilding, Stages

LEMMA NoteRebuilds ==
  ASSUME Typed, Rebuilding, NoteStrip
  PROVE  Rebuilding'
<1>1. /\ pc = "note" /\ pc' = "gained"
      /\ live' = live /\ removing' = removing /\ removing # {}
      /\ graph' = graph /\ vector' = vector /\ job' = job
      /\ note'.ent = note.ent \cup job.noting.ent
  <2>1. removing # {}
    BY DEF NoteStrip, Typed, TypeOK
  <2> QED
    BY <2>1, NoteEffect
<1>2. VectorStored /\ Mirrored /\ Named /\ Rewriting
  BY DEF Rebuilding, Copied, Stages
<1>3. VectorStored'
  <2>1. \A u, i : Derives({u}, i)' <=> Derives({u}, i)
    BY <1>1 DEF Derives
  <2> QED
    BY <1>1, <1>2, <2>1 DEF VectorStored
<1>4. Mirrored'
  BY <1>1, <1>2 DEF Mirrored
<1>5. Named'
  <2>1. ASSUME NEW k \in {NameKey[i] : i \in Ids}
        PROVE  \E us \in SUBSET Units : live \subseteq us /\ OfBuild(k, graph.ent, note'.ent, us)
    <3>1. PICK us \in SUBSET Units : live \subseteq us /\ OfBuild(k, graph.ent, note.ent, us)
      BY <1>2 DEF Named, OfBuilt
    <3>2. OfBuild(k, graph.ent, note'.ent, us)
      BY <1>1, <3>1 DEF OfBuild
    <3> QED
      BY <3>1, <3>2
  <2>2. OfBuilt(graph.ent, note'.ent, live)
    BY <2>1 DEF OfBuilt
  <2> QED
    BY <1>1, <2>2 DEF Named
<1>6. Rewriting'
  <2>1. Noted' = Noted
    BY <1>1 DEF Noted
  <2> QED
    BY <1>1, <1>2, <2>1 DEF Rewriting, Writing, VectorClean, Rebuilt
<1>7. VectorFound' /\ Emptied' /\ VectorDeriving' /\ Leaving' /\ Complete'
  BY <1>1 DEF VectorFound, Emptied, VectorDeriving, Leaving, Complete, Deleting, Finishing
<1> QED
  BY <1>3, <1>4, <1>5, <1>6, <1>7 DEF Rebuilding, Copied, Stages

\* Any part of the writes of a strip leaves, but for what is to be written, the
\* entities of a build in both stores.
LEMMA OverwritesRebuild ==
  ASSUME Typed, Sound, Stripping, Rebuilding, Writing, pc # "note", Overwrites,
         vector'.ent \in [Ids -> SUBSET Units], vector'.edge \in [EdgeIds -> SUBSET Units]
  PROVE  /\ Copied'
         /\ Citing(vector'.ent, removing) \subseteq DOMAIN job.newEnt \cup job.ent
         /\ Citing(vector'.edge, removing) \subseteq DOMAIN job.newEdge \cup job.edge
         /\ \A i \in Ids \ (DOMAIN job.newEnt \cup job.ent) :
              graph'.ent[i] = EntityUnits(i, live) /\ vector'.ent[i] = EntityUnits(i, live)
         /\ \A i \in job.ent : EntityUnits(i, live) = {}
         /\ job.ent \cap Held(graph'.ent) \subseteq note.ent
<1>1. /\ \A i \in DOMAIN job.newEnt :
              /\ i \in Ids /\ job.newEnt[i] = EntityUnits(i, live) /\ job.newEnt[i] \subseteq live
              /\ graph.ent[i] \cap live \subseteq job.newEnt[i]
      /\ \A e \in DOMAIN job.newEdge \cap EdgeIds :
              /\ e[1] \in DOMAIN job.newEnt /\ e[2] \in DOMAIN job.newEnt
              /\ job.newEdge[e] \subseteq live
              /\ \A u \in job.newEdge[e] :
                   /\ u \in job.newEnt[e[1]] /\ u \in job.newEnt[e[2]]
                   /\ <<NameKey[e[1]], NameKey[e[2]]>> \in Relates[u]
  BY NewCovers
<1>2. /\ graph.ent \in [Ids -> SUBSET Units] /\ vector.ent \in [Ids -> SUBSET Units]
      /\ vector.edge \in [EdgeIds -> SUBSET Units]
      /\ live \in SUBSET Units /\ live \cap removing = {}
      /\ VectorStored /\ Mirrored
      /\ job.ent \subseteq Ids /\ note.ent = Noted
  BY DEF Typed, TypeOK, Shaped, Rebuilding, Copied, Noted
<1>3. /\ Citing(vector.ent, removing) \subseteq DOMAIN job.newEnt \cup job.ent
      /\ Citing(vector.edge, removing) \subseteq DOMAIN job.newEdge \cup job.edge
      /\ \A i \in Ids \ (DOMAIN job.newEnt \cup job.ent) :
           graph.ent[i] = EntityUnits(i, live) /\ vector.ent[i] = EntityUnits(i, live)
      /\ \A i \in job.ent : EntityUnits(i, live) = {}
      /\ job.ent \cap Held(graph.ent) \subseteq note.ent
  BY <1>2 DEF Rebuilding, Stages, Rewriting, VectorClean, Rebuilt
<1>4. /\ \A i \in DOMAIN job.newEnt : i \notin job.ent
      /\ \A i \in DOMAIN job.newEnt \ note.ent : job.newEnt[i] \subseteq graph.ent[i]
  BY <1>2 DEF Stripping
<1>5. /\ live' = live /\ removing' = removing /\ note' = note /\ vector'.unit = vector.unit
      /\ graph'.ent \in [Ids -> SUBSET Units]
      /\ \A i \in Ids : \/ graph'.ent[i] = graph.ent[i]
                        \/ i \in DOMAIN job.newEnt /\ graph'.ent[i] = job.newEnt[i]
      /\ \A i \in Ids : \/ vector'.ent[i] = vector.ent[i]
                        \/ i \in DOMAIN job.newEnt /\ vector'.ent[i] = job.newEnt[i]
      /\ \A e \in EdgeIds : \/ vector'.edge[e] = vector.edge[e]
                            \/ e \in DOMAIN job.newEdge /\ vector'.edge[e] = job.newEdge[e]
  BY DEF Overwrites
<1>6. ASSUME NEW i \in Ids \ note.ent
      PROVE  /\ graph.ent[i] \cap live = EntityUnits(i, live)
             /\ vector.ent[i] \cap live = EntityUnits(i, live)
  <2>1. EntityUnits(i, live) \subseteq live
    BY UnitsOfEntity
  <2>2. graph.ent[i] \cap live = EntityUnits(i, live)
    <3>1. CASE i \in DOMAIN job.newEnt
      BY <1>1, <1>4, <3>1
    <3>2. CASE i \in job.ent
      BY <1>2, <1>3, <3>2 DEF Held
    <3>3. CASE i \notin DOMAIN job.newEnt \cup job.ent
      BY <1>3, <2>1, <3>3
    <3> QED
      BY <3>1, <3>2, <3>3
  <2> QED
    BY <1>2, <2>2 DEF Mirrored
<1>7. ASSUME NEW i \in Ids \ note.ent
      PROVE  /\ graph'.ent[i] \cap live = EntityUnits(i, live)
             /\ vector'.ent[i] \cap live = EntityUnits(i, live)
  <2>1. i \in DOMAIN job.newEnt => job.newEnt[i] \cap live = EntityUnits(i, live)
    BY <1>1
  <2> QED
    BY <1>5, <1>6, <2>1
<1>8. Mirrored'
  BY <1>5, <1>7 DEF Mirrored
<1>9. Named'
  <2>1. OfBuilt(graph'.ent, note.ent, live)
    BY <1>2, <1>7, OfLive
  <2> QED
    BY <1>5, <2>1 DEF Named
<1>10. VectorStored'
  <2>1. /\ vector'.unit \subseteq live \cup removing
        /\ \A i \in Ids : vector'.ent[i] \subseteq live \cup removing
        /\ \A e \in EdgeIds : vector'.edge[e] \subseteq live \cup removing
    BY <1>1, <1>2, <1>5 DEF VectorStored
  <2>2. \A e \in EdgeIds : e[1] \in Ids /\ e[2] \in Ids
    BY IdsOfEdges
  <2>3. ASSUME NEW e \in EdgeIds, NEW u \in vector'.edge[e]
        PROVE  /\ Derives({u}, e[1]) /\ Derives({u}, e[2])
               /\ <<NameKey[e[1]], NameKey[e[2]]>> \in Relates[u]
    <3>1. CASE vector'.edge[e] = vector.edge[e]
      BY <1>2, <3>1 DEF VectorStored
    <3>2. CASE e \in DOMAIN job.newEdge /\ vector'.edge[e] = job.newEdge[e]
      <4>1. /\ e[1] \in DOMAIN job.newEnt /\ e[2] \in DOMAIN job.newEnt
            /\ u \in job.newEnt[e[1]] /\ u \in job.newEnt[e[2]]
            /\ <<NameKey[e[1]], NameKey[e[2]]>> \in Relates[u]
        BY <1>1, <2>3, <3>2
      <4>2. u \in EntityUnits(e[1], live) /\ u \in EntityUnits(e[2], live)
        BY <1>1, <4>1
      <4> QED
        BY <1>2, <4>1, <4>2 DEF Derives
    <3> QED
      BY <1>5, <3>1, <3>2
  <2>4. \A u, i : Derives({u}, i)' <=> Derives({u}, i)
    BY <1>5 DEF Derives
  <2> QED
    BY <1>5, <2>1, <2>3, <2>4 DEF VectorStored
<1>11. Citing(vector'.ent, removing) \subseteq DOMAIN job.newEnt \cup job.ent
  <2>1. Citing(vector'.ent, removing) \subseteq Citing(vector.ent, removing)
    BY <1>1, <1>2, <1>5 DEF Citing
  <2> QED
    BY <1>3, <2>1
<1>12. Citing(vector'.edge, removing) \subseteq DOMAIN job.newEdge \cup job.edge
  <2>1. Citing(vector'.edge, removing) \subseteq Citing(vector.edge, removing)
    BY <1>1, <1>2, <1>5 DEF Citing
  <2> QED
    BY <1>3, <2>1
<1>13. job.ent \cap Held(graph'.ent) \subseteq note.ent
  BY <1>2, <1>3, <1>4, <1>5 DEF Held
<1>14. \A i \in Ids \ (DOMAIN job.newEnt \cup job.ent) :
         graph'.ent[i] = EntityUnits(i, live) /\ vector'.ent[i] = EntityUnits(i, live)
  BY <1>3, <1>5
<1> QED
  BY <1>3, <1>8, <1>9, <1>10, <1>11, <1>12, <1>13, <1>14 DEF Copied

LEMMA WriteRebuilds ==
  ASSUME Typed, Sound, Phases, Rebuilding, Overwrites, LearnsOk,
         vector'.ent \in [Ids -> SUBSET Units], vector'.edge \in [EdgeIds -> SUBSET Units],
         pc \in {"gained", "edges", "vector_edges"}, pc' \in {"edges", "vector_edges", "kept"}
  PROVE  Rebuilding'
<1>1. /\ Copied'
      /\ Citing(vector'.ent, removing) \subseteq DOMAIN job.newEnt \cup job.ent
      /\ Citing(vector'.edge, removing) \subseteq DOMAIN job.newEdge \cup job.edge
      /\ \A i \in Ids \ (DOMAIN job.newEnt \cup job.ent) :
           graph'.ent[i] = EntityUnits(i, live) /\ vector'.ent[i] = EntityUnits(i, live)
      /\ \A i \in job.ent : EntityUnits(i, live) = {}
      /\ job.ent \cap Held(graph'.ent) \subseteq note.ent
  BY OverwritesRebuild DEF Writing, Phases
<1>2. /\ live' = live /\ removing' = removing /\ removing # {} /\ note' = note
      /\ job'.ent = job.ent /\ job'.edge = job.edge
      /\ job'.newEnt = job.newEnt /\ job'.newEdge = job.newEdge
      /\ Noted' = note.ent
  BY DEF Overwrites, LearnsOk, Noted, Typed, TypeOK
<1>3. Rewriting'
  <2>1. VectorClean(DOMAIN job.newEnt \cup job.ent, DOMAIN job.newEdge \cup job.edge)'
    BY <1>1, <1>2 DEF VectorClean
  <2>2. Rebuilt(DOMAIN job.newEnt, job.ent)'
    BY <1>1, <1>2 DEF Rebuilt
  <2> QED
    BY <1>1, <1>2, <2>1, <2>2 DEF Rewriting
<1>4. VectorFound' /\ Emptied' /\ VectorDeriving' /\ Leaving' /\ Complete'
  BY <1>2 DEF VectorFound, Emptied, VectorDeriving, Leaving, Complete, Deleting, Finishing
<1> QED
  BY <1>1, <1>3, <1>4 DEF Rebuilding, Stages

LEMMA GainedRebuilds ==
  ASSUME Typed, Sound, Phases, Rebuilding, WriteGained
  PROVE  Rebuilding'
<1>1. /\ pc = "gained" /\ pc' = "edges"
      /\ live' = live /\ removing' = removing /\ vector' = vector /\ note' = note
      /\ graph'.edge = graph.edge /\ graph'.ent \in [Ids -> SUBSET Units]
      /\ \A i \in Ids : \/ graph'.ent[i] = graph.ent[i]
                        \/ i \in job.first /\ graph'.ent[i] = job.newEnt[i]
      /\ LearnsOk
  BY GainedEffect
<1>2. /\ job.first \subseteq DOMAIN job.newEnt /\ graph.edge \in [EdgeIds -> SUBSET Units]
      /\ vector.ent \in [Ids -> SUBSET Units] /\ vector.edge \in [EdgeIds -> SUBSET Units]
  BY DEF Typed, TypeOK
<1>3. Overwrites
  BY <1>1, <1>2 DEF Overwrites
<1> QED
  BY <1>1, <1>2, <1>3, WriteRebuilds

LEMMA EdgesRebuild ==
  ASSUME Typed, Sound, Phases, Rebuilding, WriteEdges
  PROVE  Rebuilding'
<1>1. /\ pc = "edges" /\ pc' = "vector_edges"
      /\ live' = live /\ removing' = removing /\ vector' = vector /\ note' = note
      /\ graph'.ent = graph.ent /\ graph'.edge \in [EdgeIds -> SUBSET Units]
      /\ \A e \in EdgeIds :
           \/ graph'.edge[e] = graph.edge[e]
           \/ /\ e \in DOMAIN job.newEdge /\ graph'.edge[e] = job.newEdge[e]
              /\ {e[1], e[2]} \subseteq Held(graph.ent)
      /\ LearnsOk
  BY EdgesEffect
<1>2. /\ graph.ent \in [Ids -> SUBSET Units]
      /\ vector.ent \in [Ids -> SUBSET Units] /\ vector.edge \in [EdgeIds -> SUBSET Units]
  BY DEF Typed, TypeOK
<1>3. Overwrites
  BY <1>1, <1>2 DEF Overwrites
<1> QED
  BY <1>1, <1>2, <1>3, WriteRebuilds

LEMMA VectorEdgesRebuild ==
  ASSUME Typed, Sound, Phases, Rebuilding, WriteVectorEdges
  PROVE  Rebuilding'
<1>1. /\ pc = "vector_edges" /\ pc' = "kept"
      /\ live' = live /\ removing' = removing /\ graph' = graph /\ note' = note
      /\ vector'.unit = vector.unit /\ vector'.ent = vector.ent
      /\ vector'.edge \in [EdgeIds -> SUBSET Units]
      /\ \A e \in EdgeIds :
           \/ vector'.edge[e] = vector.edge[e]
           \/ e \in DOMAIN job.newEdge /\ vector'.edge[e] = job.newEdge[e]
      /\ LearnsOk
  BY VectorEdgesEffect
<1>2. /\ graph.ent \in [Ids -> SUBSET Units] /\ graph.edge \in [EdgeIds -> SUBSET Units]
      /\ vector.ent \in [Ids -> SUBSET Units]
  BY DEF Typed, TypeOK
<1>3. Overwrites
  BY <1>1, <1>2 DEF Overwrites
<1> QED
  BY <1>1, <1>2, <1>3, WriteRebuilds

LEMMA KeptRebuilds ==
  ASSUME Typed, Sound, Phases, Rebuilding, WriteKept
  PROVE  Rebuilding'
<1>1. /\ pc = "kept"
      /\ live' = live /\ removing' = removing /\ note' = note
      /\ graph'.edge = graph.edge /\ vector'.unit = vector.unit /\ vector'.edge = vector.edge
      /\ graph'.ent \in [Ids -> SUBSET Units] /\ vector'.ent \in [Ids -> SUBSET Units]
      /\ \A i \in Ids : \/ graph'.ent[i] = graph.ent[i]
                        \/ i \in DOMAIN job.newEnt /\ graph'.ent[i] = job.newEnt[i]
      /\ \A i \in Ids : \/ vector'.ent[i] = vector.ent[i]
                        \/ i \in DOMAIN job.newEnt /\ vector'.ent[i] = job.newEnt[i]
      /\ \/ pc' = "idle" /\ job' = NoJob
         \/ /\ job.ok /\ pc' = "delete_vector"
            /\ job'.ent = job.ent /\ job'.edge = job.edge /\ job'.strip = FALSE
            /\ \A i \in DOMAIN job.newEnt \ job.first : graph'.ent[i] = job.newEnt[i]
            /\ \A i \in DOMAIN job.newEnt : vector'.ent[i] = job.newEnt[i]
  BY KeptEffect
<1>2. /\ graph.edge \in [EdgeIds -> SUBSET Units] /\ vector.edge \in [EdgeIds -> SUBSET Units]
      /\ live \cap removing = {} /\ removing # {} /\ job.ent \subseteq Ids
  BY <1>1 DEF Typed, TypeOK, Shaped
<1>3. Overwrites
  BY <1>1, <1>2 DEF Overwrites
<1>4. Stripping /\ SoFar /\ Writing
  BY <1>1 DEF Phases, Writing
<1>5. /\ Copied'
      /\ Citing(vector'.ent, removing) \subseteq DOMAIN job.newEnt \cup job.ent
      /\ Citing(vector'.edge, removing) \subseteq DOMAIN job.newEdge \cup job.edge
      /\ \A i \in Ids \ (DOMAIN job.newEnt \cup job.ent) :
           graph'.ent[i] = EntityUnits(i, live) /\ vector'.ent[i] = EntityUnits(i, live)
      /\ \A i \in job.ent : EntityUnits(i, live) = {}
      /\ job.ent \cap Held(graph'.ent) \subseteq note.ent
  BY <1>1, <1>2, <1>3, <1>4, OverwritesRebuild
<1>6. VectorFound' /\ Emptied' /\ VectorDeriving' /\ Rewriting' /\ Complete'
  <2>1. pc' \in {"idle", "delete_vector"} /\ (pc' = "delete_vector" => ~job'.strip)
    BY <1>1
  <2> QED
    BY <1>1, <1>2, <2>1
    DEF VectorFound, Emptied, VectorDeriving, Rewriting, Complete, Deleting, Writing, Finishing
<1>7. CASE pc' = "idle"
  <2>1. Leaving'
    BY <1>7 DEF Leaving, Deleting
  <2> QED
    BY <1>5, <1>6, <2>1 DEF Rebuilding, Stages
<1>8. CASE /\ job.ok /\ pc' = "delete_vector"
           /\ job'.ent = job.ent /\ job'.edge = job.edge /\ job'.strip = FALSE
           /\ \A i \in DOMAIN job.newEnt \ job.first : graph'.ent[i] = job.newEnt[i]
           /\ \A i \in DOMAIN job.newEnt : vector'.ent[i] = job.newEnt[i]
  <2>1. \A i \in DOMAIN job.newEnt :
          i \in Ids /\ job.newEnt[i] = EntityUnits(i, live) /\ job.newEnt[i] \subseteq live
    BY <1>4, NewCovers
  <2>2. \A e \in DOMAIN job.newEdge \cap EdgeIds : job.newEdge[e] \subseteq live
    BY <1>4, NewCovers
  <2>3. /\ \A i \in job.first : graph.ent[i] = job.newEnt[i]
        /\ \A e \in DOMAIN job.newEdge \cap EdgeIds : vector.edge[e] = job.newEdge[e]
    BY <1>1, <1>4, <1>8 DEF SoFar
  <2>4. \A i \in DOMAIN job.newEnt :
          graph'.ent[i] = job.newEnt[i] /\ vector'.ent[i] = job.newEnt[i]
    BY <1>1, <1>8, <2>1, <2>3
  <2>5. Citing(vector'.ent, removing) \subseteq job.ent
    BY <1>1, <1>2, <1>5, <2>1, <2>4 DEF Citing
  <2>6. Citing(vector'.edge, removing) \subseteq job.edge
    BY <1>1, <1>2, <1>5, <2>2, <2>3 DEF Citing
  <2>7. VectorClean(job.ent, job.edge)'
    BY <1>1, <1>8, <2>5, <2>6 DEF VectorClean
  <2>8. Rebuilt({}, job.ent)'
    <3>1. \A i \in Ids \ job.ent :
            graph'.ent[i] = EntityUnits(i, live) /\ vector'.ent[i] = EntityUnits(i, live)
      BY <1>5, <2>1, <2>4
    <3> QED
      BY <1>1, <1>5, <1>8, <3>1 DEF Rebuilt
  <2>9. Leaving'
    BY <1>1, <1>5, <1>8, <2>7, <2>8 DEF Leaving
  <2> QED
    BY <1>5, <1>6, <2>9 DEF Rebuilding, Stages
<1> QED
  BY <1>1, <1>7, <1>8

LEMMA EndRebuilds ==
  ASSUME Typed, Rebuilding, ClearNote \/ Record \/ Stop
  PROVE  Rebuilding'
<1>1. /\ pc # "idle" /\ graph' = graph /\ vector' = vector /\ live' = live
      /\ ClearNote => pc = "finish" /\ pc' = "record" /\ removing' = removing /\ job' = NoJob
                      /\ (note' = note \/ note' = NoNote)
      /\ Record => /\ pc = "record" /\ pc' = "idle" /\ removing' = {} /\ note' = note
                   /\ job' = job
      /\ Stop => pc' = "idle" /\ removing' = removing /\ note' = note /\ job' = NoJob
  BY EndEffect
<1>2. /\ vector.ent \in [Ids -> SUBSET Units] /\ vector.edge \in [EdgeIds -> SUBSET Units]
      /\ live \in SUBSET Units /\ removing # {}
      /\ VectorStored /\ Mirrored /\ Named /\ Complete
  BY <1>1 DEF Typed, TypeOK, Rebuilding, Copied, Stages
<1>3. \A u, i : Derives({u}, i)' <=> Derives({u}, i)
  BY <1>1 DEF Derives
<1>4. VectorFound' /\ Emptied' /\ VectorDeriving' /\ Rewriting' /\ Leaving'
  <2>1. pc' \in {"record", "idle"}
    BY <1>1
  <2> QED
    BY <2>1 DEF VectorFound, Emptied, VectorDeriving, Rewriting, Leaving, Deleting, Writing
<1>5. CASE Stop
  <2>1. VectorStored'
    BY <1>1, <1>2, <1>3, <1>5 DEF VectorStored
  <2>2. Mirrored' /\ Named'
    BY <1>1, <1>2, <1>5 DEF Mirrored, Named
  <2>3. Complete'
    BY <1>1, <1>2, <1>5 DEF Complete, Finishing
  <2> QED
    BY <1>4, <2>1, <2>2, <2>3 DEF Rebuilding, Copied, Stages
<1>6. CASE ClearNote \/ Record
  <2>1. VectorClean({}, {}) /\ Gone(removing) /\ Rebuilt({}, {})
    BY <1>1, <1>2, <1>6 DEF Complete, Finishing
  <2>2. \A i \in Ids :
          graph.ent[i] = EntityUnits(i, live) /\ vector.ent[i] = EntityUnits(i, live)
    BY <2>1 DEF Rebuilt
  <2>3. Rebuilt({}, {})'
    BY <1>1, <2>2 DEF Rebuilt
  <2>4. \A i \in Ids : graph.ent[i] \cap live = EntityUnits(i, live)
    BY <2>2, UnitsOfEntity
  <2>5. Mirrored'
    BY <1>1, <2>2 DEF Mirrored
  <2>6. Named'
    <3>1. OfBuilt(graph.ent, note'.ent, live)
      BY <1>2, <2>4, OfLive
    <3> QED
      BY <1>1, <3>1 DEF Named
  <2>7. /\ vector.unit \subseteq live
        /\ \A i \in Ids : vector.ent[i] \subseteq live
        /\ \A e \in EdgeIds : vector.edge[e] \subseteq live
    BY <1>2, <2>1 DEF VectorStored, VectorClean, Gone, Citing
  <2>8. VectorStored'
    <3>1. ASSUME NEW e \in EdgeIds, NEW u \in vector.edge[e]
          PROVE  /\ Derives({u}, e[1]) /\ Derives({u}, e[2])
                 /\ <<NameKey[e[1]], NameKey[e[2]]>> \in Relates[u]
      <4>1. VectorStored
        BY <1>2
      <4> QED
        BY <4>1 DEF VectorStored
    <3>2. ASSUME NEW e \in EdgeIds, NEW u \in vector.edge[e]
          PROVE  Derives({u}, e[1])' /\ Derives({u}, e[2])'
      BY <1>1, <3>1 DEF Derives
    <3>3. /\ vector'.unit \subseteq live'
          /\ \A i \in Ids : vector'.ent[i] \subseteq live'
          /\ \A e \in EdgeIds : vector'.edge[e] \subseteq live'
      BY <1>1, <2>7
    <3> QED
      BY <1>1, <3>1, <3>2, <3>3 DEF VectorStored
  <2>9. Complete'
    <3>1. CASE ClearNote
      BY <1>1, <2>1, <2>3, <3>1 DEF Complete, VectorClean, Gone
    <3>2. CASE Record
      BY <1>1, <2>3, <3>2 DEF Complete, Finishing
    <3> QED
      BY <1>6, <3>1, <3>2
  <2> QED
    BY <1>4, <2>3, <2>5, <2>6, <2>8, <2>9 DEF Rebuilding, Copied, Stages
<1> QED
  BY <1>5, <1>6

LEMMA InitRebuilding == Init => Rebuilding
<1> SUFFICES ASSUME Init
             PROVE  Rebuilding
  OBVIOUS
<1>1. /\ live \subseteq Units /\ live \cup removing = Units
      /\ \A s \in Statements : s[1] \in live => Resolved[live][s] = Resolved[Units][s]
      /\ \A i \in Ids : /\ graph.ent[i] \in {EntityUnits(i, live), EntityUnits(i, Units)}
                        /\ vector.ent[i] \in {EntityUnits(i, live), EntityUnits(i, Units)}
      /\ \A e \in EdgeIds : vector.edge[e] \in {EdgeUnits(e, live), EdgeUnits(e, Units)}
  BY InitOfBuilds DEF OfBuilds
<1>2. pc = "idle" /\ note.ent = {} /\ vector.unit \subseteq Units
  BY InitTyped DEF Init, NoNote, Typed, TypeOK
<1>3. \A i \in Ids : EntityUnits(i, Units) \cap live = EntityUnits(i, live)
  <2> TAKE i \in Ids
  <2>1. \A u \in live : NameKey[i] \in Mentions[u] =>
          Resolved[live][<<u, NameKey[i]>>] = Resolved[Units][<<u, NameKey[i]>>]
    <3> TAKE u \in live
    <3> HAVE NameKey[i] \in Mentions[u]
    <3>1. <<u, NameKey[i]>> \in Statements /\ <<u, NameKey[i]>>[1] = u
      BY <1>1, StatementOf
    <3> QED
      BY <1>1, <3>1
  <2> QED
    BY <1>1, <2>1 DEF EntityUnits
<1>4. \A i \in Ids : EntityUnits(i, live) \subseteq live
  BY UnitsOfEntity
<1>5. \A i \in Ids : /\ graph.ent[i] \cap live = EntityUnits(i, live)
                     /\ vector.ent[i] \cap live = EntityUnits(i, live)
  BY <1>1, <1>3, <1>4
<1>6. Mirrored
  BY <1>5 DEF Mirrored
<1>7. Named
  BY <1>1, <1>5, OfLive DEF Named
<1>8. VectorStored
  <2>1. \A e \in EdgeIds : e[1] \in Ids /\ e[2] \in Ids
    BY IdsOfEdges
  <2>2. ASSUME NEW e \in EdgeIds, NEW u \in vector.edge[e]
        PROVE  /\ u \in Units
               /\ Derives({u}, e[1]) /\ Derives({u}, e[2])
               /\ <<NameKey[e[1]], NameKey[e[2]]>> \in Relates[u]
    <3>1. PICK us \in {live, Units} : u \in EdgeUnits(e, us)
      BY <1>1, <2>2
    <3>2. /\ u \in us /\ u \in EntityUnits(e[1], us) /\ u \in EntityUnits(e[2], us)
          /\ <<NameKey[e[1]], NameKey[e[2]]>> \in Relates[u]
      BY <3>1 DEF EdgeUnits, EntityUnits
    <3>3. us \in SUBSET Units /\ live \subseteq us
      BY <1>1, <3>1
    <3> QED
      BY <3>2, <3>3 DEF Derives
  <2>3. \A i \in Ids : vector.ent[i] \subseteq Units
    BY <1>1, UnitsOfEntity
  <2> QED
    BY <1>1, <1>2, <2>2, <2>3 DEF VectorStored
<1>9. Complete
  <2>1. SUFFICES ASSUME removing = {}
                 PROVE  Rebuilt({}, {})
    BY <1>2 DEF Complete, Finishing
  <2>2. live = Units
    BY <1>1, <2>1
  <2> QED
    BY <1>1, <2>2 DEF Rebuilt
<1>10. VectorFound /\ Emptied /\ VectorDeriving /\ Rewriting /\ Leaving
  BY <1>2 DEF VectorFound, Emptied, VectorDeriving, Rewriting, Leaving, Deleting, Writing
<1> QED
  BY <1>6, <1>7, <1>8, <1>9, <1>10 DEF Rebuilding, Copied, Stages

LEMMA RebuildingInductive == Inv /\ Rebuilding /\ Settles /\ [Next]_vars => Inv' /\ Rebuilding'
<1> SUFFICES ASSUME Inv, Rebuilding, Settles, [Next]_vars
             PROVE  Inv' /\ Rebuilding'
  OBVIOUS
<1>1. Inv' /\ Typed /\ Sound /\ Phases /\ Sound' /\ Phases'
  <2>1. Inv'
    BY InvInductive
  <2> QED
    BY <2>1 DEF Inv
<1>2. CASE Next
  <2>1. remove_text_units => Rebuilding'
    BY <1>1, RemoveRebuilds
  <2>2. DeleteVector => Rebuilding'
    BY <1>1, DeleteVectorRebuilds
  <2>3. DeleteGraph => Rebuilding'
    BY <1>1, DeleteGraphRebuilds
  <2>4. Derive => Rebuilding'
    BY <1>1, DeriveRebuilds
  <2>5. NoteStrip => Rebuilding'
    BY <1>1, NoteRebuilds
  <2>6. WriteGained => Rebuilding'
    BY <1>1, GainedRebuilds
  <2>7. WriteEdges => Rebuilding'
    BY <1>1, EdgesRebuild
  <2>8. WriteVectorEdges => Rebuilding'
    BY <1>1, VectorEdgesRebuild
  <2>9. WriteKept => Rebuilding'
    BY <1>1, KeptRebuilds
  <2>10. ClearNote \/ Record \/ Stop => Rebuilding'
    BY <1>1, EndRebuilds
  <2> QED
    BY <1>1, <1>2, <2>1, <2>2, <2>3, <2>4, <2>5, <2>6, <2>7, <2>8, <2>9, <2>10 DEF Next
<1>3. CASE UNCHANGED vars
  <2>1. /\ live' = live /\ removing' = removing /\ graph' = graph /\ vector' = vector
        /\ note' = note /\ pc' = pc /\ job' = job
    BY <1>3 DEF vars
  <2>2. VectorStored /\ Mirrored /\ Named /\ VectorFound /\ Emptied /\ VectorDeriving
          /\ Rewriting /\ Leaving /\ Complete
    BY DEF Rebuilding, Copied, Stages
  <2>3. VectorStored'
    BY <2>1, <2>2 DEF VectorStored, Derives
  <2>4. Mirrored' /\ Named'
    BY <2>1, <2>2 DEF Mirrored, Named
  <2>5. VectorFound' /\ Emptied' /\ VectorDeriving'
    BY <2>1, <2>2 DEF VectorFound, Emptied, VectorDeriving, Deleting, VectorClean
  <2>6. Rewriting' /\ Leaving'
    BY <2>1, <2>2 DEF Rewriting, Leaving, Deleting, Writing, VectorClean, Rebuilt, Noted
  <2>7. Complete'
    BY <2>1, <2>2 DEF Complete, Finishing, VectorClean, Rebuilt, Gone
  <2> QED
    BY <1>1, <2>3, <2>4, <2>5, <2>6, <2>7 DEF Rebuilding, Copied, Stages
<1> QED
  BY <1>2, <1>3

\* When no unit is left to remove, the stores are those of a build.
LEMMA RebuildingImplies == Inv /\ Rebuilding => RemovalRebuilds
<1> SUFFICES ASSUME Typed, Sound, Rebuilding, removing = {}
             PROVE  /\ vector.unit = live
                    /\ graph.ent = BuiltEntities(live) /\ graph.edge = BuiltEdges(live)
                    /\ vector.ent = BuiltEntities(live)
                    /\ \A e \in EdgeIds : Ends({e}) \subseteq Held(vector.ent) =>
                            vector.edge[e] = BuiltEdges(live)[e]
  BY DEF Inv, RemovalRebuilds
<1>1. /\ graph.ent \in [Ids -> SUBSET Units] /\ graph.edge \in [EdgeIds -> SUBSET Units]
      /\ vector.ent \in [Ids -> SUBSET Units] /\ live \in SUBSET Units
      /\ live \subseteq vector.unit /\ Stored /\ Anchored(Units, {}) /\ KeptBut({}, {})
      /\ VectorStored /\ Rebuilt({}, {})
  BY DEF Typed, TypeOK, Sound, Rebuilding, Copied, Stages, Complete
<1>2. \A e \in EdgeIds : e[1] \in Ids /\ e[2] \in Ids
  BY IdsOfEdges
<1>3. vector.unit = live
  BY <1>1 DEF VectorStored
<1>4. \A i \in Ids : graph.ent[i] = EntityUnits(i, live) /\ vector.ent[i] = EntityUnits(i, live)
  BY <1>1 DEF Rebuilt
<1>5. graph.ent = BuiltEntities(live) /\ vector.ent = BuiltEntities(live)
  BY <1>1, <1>4 DEF BuiltEntities
<1>6. \A e \in EdgeIds : \A u \in EdgeUnits(e, live) : u \in graph.edge[e] /\ u \in vector.edge[e]
  <2> TAKE e \in EdgeIds
  <2> TAKE u \in EdgeUnits(e, live)
  <2>1. /\ u \in live /\ u \in EntityUnits(e[1], live) /\ u \in EntityUnits(e[2], live)
        /\ <<NameKey[e[1]], NameKey[e[2]]>> \in Relates[u]
    BY DEF EdgeUnits, EntityUnits
  <2>2. PICK f \in EdgeIds : /\ <<NameKey[f[1]], NameKey[f[2]]>> = <<NameKey[e[1]], NameKey[e[2]]>>
                             /\ KeepsEdge(f, u)
    BY <1>1, <2>1 DEF KeptBut, RelationKept
  <2>3. /\ u \in graph.edge[f] /\ u \in vector.edge[f]
        /\ u \in EntityUnits(f[1], live) /\ u \in EntityUnits(f[2], live)
        /\ NameKey[f[1]] = NameKey[e[1]] /\ NameKey[f[2]] = NameKey[e[2]]
    BY <1>2, <1>4, <2>2 DEF KeepsEdge, KeepsEntity, Keeps
  <2>4. f[1] = e[1] /\ f[2] = e[2]
    BY <2>1, <2>3, OneEntity
  <2>5. f = e
    <3>1. f \in Ids \X Ids /\ e \in Ids \X Ids
      BY DEF EdgeIds
    <3> QED
      BY <2>4, <3>1
  <2> QED
    BY <2>3, <2>5
<1>7. \A e \in EdgeIds : graph.edge[e] \subseteq EdgeUnits(e, live)
  <2> TAKE e \in EdgeIds
  <2>1. SUFFICES ASSUME NEW u \in graph.edge[e]
                 PROVE  u \in EdgeUnits(e, live)
    OBVIOUS
  <2>2. u \in graph.ent[e[1]] /\ u \in graph.ent[e[2]]
    BY <1>1, <2>1 DEF Anchored
  <2>3. <<NameKey[e[1]], NameKey[e[2]]>> \in Relates[u]
    BY <1>1, <2>1 DEF Stored
  <2> QED
    BY <1>2, <1>4, <2>2, <2>3 DEF EdgeUnits
<1>8. graph.edge = BuiltEdges(live)
  <2>1. \A e \in EdgeIds : graph.edge[e] = EdgeUnits(e, live)
    BY <1>6, <1>7
  <2> QED
    BY <1>1, <2>1 DEF BuiltEdges
<1>9. ASSUME NEW e \in EdgeIds, Ends({e}) \subseteq Held(vector.ent)
      PROVE  vector.edge[e] = BuiltEdges(live)[e]
  <2>1. e[1] \in Held(vector.ent) /\ e[2] \in Held(vector.ent)
    BY <1>9 DEF Ends
  <2>2. EntityUnits(e[1], live) # {} /\ EntityUnits(e[2], live) # {}
    BY <1>2, <1>4, <2>1 DEF Held
  <2>3. ASSUME NEW u \in vector.edge[e]
        PROVE  u \in EdgeUnits(e, live)
    <3>1. /\ u \in live /\ Derives({u}, e[1]) /\ Derives({u}, e[2])
          /\ <<NameKey[e[1]], NameKey[e[2]]>> \in Relates[u]
      BY <1>1, <2>3 DEF VectorStored
    <3>2. u \in EntityUnits(e[1], live) /\ u \in EntityUnits(e[2], live)
      BY <1>1, <1>2, <2>2, <3>1, LiveStays
    <3> QED
      BY <3>1, <3>2 DEF EdgeUnits
  <2>4. BuiltEdges(live)[e] = EdgeUnits(e, live)
    BY DEF BuiltEdges
  <2> QED
    BY <1>6, <2>3, <2>4
<1> QED
  BY <1>3, <1>5, <1>8, <1>9

\* Then, too, whatever earlier attempts left half-done in either store, and
\* whatever more they removed, once no row of a removed document is left both
\* stores hold what a full build of the units left would: a removal that reported
\* no failure lost nothing and left nothing of the removed units, nor anything
\* under an id a build does not give it, except for vector copies of edges with
\* an end that is not stored, which may stay (removal.py: remove_text_units;
\* cross_run_merge.py: derive, _strip_shared).
THEOREM RebuildsAll == Spec /\ []Settles => []RemovalRebuilds
<1>1. Init => Inv /\ Rebuilding
  BY InitTyped, InitSound, InitRebuilding DEF Inv
<1>2. Inv /\ Rebuilding /\ Settles /\ [Next]_vars => Inv' /\ Rebuilding'
  BY RebuildingInductive
<1>3. Inv /\ Rebuilding => RemovalRebuilds
  BY RebuildingImplies
<1> QED
  BY <1>1, <1>2, <1>3, PTL DEF Spec

-----------------------------------------------------------------------------
(* The bound of the rounds: it is never met when there are as many rounds  *)
(* as items.                                                               *)

ItemSets == [ent : SUBSET Ids, edge : SUBSET EdgeIds]
Size(x) == Cardinality(x.ent) + Cardinality(x.edge)

\* More items are a larger set of items.
LEMMA Larger ==
  ASSUME IsFiniteSet(Ids), NEW x \in ItemSets, NEW y \in ItemSets,
         x.ent \subseteq y.ent, x.edge \subseteq y.edge
  PROVE  /\ Size(x) \in Nat /\ Size(y) \in Nat
         /\ Size(y) <= Cardinality(Ids) + Cardinality(EdgeIds)
         /\ x # y => Size(x) + 1 <= Size(y)
<1>1. IsFiniteSet(EdgeIds)
  <2>1. IsFiniteSet(Ids \X Ids)
    BY FS_Product
  <2>2. EdgeIds \in SUBSET (Ids \X Ids)
    BY DEF EdgeIds
  <2> QED
    BY <2>1, <2>2, FS_Subset
<1>2. x.ent \in SUBSET Ids /\ y.ent \in SUBSET Ids /\ x.edge \in SUBSET EdgeIds
      /\ y.edge \in SUBSET EdgeIds
  BY DEF ItemSets
<1>3. IsFiniteSet(y.ent) /\ Cardinality(y.ent) <= Cardinality(Ids)
  BY <1>2, FS_Subset
<1>4. IsFiniteSet(y.edge) /\ Cardinality(y.edge) <= Cardinality(EdgeIds)
  BY <1>1, <1>2, FS_Subset
<1>5. /\ IsFiniteSet(x.ent) /\ Cardinality(x.ent) <= Cardinality(y.ent)
      /\ Cardinality(y.ent) = Cardinality(x.ent) => y.ent = x.ent
  BY <1>3, FS_Subset
<1>6. /\ IsFiniteSet(x.edge) /\ Cardinality(x.edge) <= Cardinality(y.edge)
      /\ Cardinality(y.edge) = Cardinality(x.edge) => y.edge = x.edge
  BY <1>4, FS_Subset
<1>7. /\ Cardinality(Ids) \in Nat /\ Cardinality(EdgeIds) \in Nat
      /\ Cardinality(x.ent) \in Nat /\ Cardinality(y.ent) \in Nat
      /\ Cardinality(x.edge) \in Nat /\ Cardinality(y.edge) \in Nat
  BY <1>1, <1>3, <1>4, <1>5, <1>6, FS_CardinalityType
<1>8. ASSUME x # y
      PROVE  x.ent # y.ent \/ x.edge # y.edge
  BY <1>8 DEF ItemSets
<1>9. x # y => Cardinality(x.ent) # Cardinality(y.ent)
               \/ Cardinality(x.edge) # Cardinality(y.edge)
  BY <1>5, <1>6, <1>8
<1> QED
  BY <1>3, <1>4, <1>5, <1>6, <1>7, <1>9 DEF Size

\* A round keeps the items it was given, and its own are stored.
LEMMA RoundGrows ==
  ASSUME Typed, NEW x \in ItemSets, NEW read
  PROVE  /\ NextRound(x, read) \in ItemSets
         /\ x.ent \subseteq NextRound(x, read).ent /\ x.edge \subseteq NextRound(x, read).edge
<1>1. Held(graph.ent) \subseteq Ids /\ Held(graph.edge) \subseteq EdgeIds
  BY DEF Typed, TypeOK, Held
<1>2. x.ent \subseteq Ids /\ x.edge \subseteq EdgeIds
  BY DEF ItemSets
<1>3. \A ents : Siblings(ents) \subseteq Ids /\ Parted(ents) \subseteq EdgeIds
  BY <1>1 DEF Siblings, Parted, Incident
<1> QED
  BY <1>1, <1>2, <1>3 DEF NextRound, ItemSets

\* With more rounds than there are items, one of them brings nothing more, and
\* neither does any after it.
LEMMA RoundsSettle ==
  ASSUME Typed, IsFiniteSet(Ids), NEW read \in ItemSets,
         DeriveRounds > Cardinality(Ids) + Cardinality(EdgeIds)
  PROVE  NextRound(ItemsDerived(read), read) = ItemsDerived(read)
<1> DEFINE m == DeriveRounds - 1
           items[n \in 0 .. m] == IF n = 0 THEN read ELSE NextRound(items[n - 1], read)
           More(x) == NextRound(x, read)
<1>1. m \in Nat /\ m + 1 = DeriveRounds
  BY RemovalAssumption
<1>2. ItemsDerived(read) = items[m]
  BY DEF ItemsDerived
<1> HIDE DEF m
<1>3. items = [n \in 0 .. m |-> IF n = 0 THEN read ELSE NextRound(items[n - 1], read)]
  <2>1. \E f : f = [n \in 0 .. m |-> IF n = 0 THEN read ELSE NextRound(f[n - 1], read)]
    BY <1>1, RoundsExist
  <2> QED
    BY <2>1
<1> HIDE DEF items
<1>4. \A n \in 0 .. m : items[n] = IF n = 0 THEN read ELSE More(items[n - 1])
  BY <1>3
<1>5. \A x \in ItemSets :
        More(x) \in ItemSets /\ x.ent \subseteq More(x).ent /\ x.edge \subseteq More(x).edge
  BY RoundGrows
<1> HIDE DEF More
<1>6. \A n \in 0 .. m : items[n] \in ItemSets
  <2> DEFINE Out == {n \in 0 .. m : items[n] \notin ItemSets}
  <2> SUFFICES ASSUME Out # {}
               PROVE  FALSE
    OBVIOUS
  <2>1. PICK n \in Out : \A k \in Out : n <= k
    <3>1. Out \in SUBSET Nat
      OBVIOUS
    <3> HIDE DEF Out
    <3> QED
      BY <3>1, Least
  <2>2. n # 0 /\ items[n] = More(items[n - 1])
    BY <1>1, <1>4, <2>1
  <2>3. n - 1 \in 0 .. m /\ n - 1 \notin Out
    BY <1>1, <2>1, <2>2
  <2> QED
    BY <1>5, <2>1, <2>2, <2>3
<1>7. SUFFICES ASSUME More(items[m]) # items[m]
               PROVE  FALSE
  BY <1>2 DEF More
\* Once a round brings nothing more, so do the later ones.
<1>8. \A n \in 0 .. m : More(items[n]) # items[n]
  <2> SUFFICES ASSUME NEW n \in 0 .. m, More(items[n]) = items[n]
               PROVE  FALSE
    OBVIOUS
  <2> DEFINE Other == {k \in 0 .. m : n <= k /\ items[k] # items[n]}
  <2>1. m \in Other
    BY <1>1, <1>7
  <2>2. PICK k \in Other : \A j \in Other : k <= j
    <3>1. Other \in SUBSET Nat /\ Other # {}
      BY <2>1
    <3> HIDE DEF Other
    <3> QED
      BY <3>1, Least
  <2>3. k # n /\ k # 0 /\ items[k] = More(items[k - 1])
    BY <1>1, <1>4, <2>2
  <2>4. k - 1 \in 0 .. m /\ n <= k - 1 /\ k - 1 \notin Other
    BY <1>1, <2>2, <2>3
  <2> QED
    BY <2>2, <2>3, <2>4
\* So each round brought one item at least.
<1>9. \A n \in 0 .. m : n <= Size(items[n])
  <2> DEFINE Small == {n \in 0 .. m : ~(n <= Size(items[n]))}
  <2> SUFFICES ASSUME Small # {}
               PROVE  FALSE
    OBVIOUS
  <2>1. PICK n \in Small : \A k \in Small : n <= k
    <3>1. Small \in SUBSET Nat
      OBVIOUS
    <3> HIDE DEF Small
    <3> QED
      BY <3>1, Least
  <2>2. n # 0
    <3>1. Size(items[n]) \in Nat
      BY <1>6, <2>1, Larger
    <3> QED
      BY <2>1, <3>1
  <2>3. n - 1 \in 0 .. m /\ n - 1 \notin Small /\ items[n] = More(items[n - 1])
    BY <1>1, <1>4, <2>1, <2>2
  <2>4. Size(items[n - 1]) \in Nat /\ Size(items[n]) \in Nat
        /\ Size(items[n - 1]) + 1 <= Size(items[n])
    BY <1>5, <1>6, <1>8, <2>1, <2>3, Larger
  <2> QED
    BY <2>1, <2>3, <2>4
<1>10. /\ m <= Size(items[m]) /\ Size(items[m]) + 1 <= Size(More(items[m]))
       /\ Size(More(items[m])) <= Cardinality(Ids) + Cardinality(EdgeIds)
       /\ Size(items[m]) \in Nat /\ Size(More(items[m])) \in Nat
  BY <1>1, <1>5, <1>6, <1>8, <1>9, Larger
<1>11. Cardinality(Ids) + Cardinality(EdgeIds) \in Nat
  <2>1. EdgeIds \in SUBSET (Ids \X Ids) /\ IsFiniteSet(Ids \X Ids)
    BY FS_Product DEF EdgeIds
  <2>2. IsFiniteSet(EdgeIds)
    BY <2>1, FS_Subset
  <2> QED
    BY <2>2, FS_CardinalityType
<1> QED
  BY <1>1, <1>10, <1>11

\* A derivation whose rounds are more than the graph's items is never stopped
\* by their bound, which is the hypothesis of the three theorems before: the code
\* has _DERIVE_ROUNDS of them and warns when they were too few
\* (cross_run_merge.py: derive, _next_round_items).
THEOREM EnoughRoundsSettle ==
  ASSUME IsFiniteSet(Ids), DeriveRounds > Cardinality(Ids) + Cardinality(EdgeIds)
  PROVE  Spec => []Settles
<1>1. Typed => Settles
  <2> SUFFICES ASSUME Typed
               PROVE  NextRound(ItemsDerived(ReadShared), ReadShared) = ItemsDerived(ReadShared)
    BY DEF Settles
  <2>1. ReadShared \in ItemSets
    <3>1. Held(graph.ent) \subseteq Ids /\ Held(graph.edge) \subseteq EdgeIds
      BY DEF Typed, TypeOK, Held
    <3> QED
      BY <3>1 DEF ReadShared, ItemSets
  <2> QED
    BY <2>1, RoundsSettle
<1> QED
  BY InitTyped, TypedInductive, <1>1, PTL DEF Spec
=============================================================================
