-------------------------- MODULE TextUnitRemoval --------------------------
(***************************************************************************)
(* The removal of the text units of changed or deleted documents from the  *)
(* graph store and the vector store (application/storage/removal.py, with  *)
(* the derivation of application/storage/cross_run_merge.py): what only    *)
(* they state is deleted, what others state too is stripped of them and    *)
(* derived again, under another id when the name that won goes with them.  *)
(*                                                                         *)
(* A stored copy is the set of text units it cites, {} when it is absent.  *)
(* Its content is what a build derives from those units, so two copies     *)
(* with the same id and the same units are the same copy.  One step is one *)
(* request (or one phase of concurrent requests) to a store: any part of   *)
(* it may be done when it fails, and the run may die after any of them.    *)
(* The write lease lets one run at a time change the stores, so its reads  *)
(* are those of the step that needs them.                                  *)
(***************************************************************************)
EXTENDS Naturals, FiniteSets

CONSTANTS
    Units,       \* text units
    Ids,         \* entity ids, one per spelling of a name
    NameKey,     \* [Ids -> name keys]: what the spellings of one name share
    Mentions,    \* [Units -> sets of name keys]: the entities a unit states
    Relates,     \* [Units -> sets of pairs of name keys]: the edges it states
    Resolved,    \* [SUBSET Units -> [Statements -> Ids]]: the entity to which the
                 \* records of some units resolve each unit's statement of a name
    Unwritten,   \* the units of a delta whose commit was killed
    DeriveRounds,\* _DERIVE_ROUNDS
    MaxFaults    \* bound: requests that fail and runs that die

Statements == {s \in Units \X {NameKey[i] : i \in Ids} : s[2] \in Mentions[s[1]]}

(* Spellings of one name are one entity unless they are kept apart (their  *)
(* types disagree); what is one entity for some units is one for fewer, and *)
(* the killed commit changes no id (one that does leaves a note for the    *)
(* next commit).                                                           *)
ASSUME RemovalAssumption ==
    /\ \A u \in Units : /\ Mentions[u] \subseteq {NameKey[i] : i \in Ids}
                        /\ Relates[u] \subseteq Mentions[u] \X Mentions[u]
    /\ \A us \in SUBSET Units : Resolved[us] \in [Statements -> Ids]
    /\ \A us \in SUBSET Units, s \in Statements : NameKey[Resolved[us][s]] = s[2]
    /\ \A us \in SUBSET Units, s, t \in Statements :
          (s[1] \in us /\ t[1] \in us /\ Resolved[us][s] = Resolved[us][t]) =>
            \A fewer \in SUBSET us :
                {s[1], t[1]} \subseteq fewer => Resolved[fewer][s] = Resolved[fewer][t]
    /\ Unwritten \subseteq Units
    /\ \A s \in Statements : s[1] \notin Unwritten =>
          Resolved[Units \ Unwritten][s] = Resolved[Units][s]
    /\ DeriveRounds \in Nat \ {0} /\ MaxFaults \in Nat \ {0}

(* The id a statement's entity has without the other units.                *)
Spelling(s) == Resolved[{s[1]}][s]

(* An entity has the id of a spelling stated of it, one spelling is one    *)
(* entity, and units that go with all that they state of an entity, or     *)
(* with nothing of it, change no other entity of its name: what was kept   *)
(* apart from it stays apart from the others                               *)
(* (graph_resolver.py:_merge_entities, _group_similar_entities).           *)
ASSUME ResolutionAssumption ==
    \A us \in SUBSET Units, s \in Statements : s[1] \in us =>
        /\ \E t \in Statements : /\ t[1] \in us /\ Spelling(t) = Resolved[us][s]
                                /\ Resolved[us][t] = Resolved[us][s]
        /\ \A t \in Statements : t[1] \in us /\ Spelling(t) = Spelling(s) =>
                Resolved[us][t] = Resolved[us][s]
        /\ \A fewer \in SUBSET us :
                (/\ s[1] \in fewer
                 /\ \A t, r \in Statements :
                      {t[1], r[1]} \subseteq us /\ t[2] = s[2] /\ r[2] = s[2]
                        /\ Resolved[us][t] = Resolved[us][r]
                          => (t[1] \in fewer <=> r[1] \in fewer))
                => Resolved[fewer][s] = Resolved[us][s]

VARIABLES
    live,      \* the units of the documents the corpus still has
    removing,  \* the units of gone documents whose registry rows are kept
    graph,     \* [ent, edge]: the graph store's copies
    vector,    \* [unit, ent, edge]: the vector store's copies
    note,      \* [ent, edge]: the pending strip's note (empty: none)
    pc, job,   \* the running removal and what it has decided
    faults     \* failures so far

stores == <<graph, vector, note>>
corpus == <<live, removing>>
vars == <<live, removing, graph, vector, note, pc, job, faults>>

EdgeIds == {e \in Ids \X Ids : \E u \in Units : <<NameKey[e[1]], NameKey[e[2]]>> \in Relates[u]}

-----------------------------------------------------------------------------
(* What a full build over some units stores.                               *)

EntityUnits(i, us) ==
    {u \in us : NameKey[i] \in Mentions[u] /\ Resolved[us][<<u, NameKey[i]>>] = i}
EdgeUnits(e, us) ==
    {u \in EntityUnits(e[1], us) \cap EntityUnits(e[2], us) :
        <<NameKey[e[1]], NameKey[e[2]]>> \in Relates[u]}

BuiltEntities(us) == [i \in Ids |-> EntityUnits(i, us)]
BuiltEdges(us) == [e \in EdgeIds |-> EdgeUnits(e, us)]

-----------------------------------------------------------------------------
(* A store's copies.                                                       *)

Held(copies) == {i \in DOMAIN copies : copies[i] # {}}
Citing(copies, us) == {i \in DOMAIN copies : copies[i] \cap us # {}}
Incident(edges, ents) == {e \in Held(edges) : e[1] \in ents \/ e[2] \in ents}
Ends(edges) == UNION {{e[1], e[2]} : e \in edges}
Write(copies, new, ids) == [i \in DOMAIN copies |-> IF i \in ids THEN new[i] ELSE copies[i]]
Delete(copies, ids) == [i \in DOMAIN copies |-> IF i \in ids THEN {} ELSE copies[i]]

(* A request for some items: what it has done and whether it reported that *)
(* it did it all.                                                          *)
Outcomes(ids) ==
    {o \in [done : SUBSET ids, ok : BOOLEAN] :
        (o.ok => o.done = ids) /\ (ids = {} => o.ok)}

(* Whether a step's requests all succeeded.  *)
Fault(ok) ==
    IF ok THEN UNCHANGED faults ELSE faults < MaxFaults /\ faults' = faults + 1

NoNote == [ent |-> {}, edge |-> {}]
NoJob == [ent |-> {}, edge |-> {}, vectorOnly |-> {},
          sharedEnt |-> {}, sharedEdge |-> {}, newEnt |-> <<>>, newEdge |-> <<>>,
          first |-> {}, noting |-> NoNote, ok |-> TRUE, strip |-> TRUE]

TypeOK ==
    /\ live \subseteq Units /\ removing \subseteq Units /\ live \cap removing = {}
    /\ graph.ent \in [Ids -> SUBSET Units] /\ graph.edge \in [EdgeIds -> SUBSET Units]
    /\ vector.ent \in [Ids -> SUBSET Units] /\ vector.edge \in [EdgeIds -> SUBSET Units]
    /\ vector.unit \subseteq Units
    /\ note.ent \subseteq Ids /\ note.edge \subseteq EdgeIds
    /\ pc \in {"idle", "delete_vector", "delete_graph", "derive", "note", "gained",
               "edges", "vector_edges", "kept", "finish", "record"}
    /\ job.first \subseteq DOMAIN job.newEnt
    /\ pc # "idle" => removing # {}
    /\ faults \in 0 .. MaxFaults

(* The stores of a build of all units.                                     *)
Built ==
    /\ live = Units /\ removing = {}
    /\ graph = [ent |-> BuiltEntities(Units), edge |-> BuiltEdges(Units)]
    /\ vector = [unit |-> Units, ent |-> BuiltEntities(Units), edge |-> BuiltEdges(Units)]
    /\ faults = 0

(* The stores without the Unwritten units, with any part of a commit of    *)
(* those over them: its first phase writes text units, vector copies and   *)
(* the graph's entities at once, its second the graph's edges, those whose *)
(* ends it wrote (indexing_manager.py:_write_artifacts).                   *)
KilledCommit ==
    LET before == Units \ Unwritten
        entities == Citing(BuiltEntities(Units), Unwritten)
        relationships == Citing(BuiltEdges(Units), Unwritten)
        Entities(ids) == Write(BuiltEntities(before), BuiltEntities(Units), ids)
        Edges(ids) == Write(BuiltEdges(before), BuiltEdges(Units), ids)
    IN
    /\ live = before /\ removing = Unwritten
    /\ \E us \in SUBSET Unwritten,
          ents \in SUBSET entities, edges \in SUBSET relationships,
          vents \in SUBSET entities, vedges \in SUBSET relationships :
            /\ Ends(edges) \subseteq ents
            /\ graph = [ent |-> Entities(ents), edge |-> Edges(edges)]
            /\ vector = [unit |-> before \cup us, ent |-> Entities(vents), edge |-> Edges(vedges)]
    /\ faults = 0

Init ==
    /\ Built \/ KilledCommit
    /\ note = NoNote
    /\ pc = "idle" /\ job = NoJob

-----------------------------------------------------------------------------
(* The items a removal of some units finds: their copies in the graph, or  *)
(* in the vector store where the graph has none.                           *)

Found(g, v, citedInGraph, us) ==
    [i \in citedInGraph \cup Citing(v, us) |-> IF i \in citedInGraph THEN g[i] ELSE v[i]]

CitedEntities(us) == Found(graph.ent, vector.ent, Citing(graph.ent, us), us)

\* Mutant: the edges are only looked for at the entities.
IncidentCiting(us) == Incident(graph.edge, DOMAIN CitedEntities(us)) \cap Citing(graph.edge, us)

(* The graph's edges are looked up by text unit only once the vector store *)
(* has lost a copy of a removed unit: an earlier removal got past deleting *)
(* them.                                                                   *)
GraphEdgesCiting(us) ==
    IF us \subseteq vector.unit THEN IncidentCiting(us) ELSE Citing(graph.edge, us)

CitedEdges(us) == Found(graph.edge, vector.edge, GraphEdgesCiting(us), us)

Exclusive(found, us) == {i \in DOMAIN found : found[i] \subseteq us}
Shared(found, us) == DOMAIN found \ Exclusive(found, us)

(* remove_text_units: what goes, and what is stripped, with the items an   *)
(* earlier strip noted.  A run removes the units of the rows it still has  *)
(* and of the documents that went since.                                   *)
remove_text_units ==
    /\ pc = "idle"
    /\ \E more \in SUBSET live :
        /\ removing' = removing \cup more
        /\ live' = live \ more
    /\ removing' # {}
    /\ LET ents == CitedEntities(removing')
           edges == CitedEdges(removing')
           goneEnt == Exclusive(ents, removing')
           goneEdge == Exclusive(edges, removing')
       IN job' = [NoJob EXCEPT
            !.ent = goneEnt,
            !.edge = goneEdge,
            !.vectorOnly = goneEnt \ Citing(graph.ent, removing'),
            !.sharedEnt = (Shared(ents, removing') \cup note.ent) \ goneEnt,
            !.sharedEdge = (Shared(edges, removing') \cup note.edge) \ goneEdge]
    /\ pc' = "delete_vector"
    /\ UNCHANGED <<stores, faults>>

(* delete_documents: the vector copies first, with those of the edges at   *)
(* the entities that go, which the graph drops with its vertices.          *)
DeleteVector ==
    /\ pc = "delete_vector"
    /\ \E us \in IF job.strip THEN Outcomes(removing \cap vector.unit) ELSE Outcomes({}),
          ents \in Outcomes(job.ent \cap Held(vector.ent)),
          edges \in Outcomes((job.edge \cup Incident(graph.edge, job.ent)
                                       \cup Incident(vector.edge, job.ent \cap job.vectorOnly))
                             \cap Held(vector.edge)) :
        /\ vector' = [unit |-> vector.unit \ us.done,
                      ent |-> Delete(vector.ent, ents.done),
                      edge |-> Delete(vector.edge, edges.done)]
        /\ job' = [job EXCEPT !.ok = us.ok /\ ents.ok /\ edges.ok]
        /\ Fault(us.ok /\ ents.ok /\ edges.ok)
    /\ pc' = "delete_graph"
    /\ UNCHANGED <<corpus, graph, note>>

(* Then the graph's edges, and its vertices with the edges at them.        *)
DeleteGraph ==
    /\ pc = "delete_graph"
    /\ \E edges \in Outcomes(job.edge \cap Held(graph.edge)) :
       \E ents \in IF edges.ok THEN Outcomes(job.ent \cap Held(graph.ent))
                   ELSE {[done |-> {}, ok |-> FALSE]} :
        /\ graph' = [ent |-> Delete(graph.ent, ents.done),
                     edge |-> Delete(graph.edge,
                                     edges.done \cup Incident(graph.edge, ents.done))]
        /\ LET ok == job.ok /\ edges.ok /\ ents.ok IN
           /\ job' = IF ok THEN [job EXCEPT !.ok = TRUE] ELSE NoJob
           /\ pc' = CASE ~ok -> "idle"
                      [] ok /\ job.strip /\ job.sharedEnt \cup job.sharedEdge # {} -> "derive"
                      [] OTHER -> "finish"
        /\ Fault(edges.ok /\ ents.ok)
    /\ UNCHANGED <<corpus, vector, note>>

-----------------------------------------------------------------------------
(* The derivation.  Items are the ids of stored entities and edges; those  *)
(* first read are stripped of the removed units.                           *)

UnitsOf(items, read) ==
    LET of(copies, ids, stripped) ==
            UNION {IF i \in stripped THEN copies[i] \ removing ELSE copies[i] : i \in ids}
    IN of(graph.ent, items.ent, read.ent) \cup of(graph.edge, items.edge, read.edge)

(* The entity a stored one derives to: the one of its own id, else the one *)
(* that its units state.                                                   *)
DerivedId(i, us, read) ==
    LET mine == UnitsOf([ent |-> {i}, edge |-> {}], read) IN
    IF EntityUnits(i, us) # {} THEN i ELSE Resolved[us][<<CHOOSE u \in mine : TRUE, NameKey[i]>>]

DerivedEdge(e, us, read) == <<DerivedId(e[1], us, read), DerivedId(e[2], us, read)>>

\* Mutants: an entity is derived without its other spellings; the edges stay.
SiblingsNone(ents) == ents
PartedNone(moved) == {}

Siblings(ents) == {i \in Held(graph.ent) : \E j \in ents : NameKey[i] = NameKey[j]}
Parted(moved) == Incident(graph.edge, moved)

(* One more round: the stored spellings of a derived name, the copies at   *)
(* the ids that items take, and the edges of the re-keyed entities with    *)
(* their other ends.                                                       *)
NextRound(items, read) ==
    LET us == UnitsOf(items, read)
        rekeyed == {i \in items.ent : DerivedId(i, us, read) # i}
        moved == rekeyed \cup {DerivedId(i, us, read) : i \in rekeyed}
        held == {DerivedEdge(e, us, read) : e \in items.edge} \cap Held(graph.edge)
    IN [ent |-> items.ent \cup Siblings(items.ent)
                          \cup (Ends(Parted(moved)) \cap Held(graph.ent)),
        edge |-> items.edge \cup held \cup Parted(moved)]

\* Mutant: a single round.
ItemsOnce(read) == NextRound(read, read)

ItemsDerived(read) ==
    LET items[n \in 0 .. DeriveRounds - 1] ==
            IF n = 0 THEN read ELSE NextRound(items[n - 1], read)
    IN items[DeriveRounds - 1]

(* _read_shared: what the graph holds of the shared items, and the ends of *)
(* the edges.                                                              *)
ReadShared ==
    LET edges == job.sharedEdge \cap Held(graph.edge) IN
    [ent |-> (job.sharedEnt \cup Ends(edges)) \cap Held(graph.ent), edge |-> edges]

\* Mutant: the stored copies that gained are written, not the derived ones.
GainedStored(newEnt, read) == DOMAIN newEnt \cup read.ent

(* The vertices to write before the edges: new ones, and those that now    *)
(* cite a unit their stored copy does not.                                 *)
Gained(newEnt, read) ==
    {i \in DOMAIN newEnt : i \notin read.ent \/ ~(newEnt[i] \subseteq graph.ent[i])}

(* _strip_shared before its first write: the items as they are now, the    *)
(* old ids that go once they are written, and what to note.  A shared id   *)
(* the graph does not hold goes too.                                       *)
Derive ==
    /\ pc = "derive"
    /\ LET read == ReadShared
           items == ItemsDerived(read)
           us == UnitsOf(items, read)
           newEnt == [i \in {DerivedId(i, us, read) : i \in items.ent} |-> EntityUnits(i, us)]
           newEdge == [e \in {DerivedEdge(e, us, read) : e \in items.edge} |-> EdgeUnits(e, us)]
           oldEnt == items.ent \ DOMAIN newEnt
           oldEdge == items.edge \ DOMAIN newEdge
           absent == job.sharedEnt \ (read.ent \cup DOMAIN newEnt)
       IN job' = [job EXCEPT
            !.ent = oldEnt \cup absent,
            !.edge = oldEdge \cup (job.sharedEdge \ (read.edge \cup DOMAIN newEdge)),
            !.vectorOnly = absent,
            !.newEnt = newEnt,
            !.newEdge = newEdge,
            !.first = Gained(newEnt, read),
            !.noting = [ent |-> oldEnt \cup {DerivedId(i, us, read) : i \in oldEnt},
                        edge |-> oldEdge],
            !.strip = FALSE]
    /\ pc' = "note"
    /\ UNCHANGED <<corpus, stores, faults>>

(* _StripNote: written once, before the first write, with the earlier one. *)
NoteStrip ==
    /\ pc = "note"
    /\ \/ job.noting = NoNote /\ note' = note
       \/ /\ job.noting # NoNote
          /\ note' = [ent |-> note.ent \cup job.noting.ent,
                      edge |-> note.edge \cup job.noting.edge]
    /\ pc' = "gained"
    /\ UNCHANGED <<corpus, graph, vector, job, faults>>

(* _write_stripped: a phase starts whatever the earlier ones reported.     *)

(* The new vertices, and those that now cite a unit they did not.          *)
WriteGained ==
    /\ pc = "gained"
    /\ \E o \in Outcomes(job.first) :
        /\ graph' = [graph EXCEPT !.ent = Write(@, job.newEnt, o.done)]
        /\ job' = [job EXCEPT !.ok = o.ok]
        /\ Fault(o.ok)
    /\ pc' = "edges"
    /\ UNCHANGED <<corpus, vector, note>>

(* An edge is not written when an end of it is not there.                  *)
WriteEdges ==
    /\ pc = "edges"
    /\ LET edges == DOMAIN job.newEdge
           writable == {e \in edges : Ends({e}) \subseteq Held(graph.ent)}
       IN \E o \in Outcomes(writable) :
            /\ graph' = [graph EXCEPT !.edge = Write(@, job.newEdge, o.done)]
            /\ job' = [job EXCEPT !.ok = @ /\ o.ok /\ writable = edges]
            /\ Fault(o.ok)
    /\ pc' = "vector_edges"
    /\ UNCHANGED <<corpus, vector, note>>

WriteVectorEdges ==
    /\ pc = "vector_edges"
    /\ \E o \in Outcomes(DOMAIN job.newEdge) :
        /\ vector' = [vector EXCEPT !.edge = Write(@, job.newEdge, o.done)]
        /\ job' = [job EXCEPT !.ok = @ /\ o.ok]
        /\ Fault(o.ok)
    /\ pc' = "kept"
    /\ UNCHANGED <<corpus, graph, note>>

(* The other vertices with the vector copies of all, then the old ids:     *)
(* kept, with the note, when a write failed.                               *)
WriteKept ==
    /\ pc = "kept"
    /\ \E o \in Outcomes(DOMAIN job.newEnt \ job.first),
          v \in Outcomes(DOMAIN job.newEnt) :
        /\ graph' = [graph EXCEPT !.ent = Write(@, job.newEnt, o.done)]
        /\ vector' = [vector EXCEPT !.ent = Write(@, job.newEnt, v.done)]
        /\ LET ok == job.ok /\ o.ok /\ v.ok IN
           /\ job' = IF ok THEN [NoJob EXCEPT !.ent = job.ent, !.edge = job.edge,
                                              !.vectorOnly = job.vectorOnly, !.strip = FALSE]
                     ELSE NoJob
           /\ pc' = IF ok THEN "delete_vector" ELSE "idle"
        /\ Fault(o.ok /\ v.ok)
    /\ UNCHANGED <<corpus, note>>

(* The note goes once the old ids have; one that stays only makes a later  *)
(* removal strip its items again.                                          *)
ClearNote ==
    /\ pc = "finish"
    /\ \E cleared \in BOOLEAN :
        /\ note' = IF cleared THEN NoNote ELSE note
        /\ Fault(cleared)
    /\ pc' = "record" /\ job' = NoJob
    /\ UNCHANGED <<corpus, graph, vector>>

(* The caller drops the rows of a removal that reported no failure.        *)
Record ==
    /\ pc = "record"
    /\ removing' = {}
    /\ pc' = "idle"
    /\ UNCHANGED <<live, stores, job, faults>>

(* A read or the note's write raises, or the run dies.                     *)
Stop ==
    /\ pc # "idle"
    /\ Fault(FALSE)
    /\ pc' = "idle" /\ job' = NoJob
    /\ UNCHANGED <<corpus, stores>>

Next ==
    \/ remove_text_units
    \/ DeleteVector \/ DeleteGraph
    \/ Derive \/ NoteStrip
    \/ WriteGained \/ WriteEdges \/ WriteVectorEdges \/ WriteKept
    \/ ClearNote \/ Record \/ Stop

Spec == Init /\ [][Next]_vars

-----------------------------------------------------------------------------
(* A removal that reported no failure leaves both stores as a full build   *)
(* of the units left would: nothing cites a removed unit, no item is lost  *)
(* and none stays under an id a build does not give it, whatever earlier   *)
(* attempts left half-done and whatever they removed.  Left out: the vector *)
(* copies of edges to an entity that is not stored.                        *)
RemovalRebuilds ==
    removing = {} =>
        /\ vector.unit = live
        /\ graph.ent = BuiltEntities(live) /\ graph.edge = BuiltEdges(live)
        /\ vector.ent = BuiltEntities(live)
        /\ \A e \in EdgeIds : Ends({e}) \subseteq Held(vector.ent) =>
                vector.edge[e] = BuiltEdges(live)[e]

(* At every moment, also between two requests of a removal that then dies: *)
(* what a live unit states is in the graph, on some copy of its entity or  *)
(* edge.                                                                   *)
KeptStatementsStored ==
    \A u \in live :
        /\ \A k \in Mentions[u] : \E i \in Ids : NameKey[i] = k /\ u \in graph.ent[i]
        /\ \A p \in Relates[u] :
              \E e \in EdgeIds : <<NameKey[e[1]], NameKey[e[2]]>> = p /\ u \in graph.edge[e]

(* A derivation ends because a round brings nothing more, not at the bound *)
(* of its rounds, which the code only warns of (cross_run_merge.py:derive).  *)
Settles ==
    pc = "derive" =>
        NextRound(ItemsDerived(ReadShared), ReadShared) = ItemsDerived(ReadShared)

(* What a removed unit stated cannot come back: every item the derivation  *)
(* draws in by a name, an id or an edge, not only those it looked up, is    *)
(* stripped of the removed units (_find_citing after an earlier attempt    *)
(* that rewrote part of them).                                             *)
NothingComesBack ==
    pc = "derive" =>
        UnitsOf(ItemsDerived(ReadShared), ReadShared) \subseteq vector.unit \ removing
=============================================================================
