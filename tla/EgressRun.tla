------------------------------ MODULE EgressRun ------------------------------
(***************************************************************************)
(* A kit's egress declaration from upload to the outcome report: the kit's *)
(* manifest is read and validated (KitManifest, EgressManifest), the       *)
(* platform runs the lanes in their fixed order, ontology types, then      *)
(* entities, then relationships behind the convergence gate, feeds it      *)
(* changes in between, and reports each run to the component               *)
(* (OutcomeReport).                                                        *)
(*                                                                         *)
(* The platform's side is external: it is modelled from what               *)
(* manifest/egress.go and outcomereport.go say it does with a declaration. *)
(* Edges are stored under their sanitized name, an owner is found only     *)
(* along the declared name and direction, owner_precedence decides which   *)
(* of several count, and a record with more than one, or with one that is  *)
(* not correlated, fails on its own.  The author of a document names the   *)
(* predicate and the direction the loader stores, and may mistype a key or *)
(* forget the sanitized spelling.                                          *)
(***************************************************************************)
EXTENDS KitManifest, OutcomeReport, FiniteSets

CONSTANTS
    Record,       \* records of the graph
    typeOf,       \* the declared type each belongs to
    ownersOf,     \* the records that contain it
    anchorOf,     \* the physical anchor of each type
    Edges,        \* relationships: [predicate, from, to]
    Worlds,       \* how containment is stored: [predicate, direction]
    DocsFor(_),   \* the documents an author may write for a world
    Receiver,     \* whether the component may have a report receiver
    MaxRuns,      \* bound: runs
    MaxFailures,  \* bound: records an external system refuses for a while
    MaxEvents,    \* bound: changes fed between and during runs
    MaxTries      \* the platform's retry budget for a report

ASSUME EgressRunAssumption ==
    /\ ownersOf \in [Record -> SUBSET Record]
    /\ Receiver \subseteq BOOLEAN
    /\ MaxRuns \in Nat /\ MaxFailures \in Nat /\ MaxEvents \in Nat
    /\ MaxTries \in Nat \ {0}

\* A document has the shape of the manifest's types: lists where those have
\* lists, and the one egress declaration this is about.
ASSUME DocAssumption ==
    \A w \in Worlds : \A m \in DocsFor(w) :
        /\ Len(m.egress_syncs) \in Nat \ {0}
        /\ LET e == m.egress_syncs[1]
           IN  /\ e = [f \in DOMAIN e |-> e[f]] /\ "entities_sync" \in DOMAIN e
               /\ Len(e.entities_sync) \in Nat
               /\ \A j \in 1..Len(e.entities_sync) :
                     LET et == e.entities_sync[j]
                     IN  /\ et = [f \in DOMAIN et |-> et[f]]
                         /\ {"name", "parent_edges", "reference_edges", "hierarchical"} \subseteq DOMAIN et
                         /\ Len(et.parent_edges) \in Nat
        /\ \A i \in 1..Len(m.source_connectors) :
              LET bs == m.source_connectors[i].bindings
              IN  /\ Len(bs) \in Nat
                  /\ \A j \in 1..Len(bs) : bs[j].modes \in Seq([word : STRING, exact : BOOLEAN])

\* A parent edge as an author who knows the graph writes it: the predicate,
\* as the loader was given it or as the store keeps it, and the direction
\* unless it is the default, and any list of types for the precedence.  Keys
\* may be repeated, and any may be mistyped.
authored(w, node) ==
    LET names == {w.predicate, sanitizeEdgeName(w.predicate)}
    IN  \/ node.kind = "scalar" /\ node.value \in names /\ w.direction = "out"
        \/ LET given(key) == {i \in 1..Len(node.pairs) : node.pairs[i].key = key}
               mistyped == \E i \in 1..Len(node.pairs) : node.pairs[i].key \notin DOMAIN NoParentEdge
           IN  /\ node.kind = "mapping" /\ Len(node.pairs) \in Nat
               /\ \A i \in given("edge") : node.pairs[i].val \in names
               /\ \A i \in given("direction") : node.pairs[i].val = w.direction
               /\ \A i \in given("owner_precedence") : node.pairs[i].val \in Seq(STRING)
               /\ given("edge") # {} \/ mistyped
               /\ given("direction") # {} \/ mistyped \/ w.direction = "out"

ASSUME AuthorAssumption ==
    \A w \in Worlds :
        /\ w.predicate \in Seq(STRING) /\ w.direction \in {"out", "in"}
        /\ \A m \in DocsFor(w) :
              LET ets == m.egress_syncs[1].entities_sync
              IN  \A j \in 1..Len(ets) :
                    \A i \in 1..Len(ets[j].parent_edges) : authored(w, ets[j].parent_edges[i])

\* Containment has no cycle: among any records there is one that none of the
\* others contains.
ASSUME ForestAssumption ==
    \A S \in SUBSET Record : S # {} => \E r \in S : ownersOf[r] \cap S = {}

VARIABLES
    world,       \* how the graph stores containment
    doc,         \* the manifest as written, with one egress declaration
    spec,        \* the declaration as read
    phase,       \* "uploaded", "refused", "idle" or "running"
    lane,        \* lane of the run: "ontology", "entities", "relationships" or "none"
    k,           \* entry of the lane
    level,       \* rows of the entry that are up: all of them, or a level of the walk
    walked,      \* rows of the entry the run has been through
    clean,       \* nothing of the run failed so far
    runs,        \* runs started
    catalog,     \* anchors whose types are correlated
    converged,   \* types whose entry has gone through without a failure
    external,    \* the records of the external system, as last pushed
    linked,      \* relationships of the external system
    failures, events,
    receiver,    \* the component has a receiver
    report,      \* each run's report: "none", "pending", "delivered" or "dead"
    inbox,       \* delivery ids the receiver has taken
    tries,       \* how often each report was sent
    unread       \* reports whose body could not be read once (history)

declaration == <<world, doc, spec, receiver>>
runVars == <<lane, k, walked, level, clean>>
externalVars == <<catalog, converged, external, linked>>
reportVars == <<report, inbox, tries, unread>>
vars == <<declaration, phase, runVars, runs, externalVars, failures, events, reportVars>>

Ids == 1..MaxRuns
pushed == DOMAIN external

TypeOK ==
    /\ phase \in {"uploaded", "refused", "idle", "running"}
    /\ lane \in {"ontology", "entities", "relationships", "none"}
    /\ k \in Nat \ {0} /\ runs \in 0..MaxRuns
    /\ walked \subseteq Record /\ level \subseteq Record /\ pushed \subseteq Record
    /\ clean \in BOOLEAN
    /\ linked \subseteq Edges
    /\ failures \in 0..MaxFailures /\ events \in 0..MaxEvents
    /\ report \in [Ids -> {"none", "pending", "delivered", "dead"}]
    /\ inbox \subseteq Ids /\ unread \subseteq Ids
    /\ tries \in [Ids -> 0..MaxTries]

Init ==
    /\ world \in Worlds
    /\ doc \in DocsFor(world)
    /\ spec = doc.egress_syncs[1]
    /\ receiver \in Receiver
    /\ phase = "uploaded"
    /\ lane = "none" /\ k = 1 /\ walked = {} /\ level = {} /\ clean = TRUE
    /\ runs = 0
    /\ catalog = {} /\ converged = {} /\ external = <<>> /\ linked = {}
    /\ failures = 0 /\ events = 0
    /\ report = [i \in Ids |-> "none"]
    /\ inbox = {} /\ unread = {}
    /\ tries = [i \in Ids |-> 0]

-----------------------------------------------------------------------------
\* Upload: the manifest is read and validated, and the platform adds the one
\* check of the entity lane that needs the tenant's ontology.

resolvable(e) ==
    \A j \in 1..Len(e.entities_sync) :
        e.entities_sync[j].type_ref => anchorOf[e.entities_sync[j].name] \in Elements(OntologyAnchors(e))

accepted == Parse(doc) /\ ValidateManifest(doc) /\ resolvable(Unmarshal(doc.egress_syncs[1]))

Upload ==
    /\ phase = "uploaded"
    /\ phase' = IF accepted THEN "idle" ELSE "refused"
    /\ spec' = IF accepted THEN Unmarshal(doc.egress_syncs[1]) ELSE spec
    /\ UNCHANGED <<world, doc, receiver, runVars, runs, externalVars, failures, events, reportVars>>

-----------------------------------------------------------------------------
\* What the declaration makes of the graph.

Rows(t) == {r \in Record : typeOf[r] = t}
storedName == sanitizeEdgeName(world.predicate)
finds(pe) == pe.edge = storedName /\ EffectiveDirection(pe) = world.direction

\* The owners an edge leads to that count: of those of the first listed type
\* that has one, or all of them where none is listed.
counted(pe, r) ==
    LET listed == pe.owner_precedence
        present == {i \in 1..Len(listed) : \E o \in ownersOf[r] : typeOf[o] = listed[i]}
    IN  {o \in ownersOf[r] : /\ finds(pe)
                             /\ listed # <<>> => present # {} /\ typeOf[o] = listed[Min(present)]}

\* More than one owner is never cut down to one.
ambiguous(et, r) ==
    \E j \in 1..Len(et.parent_edges) : \E o, p \in counted(et.parent_edges[j], r) : o # p
ownersSent(et, r) == UNION {counted(et.parent_edges[j], r) : j \in 1..Len(et.parent_edges)}

roots(et) == {r \in Rows(et.name) : ownersOf[r] \cap Rows(et.name) = {}}
children(et, rows) ==
    IF finds(HierarchyEdge(et)) THEN {r \in Rows(et.name) : ownersOf[r] \cap rows # {}} ELSE {}

\* What comes up after the rows of the current level.
nextLevel(et) ==
    IF HierarchyEdge(et) = NoEdge THEN Rows(et.name) \ walked
    ELSE IF walked = {} THEN roots(et) ELSE children(et, level) \ walked

\* A row can be written when what it refers to is correlated.
writable(et, r) ==
    /\ et.type_ref => anchorOf[et.name] \in catalog
    /\ ~ambiguous(et, r)
    /\ ownersSent(et, r) \subseteq pushed

\* An edge called type_ref beside the reference to the type: the two values
\* share a key, and one of them overwrites the other.
collides(et) == et.type_ref /\ \E j \in 1..Len(et.parent_edges) : et.parent_edges[j].edge = TypeRefKey

asSent(et, r, withRefs, overwritten) ==
    [owner |-> IF overwritten THEN {} ELSE ownersSent(et, r),
     refs |-> withRefs /\ et.reference_edges # <<>>]
write(et, rows, withRefs) ==
    \E overwritten \in IF collides(et) THEN BOOLEAN ELSE {FALSE} :
        external' = [r \in pushed \cup rows |->
                        IF r \in rows THEN asSent(et, r, withRefs, overwritten) ELSE external[r]]

-----------------------------------------------------------------------------
\* A run.

\* A publication, the daily backstop, or a person.
StartRun ==
    /\ phase = "idle" /\ runs < MaxRuns
    /\ phase' = "running"
    /\ runs' = runs + 1
    /\ lane' = "ontology" /\ k' = 1 /\ walked' = {} /\ level' = {} /\ clean' = TRUE
    /\ UNCHANGED <<declaration, externalVars, failures, events, reportVars>>

advance(l) == lane' = l /\ k' = 1 /\ walked' = {} /\ level' = {}

PushAnchor ==
    /\ lane = "ontology" /\ k <= Len(OntologyAnchors(spec))
    /\ k' = k + 1
    /\ \/ catalog' = catalog \cup {OntologyAnchors(spec)[k]} /\ UNCHANGED <<clean, failures>>
       \/ /\ failures < MaxFailures /\ failures' = failures + 1
          /\ clean' = FALSE /\ UNCHANGED catalog
    /\ UNCHANGED <<declaration, phase, lane, walked, level, runs, converged, external, linked,
                   events, reportVars>>

OntologyDone ==
    /\ lane = "ontology" /\ k > Len(OntologyAnchors(spec))
    /\ advance("entities")
    /\ UNCHANGED <<declaration, phase, clean, runs, externalVars, failures, events, reportVars>>

\* A level is over before the next begins.
NextLevel ==
    /\ lane = "entities" /\ k <= Len(spec.entities_sync)
    /\ level \subseteq walked
    /\ nextLevel(spec.entities_sync[k]) # {}
    /\ level' = nextLevel(spec.entities_sync[k])
    /\ UNCHANGED <<declaration, phase, lane, k, walked, clean, runs, externalVars, failures, events,
                   reportVars>>

\* One batch of the level, in any order; the external system may refuse one
\* of its records for now.
PushBatch ==
    LET et == spec.entities_sync[k]
        due == level \ walked
        size == Min({EffectiveBatchSize(spec), Cardinality(due)})
    IN  /\ lane = "entities" /\ k <= Len(spec.entities_sync)
        /\ due # {}
        /\ \E rows \in kSubset(size, due) :
              LET good == {r \in rows : writable(et, r)}
              IN  /\ \E bad \in {{}} \cup {{r} : r \in good} :
                        /\ failures' = failures + Cardinality(bad)
                        /\ failures' <= MaxFailures
                        /\ write(et, good \ bad, TRUE)
                        /\ clean' = (clean /\ bad = {} /\ good = rows)
                  /\ walked' = walked \cup rows
        /\ UNCHANGED <<declaration, phase, lane, k, level, runs, catalog, converged, linked, events,
                       reportVars>>

TypeDone ==
    LET et == spec.entities_sync[k]
    IN  /\ lane = "entities" /\ k <= Len(spec.entities_sync)
        /\ level \subseteq walked /\ nextLevel(et) = {}
        /\ k' = k + 1 /\ walked' = {} /\ level' = {}
        /\ converged' = IF walked \subseteq pushed THEN converged \cup {et.name} ELSE converged
        /\ UNCHANGED <<declaration, phase, lane, clean, runs, catalog, external, linked,
                       failures, events, reportVars>>

\* The convergence gate: every endpoint type has been pushed and correlated.
EntitiesDone ==
    LET open == RelationshipEntityTypes(spec) \subseteq converged
    IN  /\ lane = "entities" /\ k > Len(spec.entities_sync)
        /\ advance(IF open THEN "relationships" ELSE "none")
        /\ clean' = (clean /\ open)
        /\ UNCHANGED <<declaration, phase, runs, externalVars, failures, events, reportVars>>

PushRule ==
    LET rule == spec.relationships_sync[k]
        due == {e \in Edges : e.predicate = rule.predicate /\ typeOf[e.from] = rule.source_type
                              /\ typeOf[e.to] = rule.target_type}
    IN  /\ lane = "relationships" /\ k <= Len(spec.relationships_sync)
        /\ linked' = linked \cup {e \in due : {e.from, e.to} \subseteq pushed}
        /\ clean' = (clean /\ due \subseteq linked')
        /\ k' = k + 1
        /\ UNCHANGED <<declaration, phase, lane, walked, level, runs, catalog, converged, external,
                       failures, events, reportVars>>

RelationshipsDone ==
    /\ lane = "relationships" /\ k > Len(spec.relationships_sync)
    /\ advance("none")
    /\ UNCHANGED <<declaration, phase, clean, runs, externalVars, failures, events, reportVars>>

\* The run ends, and is reported to a component that asked for it.
RunEnds ==
    /\ phase = "running" /\ lane = "none"
    /\ phase' = "idle"
    /\ report' = IF spec.receives_outcome_report THEN [report EXCEPT ![runs] = "pending"] ELSE report
    /\ UNCHANGED <<declaration, runVars, runs, externalVars, failures, events, inbox, tries, unread>>

\* A change fed by the change consumer: the record is sent again, without the
\* references, which only a run resolves.
EventPush(j, r) ==
    LET et == spec.entities_sync[j]
    IN  /\ phase \in {"idle", "running"} /\ events < MaxEvents
        /\ EffectiveChangeDelivery(spec) = "events"
        /\ r \in Rows(et.name) \cap pushed
        /\ writable(et, r)
        /\ write(et, {r}, FALSE)
        /\ events' = events + 1
        /\ UNCHANGED <<declaration, phase, runVars, runs, catalog, converged, linked,
                       failures, reportVars>>

-----------------------------------------------------------------------------
\* Reports: delivered until an answer is final or the budget is used up; an
\* answer may be lost, and a body may be over the cap or break off.

outcome(i) == Report(i, "egress", "completed")
afterTry(i, status) == CASE status = "204" -> "delivered"
                         [] status \in {"400", "501"} -> "dead"
                         [] OTHER -> IF tries[i] + 1 < MaxTries THEN "pending" ELSE "dead"

Deliver(i) ==
    /\ report[i] = "pending"
    /\ tries' = [tries EXCEPT ![i] = @ + 1]
    /\ \E readable, accepts, lost \in BOOLEAN :
          LET status == Handler(receiver, readable, outcome(i), accepts)
          IN  /\ unread' = IF readable THEN unread ELSE unread \cup {i}
              /\ inbox' = IF status = "204" THEN inbox \cup {i} ELSE inbox
              /\ report' = [report EXCEPT ![i] = afterTry(i, IF lost THEN "none" ELSE status)]
    /\ UNCHANGED <<declaration, phase, runVars, runs, externalVars, failures, events>>

Run == \/ PushAnchor \/ OntologyDone \/ NextLevel \/ PushBatch \/ TypeDone \/ EntitiesDone
       \/ PushRule \/ RelationshipsDone \/ RunEnds
Next ==
    \/ Upload \/ StartRun \/ Run
    \/ \E j \in 1..Len(spec.entities_sync) : \E r \in Record : EventPush(j, r)
    \/ \E i \in Ids : Deliver(i)

\* The platform works through a run and starts the next, and delivers.
Spec == Init /\ [][Next]_vars /\ WF_vars(Upload \/ StartRun \/ Run)

-----------------------------------------------------------------------------
\* Properties.

\* No other entry of the declaration is about the type; Validate lets one pass.
listedOnce(t) ==
    \A i, j \in 1..Len(spec.entities_sync) :
        spec.entities_sync[i].name = t /\ spec.entities_sync[j].name = t => i = j

\* Which owners a parent edge is about, and which it puts before which.
counts(pe, o) == pe.owner_precedence = <<>> \/ typeOf[o] \in Elements(pe.owner_precedence)
precedes(pe, o, p) ==
    \E a, b \in 1..Len(pe.owner_precedence) :
        a < b /\ pe.owner_precedence[a] = typeOf[o] /\ pe.owner_precedence[b] = typeOf[p]

\* An owner that counts is held as the record's, or gave way to one that comes
\* before it; no other owner is held.
ownerHeld(pe, r) ==
    /\ \A o \in external[r].owner : o \in ownersOf[r] /\ counts(pe, o)
    /\ \A o \in ownersOf[r] :
          counts(pe, o) => o \in external[r].owner \/ \E p \in external[r].owner : precedes(pe, p, o)

\* A run of an accepted declaration that nothing failed has left in the
\* external system every row of the declared types, each with the owner the
\* graph and the declared precedence give it: a name that addresses no edge, or
\* a direction lost to a mistyped key, never passes for "this record has no
\* owner".  Two things Validate lets pass are left out: a type listed twice,
\* where the last entry decides, and an edge that is called type_ref.
\* [egress.go isAddressableEdgeName, UnmarshalYAML, validateEgressEntityType;
\* types.go TypeRefKey]
CleanRunIsWhole ==
    phase = "running" /\ lane = "none" /\ clean =>
        \A j \in 1..Len(spec.entities_sync) :
            LET et == spec.entities_sync[j]
            IN  \A r \in Rows(et.name) :
                    /\ r \in pushed
                    /\ listedOnce(et.name) /\ ~collides(et) =>
                          \A i \in 1..Len(et.parent_edges) : ownerHeld(et.parent_edges[i], r)

\* Rows the declaration can deliver: of a type listed once, with one owner at
\* most, and under an owner that can be delivered itself, by an earlier entry
\* or higher up in the walk of their own.
closed(S) ==
    \A r \in S : \E j \in 1..Len(spec.entities_sync) :
        LET et == spec.entities_sync[j]
        IN  /\ et.name = typeOf[r]
            /\ ~ambiguous(et, r)
            /\ \A o \in ownersSent(et, r) :
                  /\ o \in S
                  /\ \/ et.hierarchical /\ typeOf[o] = et.name
                     \/ \E i \in 1..(j - 1) : spec.entities_sync[i].name = typeOf[o]
rowsOf(types) == UNION {Rows(t) : t \in types}
deliverable ==
    LET types == {t \in Elements(EntityTypeNames(spec)) : listedOnce(t)}
    IN  UNION {S \in SUBSET rowsOf(types) : closed(S)}

complete ==
    LET all == deliverable
    IN  /\ all \subseteq pushed
        /\ rowsOf(RelationshipEntityTypes(spec)) \subseteq all =>
              \A j \in 1..Len(spec.relationships_sync) :
                  LET rule == spec.relationships_sync[j]
                  IN  \A e \in Edges : /\ e.predicate = rule.predicate
                                       /\ typeOf[e.from] = rule.source_type
                                       /\ typeOf[e.to] = rule.target_type
                                       => e \in linked

\* Whatever of an accepted declaration can be delivered is delivered: the type
\* catalog a record refers to is there, and once every row of the endpoint
\* types can be delivered the convergence gate opens and the relationships
\* follow, as soon as the external system stops refusing records.
\* [egress.go validateEgressRelationshipSync, validateEgressEntityType,
\* RelationshipEntityTypes]
Converges == (phase = "idle") ~> (phase \in {"idle", "running"} /\ complete)

\* A record that a run wrote with its references is never replaced by one
\* without them, unless its type is listed twice: what feeds a component with
\* references are runs alone.  [egress.go validateEgressDelivery]
ReferencesKept ==
    [][phase # "uploaded" =>
         \A r \in pushed : external[r].refs /\ listedOnce(typeOf[r]) => external'[r].refs]_vars

\* The words of a binding as the platform compares them.
declares(b, word) == [word |-> word, exact |-> TRUE] \in Elements(b.modes)

\* In an installed kit the connector starts with its declared bindings and
\* serves each of them the way the platform, which reads the declared words as
\* they stand, provisions it: no webhook is opened that the connector answers
\* with 404, and none is served that nobody opened.
\* [manifest.go isValidSourceMode; types.go ModeFromStrings, webhookEnabled]
BindingsServed ==
    phase \in {"idle", "running"} =>
        \A i \in 1..Len(doc.source_connectors) :
            LET c == doc.source_connectors[i]
                started == bindingsOf(c)
            IN  /\ validateBindings(started)
                /\ \A j \in 1..Len(c.bindings) :
                      /\ webhookEnabled(started[j].mode) <=> declares(c.bindings[j], "webhook")
                      /\ pollEnabled(started[j].mode) <=>
                            declares(c.bindings[j], "poll") \/ c.bindings[j].modes = <<>>

\* A report is given up only where no receiver is, where its body could not be
\* read once, or when the retry budget is used up, never because the receiver
\* failed before that; and whatever the platform believes delivered has been
\* accepted, through failures of the receiver and answers that are lost.
\* [outcomereport.go Handler]
ReportNotLost ==
    \A i \in Ids : /\ report[i] = "dead" => ~receiver \/ i \in unread \/ tries[i] = MaxTries
                   /\ report[i] = "delivered" => i \in inbox
=============================================================================
