---------------------------- MODULE EgressManifest ----------------------------
(***************************************************************************)
(* The egress section of a kit manifest (manifest/egress.go) as operators: *)
(* how a parent edge or a reference edge is read from the document, what   *)
(* the defaulted settings are, and which declarations are refused before   *)
(* the kit is installed.                                                   *)
(*                                                                         *)
(* Type names, predicates and anchors are opaque values, "" is an empty    *)
(* one.  The name of an edge is a sequence of characters, because the rule *)
(* about edge names is about their characters: "a" and "t" stand for the   *)
(* letters and digits, two so that one name can be the reserved type_ref.  *)
(* A refusal's wording is left out.                                        *)
(***************************************************************************)
EXTENDS Naturals, SequencesExt

Elements(s) == {s[k] : k \in 1..Len(s)}
Distinct(s) == \A j, k \in 1..Len(s) : j # k => s[j] # s[k]
NonEmpty(s) == SelectSeq(s, LAMBDA x : x # "")

-----------------------------------------------------------------------------
\* Edge names.

\* Mutant: the characters known to be unsafe are listed.
MutNotListed(name) == name # <<>> /\ Last(name) # "_" /\ ":" \notin Elements(name)

Letters == {"a", "t"}
isAddressableEdgeName(name) ==
    /\ name # <<>>
    /\ Last(name) # "_"
    /\ Elements(name) \subseteq Letters \cup {"_"}

\* Every other character becomes an underscore, trailing ones are dropped.
sanitizeEdgeName(name) ==
    LET legal == [k \in 1..Len(name) |-> IF name[k] \in Letters THEN name[k] ELSE "_"]
        solid == {k \in 1..Len(name) : legal[k] # "_"}
    IN  IF solid = {} THEN <<>> ELSE SubSeq(legal, 1, Max(solid))

\* The key of parent_refs under which a record's own type arrives.
TypeRefKey == <<"t", "_", "t">>

NormalizeDirection(d) == IF d = "" THEN "out" ELSE d
ValidDirection(d) == NormalizeDirection(d) \in {"out", "in"}

-----------------------------------------------------------------------------
\* Reading an entry: a scalar, or a mapping given as the sequence of its keys
\* and values.  A key that is not known is an error, never passed over.

Refused == [refused |-> TRUE]
NoParentEdge == [edge |-> <<>>, direction |-> "", owner_precedence |-> <<>>]
NoReferenceEdge == [edge |-> <<>>, direction |-> "", target_type |-> "", name |-> <<>>]

\* The last of repeated keys wins.
fromMapping(node, empty) ==
    IF \E k \in 1..Len(node.pairs) : node.pairs[k].key \notin DOMAIN empty THEN Refused
    ELSE [f \in DOMAIN empty |->
             LET given == {k \in 1..Len(node.pairs) : node.pairs[k].key = f}
             IN  IF given = {} THEN empty[f] ELSE node.pairs[Max(given)].val]

UnmarshalParentEdge(node) ==
    CASE node.kind = "scalar" -> [NoParentEdge EXCEPT !.edge = node.value]
      [] node.kind = "mapping" -> fromMapping(node, NoParentEdge)
      [] OTHER -> Refused

UnmarshalReferenceEdge(node) ==
    IF node.kind = "mapping" THEN fromMapping(node, NoReferenceEdge) ELSE Refused

\* Parsing fails on the first entry that is refused.
parsed(entities) ==
    \A k \in 1..Len(entities) :
        /\ \A j \in 1..Len(entities[k].parent_edges) :
              UnmarshalParentEdge(entities[k].parent_edges[j]) # Refused
        /\ \A j \in 1..Len(entities[k].reference_edges) :
              UnmarshalReferenceEdge(entities[k].reference_edges[j]) # Refused

UnmarshalEntityType(et) ==
    [et EXCEPT !.parent_edges = [j \in 1..Len(@) |-> UnmarshalParentEdge(@[j])],
               !.reference_edges = [j \in 1..Len(@) |-> UnmarshalReferenceEdge(@[j])]]
Unmarshal(doc) ==
    [doc EXCEPT !.entities_sync = [k \in 1..Len(@) |-> UnmarshalEntityType(@[k])]]

-----------------------------------------------------------------------------
\* What readers of a declaration use.

EffectiveDirection(pe) == NormalizeDirection(pe.direction)
EffectiveImage(e) == IF e.container_image # "" THEN e.container_image ELSE e.image
DefaultEgressBatchSize == 200
EffectiveBatchSize(e) == IF e.batch_size > 0 THEN e.batch_size ELSE DefaultEgressBatchSize
EffectiveChangeDelivery(e) == IF e.change_delivery = "" THEN "events" ELSE e.change_delivery

EntityTypeNames(e) == NonEmpty([k \in 1..Len(e.entities_sync) |-> e.entities_sync[k].name])
OntologyAnchors(e) == NonEmpty([k \in 1..Len(e.ontology_sync) |-> e.ontology_sync[k].anchor])
RelationshipEntityTypes(e) ==
    (UNION {{e.relationships_sync[k].source_type, e.relationships_sync[k].target_type} :
            k \in 1..Len(e.relationships_sync)}) \ {""}

\* The one edge of a type that is walked level by level, or none.
NoEdge == [none |-> TRUE]
HierarchyEdge(et) ==
    IF ~et.hierarchical \/ Len(et.parent_edges) # 1 THEN NoEdge
    ELSE [et.parent_edges[1] EXCEPT !.direction = NormalizeDirection(@)]

-----------------------------------------------------------------------------
\* Validation.

validateEgressOntologySync(e) ==
    LET anchors == [k \in 1..Len(e.ontology_sync) |-> e.ontology_sync[k].anchor]
    IN  "" \notin Elements(anchors) /\ Distinct(anchors)

validateOwnerPrecedence(et, pe, declared) ==
    pe.owner_precedence # <<>> =>
        /\ ~et.hierarchical
        /\ Elements(pe.owner_precedence) \subseteq declared
        /\ Distinct(pe.owner_precedence)

validateReferenceEdges(et) ==
    LET res == et.reference_edges
    IN  /\ \A k \in 1..Len(res) :
              /\ res[k].target_type # "" /\ res[k].direction # ""
              /\ ValidDirection(res[k].direction)
              /\ isAddressableEdgeName(res[k].edge)
              /\ isAddressableEdgeName(res[k].name)
        /\ Distinct([k \in 1..Len(res) |-> res[k].name])

\* Edges are told apart by name alone: both directions of one edge would fill
\* the same reference.
validateEgressEntityType(et, hasOntologyLane, declared) ==
    LET pes == et.parent_edges
    IN  /\ et.type_ref => hasOntologyLane
        /\ et.hierarchical => Len(pes) = 1
        /\ \A k \in 1..Len(pes) :
              /\ ValidDirection(pes[k].direction)
              /\ validateOwnerPrecedence(et, pes[k], declared)
              /\ isAddressableEdgeName(pes[k].edge)
        /\ Distinct([k \in 1..Len(pes) |-> pes[k].edge])
        /\ validateReferenceEdges(et)

\* Mutant: an endpoint may be any type of the ontology.
MutAnyEndpoint(e) ==
    LET rules == e.relationships_sync
    IN  \A k \in 1..Len(rules) :
            rules[k].predicate # "" /\ rules[k].source_type # "" /\ rules[k].target_type # ""

validateEgressRelationshipSync(e) ==
    LET rules == e.relationships_sync
        key(k) == <<rules[k].predicate, rules[k].source_type, rules[k].target_type>>
    IN  /\ \A k \in 1..Len(rules) :
              /\ rules[k].predicate # "" /\ rules[k].source_type # "" /\ rules[k].target_type # ""
              /\ {rules[k].source_type, rules[k].target_type} \subseteq Elements(EntityTypeNames(e))
        /\ Distinct([k \in 1..Len(rules) |-> key(k)])

validateEgressWithdrawal(e) == e.withdrawal.relationships => e.relationships_sync # <<>>

ValidChangeDelivery(d) == d \in {"", "events", "off"}

\* Mutant: references are allowed however the component is fed.
MutAnyDelivery(e) == ValidChangeDelivery(e.change_delivery)

\* sync_generation is a set of at most one number: 0 is not "omitted".
validateEgressDelivery(e) ==
    /\ ValidChangeDelivery(e.change_delivery)
    /\ \A n \in e.sync_generation : n >= 1
    /\ EffectiveChangeDelivery(e) # "off" =>
          \A k \in 1..Len(e.entities_sync) : e.entities_sync[k].reference_edges = <<>>

\* One component at a time; names are unique among them.
validateEgressSync(e) ==
    LET declared == Elements(EntityTypeNames(e))
    IN  /\ e.name # "" /\ e.external_system # ""
        /\ declared # {}
        /\ EffectiveImage(e) = "pinned"
        /\ validateEgressOntologySync(e)
        /\ \A k \in 1..Len(e.entities_sync) :
              validateEgressEntityType(e.entities_sync[k], e.ontology_sync # <<>>, declared)
        /\ validateEgressRelationshipSync(e)
        /\ validateEgressWithdrawal(e)
        /\ validateEgressDelivery(e)

validateEgressSyncs(syncs) ==
    /\ Distinct([k \in 1..Len(syncs) |-> syncs[k].name])
    /\ \A k \in 1..Len(syncs) : validateEgressSync(syncs[k])
=============================================================================
