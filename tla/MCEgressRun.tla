---------------------------- MODULE MCEgressRun ----------------------------
(***************************************************************************)
(* Two locations inside another, a piece of equipment in one of them, a    *)
(* sensor that hangs on both the equipment and its room, and a relation    *)
(* between equipment and location.  Containment is stored in either        *)
(* direction under a predicate that the store has to sanitize or one it    *)
(* keeps, the reserved type_ref among them.  An author writes the edge in  *)
(* each of the forms the document allows, with a mistyped key too, and     *)
(* combines it with each optional part; which types are listed, in which   *)
(* order and with which owner_precedence, and the rest of the manifest,    *)
(* are varied one part at a time.                                          *)
(***************************************************************************)
EXTENDS EgressRun, TLC

CONSTANTS hall, room, annex, pump, sensor

Graph == {hall, room, annex, pump, sensor}
Kinds == hall :> "Location" @@ room :> "Location" @@ annex :> "Location" @@ pump :> "Equipment"
         @@ sensor :> "Point"
Containment == hall :> {} @@ room :> {hall} @@ annex :> {hall} @@ pump :> {room}
               @@ sensor :> {pump, room}
Anchors == "Location" :> "L" @@ "Equipment" :> "E" @@ "Point" :> "P"
Feeds == {[predicate |-> "feeds", from |-> pump, to |-> room]}
Reserved == [predicate |-> TypeRefKey, direction |-> "out"]
Kept == [predicate |-> <<"a", "a">>, direction |-> "out"]
Storage == [predicate : {<<"a", "a">>, <<"a", ".", "a">>, <<"a", ":">>}, direction : {"out", "in"}]
           \cup {Reserved}

pair(key, val) == [key |-> key, val |-> val]
Spellings(w) == {w.predicate, sanitizeEdgeName(w.predicate)}
EdgeNodes(w) ==
    LET mapping(n, key) == [kind |-> "mapping",
                            pairs |-> <<pair("edge", n), pair(key, w.direction)>>]
    IN  {mapping(n, key) : n \in Spellings(w), key \in {"direction", "directon"}}
        \cup (IF w.direction = "out" THEN {[kind |-> "scalar", value |-> n] : n \in Spellings(w)} ELSE {})

ReferenceNode == [kind |-> "mapping",
                  pairs |-> <<pair("edge", <<"a">>), pair("direction", "in"),
                              pair("target_type", "System"), pair("name", <<"a">>)>>]

entityType(name, edges, refs) ==
    [name |-> name, parent_edges |-> edges, reference_edges |-> refs,
     hierarchical |-> FALSE, type_ref |-> FALSE]

basic(edge) ==
    [name |-> "c", external_system |-> "x", image |-> "", container_image |-> "pinned",
     batch_size |-> 0, ontology_sync |-> <<>>, relationships_sync |-> <<>>,
     entities_sync |-> <<[entityType("Location", <<edge>>, <<>>) EXCEPT !.hierarchical = TRUE],
                         entityType("Equipment", <<edge>>, <<>>)>>,
     change_delivery |-> "", sync_generation |-> {}, receives_outcome_report |-> FALSE,
     withdrawal |-> [entities |-> FALSE, relationships |-> FALSE]]

anchor(a) == [anchor |-> a, include_parents |-> TRUE]
rule(to) == [predicate |-> "feeds", source_type |-> "Equipment", target_type |-> to]

WithReferences(d) == {[d EXCEPT !.entities_sync[1].reference_edges = <<ReferenceNode>>, !.change_delivery = c] :
                         c \in {"", "off", "sometimes"}}
WithCatalog(d) == {[d EXCEPT !.entities_sync[2].type_ref = TRUE, !.ontology_sync = o] :
                      o \in {<<>>, <<anchor("E")>>, <<anchor("L")>>, <<anchor("E"), anchor("E")>>}}
WithRelationships(d) == {[d EXCEPT !.relationships_sync = r, !.withdrawal.relationships = TRUE] :
                            r \in {<<>>, <<rule("Location")>>, <<rule("Location"), rule("System")>>}}

Declarations(w) ==
    LET plain == {basic(edge) : edge \in EdgeNodes(w)}
        extended == UNION {WithReferences(d) \cup WithCatalog(d) \cup WithRelationships(d) : d \in plain}
        reported == {[d EXCEPT !.receives_outcome_report = TRUE] : d \in plain}
        oneByOne == {[d EXCEPT !.batch_size = 1] : d \in plain}
    IN  plain \cup reported \cup oneByOne \cup extended \cup UNION {WithRelationships(d) : d \in extended}

\* Which types are listed, in which order, and whose owners count.
node(precedence) ==
    [kind |-> "mapping", pairs |-> <<pair("edge", <<"a", "a">>), pair("owner_precedence", precedence)>>]
Located(es) == [basic(node(<<>>)) EXCEPT !.entities_sync = es]
LocationEntry == [entityType("Location", <<node(<<>>)>>, <<>>) EXCEPT !.hierarchical = TRUE]
EquipmentEntry == entityType("Equipment", <<node(<<>>)>>, <<>>)
Precedences == {<<>>, <<"Equipment", "Location">>, <<"Location">>, <<"System">>, <<"Location", "Location">>}
Listings ==
    {Located(<<LocationEntry, EquipmentEntry, entityType("Point", <<node(p)>>, <<>>)>>) : p \in Precedences}
    \cup {Located(<<[LocationEntry EXCEPT !.parent_edges = <<node(<<"Location">>)>>]>>),
          Located(<<EquipmentEntry, LocationEntry>>),
          Located(<<EquipmentEntry>>),
          Located(<<>>),
          [Located(<<LocationEntry, EquipmentEntry, entityType("Equipment", <<>>, <<ReferenceNode>>)>>)
             EXCEPT !.change_delivery = "off"]}

\* The edge that shares its key with the reference to the type.
Colliding == {[basic([kind |-> "scalar", value |-> TypeRefKey]) EXCEPT
                 !.entities_sync[2].type_ref = ref, !.ontology_sync = <<anchor("E")>>] : ref \in BOOLEAN}

kit(e) ==
    [api_version |-> "v1", kind |-> "DomainKitManifest", name |-> "k", version |-> "1",
     display_name |-> {}, description |-> {}, platform_version |-> "1", prompt_fragments |-> <<>>,
     policies |-> <<>>, source_connectors |-> <<>>, egress_syncs |-> <<e>>, monitors |-> <<>>,
     modeling |-> NoModeling]

Plain == kit([basic(<<>>) EXCEPT !.entities_sync = <<entityType("Equipment", <<>>, <<>>)>>])

Headers == {[Plain EXCEPT !.kind = ""], [Plain EXCEPT !.kind = "Kit"], [Plain EXCEPT !.version = ""]}
           \cup {[Plain EXCEPT !.display_name = {key}] : key \in [parses : BOOLEAN, dash : BOOLEAN]}
           \cup {[Plain EXCEPT !.prompt_fragments = <<f>>] :
                    f \in [target : {"", "frontier", "planner"}, file : {"", "f"}]}

Components ==
    LET e == Plain.egress_syncs[1]
    IN  {[Plain EXCEPT !.egress_syncs = es] :
            es \in {<<[e EXCEPT !.name = ""]>>, <<[e EXCEPT !.external_system = ""]>>,
                    <<[e EXCEPT !.container_image = "", !.image = "latest"]>>,
                    <<[e EXCEPT !.container_image = "", !.image = "pinned"]>>,
                    <<[e EXCEPT !.sync_generation = {0}]>>, <<[e EXCEPT !.sync_generation = {1}]>>,
                    <<e, e>>, <<e, [e EXCEPT !.name = "d"]>>}}

policy(suffix, lv) == [id_suffix |-> suffix, level |-> lv, name |-> "p", expression |-> "x"]
Policies == {[Plain EXCEPT !.policies = p] :
                p \in {<<policy(<<"a", "-", "0">>, "data")>>, <<policy(<<"a", "0">>, "data")>>,
                       <<policy(<<"a", "0", "-">>, "data")>>, <<policy(<<"0", "a", "a">>, "routing")>>,
                       <<policy(<<"a", "_", "a">>, "routing")>>, <<policy(<<"a", "a", "a">>, "row")>>,
                       <<policy(<<"a", "a", "a">>, "data"), policy(<<"a", "a", "a">>, "routing")>>}}

Monitors == {[Plain EXCEPT !.monitors = <<[entity_type |-> "Equipment", metric |-> "m", method |-> meth,
                                           bounds |-> bs, durations |-> ds]>>] :
                meth \in {"", "threshold", "forecast"}, bs \in {{}, {"upper"}}, ds \in {{TRUE}, {TRUE, FALSE}}}

Modelings == {[Plain EXCEPT !.modeling = [mode |-> md, physical_types |-> ts, default_physical_type |-> dt]] :
                md \in {"", "typed", "hybrid", "mixed"}, ts \in {<<>>, <<"P">>, <<"P", "P">>}, dt \in {"", "P"}}

Modes == [word : {"poll", "webhook", "both", "stream"}, exact : BOOLEAN]
binding(id, modes) == [id |-> id, external_system |-> "x", source_type |-> "s", modes |-> modes]
connector(name, image, bindings) == [name |-> name, image |-> image, container_image |-> "", bindings |-> bindings]
Connectors ==
    {[Plain EXCEPT !.source_connectors = cs] :
        cs \in {<<connector("c", "i", <<binding("b", modes)>>)>> : modes \in SeqOf(Modes, 2)}
               \cup {<<connector("c", "", <<binding("b", <<>>)>>)>>, <<connector("c", "i", <<>>)>>,
                     <<connector("c", "i", <<binding("b", <<>>), binding("b", <<>>)>>)>>,
                     <<connector("c", "i", <<binding("b", <<>>)>>), connector("c", "i", <<binding("b", <<>>)>>)>>}}

Variants == Headers \cup Components \cup Policies \cup Monitors \cup Modelings \cup Connectors
Documents(w) ==
    IF w = Reserved THEN {kit(e) : e \in Colliding}
    ELSE {kit(e) : e \in Declarations(w)}
         \cup IF w = Kept THEN {kit(e) : e \in Listings} \cup Variants ELSE {}
Either == BOOLEAN
=============================================================================
